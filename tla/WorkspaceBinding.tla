-------------------------- MODULE WorkspaceBinding --------------------------
(***************************************************************************)
(* Binding a workspace to a conversation                                   *)
(* (workspaces/WorkspaceBindingController.ts), driven by the screen        *)
(* (screens/HomeScreen.tsx): the picker, opening Files (which creates a    *)
(* workspace when there is none), opening a project, and the retry of a    *)
(* save whose outcome is unknown.                                          *)
(*                                                                         *)
(* Every await of a call is a step of its own, so calls interleave with    *)
(* each other and with the user, who edits and selects conversations and   *)
(* closes surfaces.  Row identity, epochs, surface numbers and operation   *)
(* ids are marks that are only compared: a new one is any mark nobody      *)
(* holds, so they need no bound.                                           *)
(* The native registry and the project context are modelled by what they   *)
(* answer; projects are only present or not.                               *)
(***************************************************************************)
EXTENDS Naturals, Sequences, FiniteSets, FiniteSetsExt

CONSTANTS
  Conversations,
  Slots,       \* bound: calls under way at once
  Grants,      \* bound: revisions of the folder the user grants
  MaxAsks,     \* bound: calls the user starts
  MaxMoves     \* bound: what else the user and the system do

ASSUME SlotsAssumption == /\ {Slots, Grants, MaxAsks, MaxMoves} \subseteq Nat \ {0}
                          /\ Conversations # {} /\ IsFiniteSet(Conversations)

VARIABLES
  app,     \* controller, screen and chat store, gone with the process
  reg,     \* native: the operations that created a workspace, the folder's revision
  saves,   \* saves asked for and not answered: the call and its document
  disk,    \* the saved binding of each conversation
  asks, moves

vars == <<app, reg, saves, disk, asks, moves>>

\* A root is a workspace and its revision: workspace k >= 1 was created by
\* operation k, workspace 0 is the folder the user granted, <<0, 0>> is null.
NoRoot == <<0, 0>>
Row(ver, bind) == [ver |-> ver, bind |-> bind]
Bindings(a) == [c \in Conversations |-> a.rows[c].bind]

Idle == [at |-> "idle", kind |-> "none", op |-> 0, conv |-> "none", root |-> NoRoot, ver |-> 0,
         epoch |-> 0, nonce |-> 0, cand |-> 0, before |-> Row(0, NoRoot)]
NoLatch == [w |-> Idle, settled |-> FALSE]
NoPub == [op |-> 0, conv |-> "none", root |-> NoRoot, ph |-> "idle"]
Ensuring == {"elist", "equery", "relist", "create", "query", "create2"}

Mark(held) == CHOOSE k \in 1 .. Cardinality(held) + 1 : k \notin held
Held(a) == {a.calls[n] : n \in 1 .. Slots} \cup {a.latch.w}
FreshVer(a) == Mark({a.rows[c].ver : c \in Conversations} \cup {w.ver : w \in Held(a)}
                    \cup {w.cand : w \in Held(a)} \cup {w.before.ver : w \in Held(a)})
FreshEpoch(a) == Mark({a.epoch} \cup {w.epoch : w \in Held(a)})
FreshNonce(a) == Mark({a.nonce} \cup {w.nonce : w \in Held(a)})
FreshOp(a) == Mark({a.create, a.pub.op} \cup {w.op : w \in Held(a)} \cup reg.made)
----------------------------------------------------------------------------
(* Who owns a call.                                                         *)

\* isPickerGenerationCurrent and isSurfaceNonceCurrent; 0 is null.
OnSurface(a, w) == \/ w.nonce = 0
                   \/ /\ w.nonce = a.nonce
                      /\ w.kind = "pick" => a.sheet

\* isShellCurrent.
ShellCurrent(a, n, anyEpoch) ==
  LET w == a.calls[n]
  IN /\ a.act = n
     /\ a.sel = w.conv
     /\ anyEpoch \/ a.epoch = w.epoch
     /\ OnSurface(a, w)

\* isCurrent: the conversation is the row it was, too.
Current(a, n) == /\ ShellCurrent(a, n, FALSE)
                 /\ a.rows[a.calls[n].conv].ver = a.calls[n].ver

\* captureOwner.
Captured(a, w) == [w EXCEPT !.ver = a.rows[w.conv].ver, !.epoch = a.epoch]

\* invalidate.
Invalidated(a) == IF a.latch # NoLatch THEN a ELSE [a EXCEPT !.act = 0, !.pub = NoPub]

\* closeWorkspacePicker.
Closed(a) == Invalidated([a EXCEPT !.nonce = FreshNonce(a), !.sheet = FALSE])
----------------------------------------------------------------------------
(* How a call ends.                                                         *)

\* What the screen makes of a result.
Told(a, w, res) ==
  CASE w.at = "resave" /\ res = "unknown" -> [a EXCEPT !.banner = TRUE]
    [] w.at = "resave" /\ res \in {"not_committed", "conflict", "drifted"} -> [a EXCEPT !.banner = FALSE]
    [] w.at = "resave" /\ res = "committed" ->
         LET b == [a EXCEPT !.banner = FALSE] IN IF a.sheet THEN Closed(b) ELSE b
    [] w.at # "resave" /\ w.kind = "project" -> [a EXCEPT !.banner = (res = "unknown")]
    [] w.at # "resave" /\ w.kind # "project"
         /\ (res = "unknown" \/ (res = "stale" /\ a.pub.ph = "pending")) -> [a EXCEPT !.banner = TRUE]
    [] w.at # "resave" /\ w.kind = "pick" /\ res \in {"committed", "unchanged"} /\ w.nonce = a.nonce ->
         Closed([a EXCEPT !.banner = FALSE])
    [] OTHER -> a

\* Mutant: the finally clause that frees the controller is missing.
FinishBusy(a, n, res) == Told([a EXCEPT !.calls[n] = Idle], a.calls[n], res)

\* The finally clauses, then the screen.
Finish(a, n, res) ==
  LET w == a.calls[n]
      b == [a EXCEPT !.act = IF @ = n THEN 0 ELSE @, !.calls[n] = Idle]
      kept == a.latch # NoLatch /\ a.latch.w.op = w.op
      quiet == /\ w.at \notin Ensuring
               /\ b.act = 0 /\ ~kept
               /\ b.pub.op = w.op /\ b.pub.ph \notin {"committed", "drifted"}
  IN Told(IF quiet THEN [b EXCEPT !.pub = NoPub] ELSE b, w, res)

Go(a, n, at) == [a EXCEPT !.calls[n].at = at]
Stale(a, n)  == Finish(a, n, "stale")
----------------------------------------------------------------------------
(* bindWorkspace.                                                           *)

\* Its start: w is the request, with the root when the caller gave a target.
Bind(a, n, w) ==
  LET asked == [a EXCEPT !.calls[n] = Idle]
  IN IF a.latch # NoLatch \/ a.act # 0 THEN Told(asked, w, "blocked")
     ELSE IF a.sel # w.conv THEN Told(asked, w, "stale")
     ELSE [a EXCEPT !.act = n, !.calls[n] = Captured(a, w),
                    !.pub = [op |-> w.op, conv |-> w.conv, root |-> w.root, ph |-> "busy"]]

\* After the lookups: nothing to do, or the guards.
Guards(a, n) ==
  LET w == a.calls[n]
  IN IF a.rows[w.conv].bind = w.root THEN Finish(a, n, "unchanged") ELSE Go(a, n, "context")

\* The context guard; a rebind by the project context moved the epoch and the row.
ContextAnswered(a, n, ans) ==
  LET w == a.calls[n]
  IN IF ans = "rebound" THEN IF ShellCurrent(a, n, TRUE)
                             THEN [a EXCEPT !.calls[n] = [Captured(a, w) EXCEPT !.at = "completion"]]
                             ELSE Stale(a, n)
     ELSE IF ~Current(a, n) THEN Stale(a, n)
     ELSE IF ans = "ok" THEN Go(a, n, "completion") ELSE Finish(a, n, "blocked")

\* applyConversationWorkspaceBinding and its reducer case; "takes" is FALSE
\* when the store refuses for an attempt or a pending clearance.
Applied(a, n) ==
  LET w == a.calls[n]
      v == FreshVer(a)
  IN [a EXCEPT !.rows[w.conv] = Row(v, w.root),
               !.calls[n] = [w EXCEPT !.at = "save", !.cand = v, !.before = a.rows[w.conv]],
               !.pub = [@ EXCEPT !.root = w.root, !.ph = "pending"]]

\* Mutant: the owner is not looked at again after the last guard.
CompletionTrusted(a, n, ans, takes) ==
  LET w == a.calls[n]
  IN IF ans = "bad" THEN Finish(a, n, "blocked")
     ELSE IF a.rows[w.conv].bind = w.root THEN Finish(a, n, "unchanged")
     ELSE IF ~takes THEN Finish(a, n, "conflict")
     ELSE Applied(a, n)

\* The completion guard, then the amendment of the store.
CompletionAnswered(a, n, ans, takes) ==
  LET w == a.calls[n]
      now == a.rows[w.conv].bind
  IN IF ~Current(a, n) THEN Stale(a, n)
     ELSE IF ans = "bad" THEN Finish(a, n, "blocked")
     ELSE IF now = w.root THEN Finish(a, n, "unchanged")
     ELSE IF ~takes \/ (now # NoRoot /\ w.root[2] <= now[2]) THEN Finish(a, n, "conflict")
     ELSE Applied(a, n)
----------------------------------------------------------------------------
(* The answer to the save.                                                  *)

\* rollback of workspaceBindingTransaction, when the row is still its own.
RolledBack(a, w) == [a EXCEPT !.rows[w.conv] = w.before]

\* Mutant: an unknown outcome is taken for a commit.
SaveBelieved(a, n, res) ==
  LET w == a.calls[n]
      owned == ShellCurrent(a, n, FALSE) /\ a.rows[w.conv].ver = w.cand
  IN IF owned THEN Finish([a EXCEPT !.latch = NoLatch, !.pub.ph = "committed"], n, "committed")
              ELSE Stale(a, n)

\* The rest of bindWorkspace.
SaveAnswered(a, n, res) ==
  LET w == a.calls[n]
      row == a.rows[w.conv].ver = w.cand
      owned == ShellCurrent(a, n, FALSE) /\ row
  IN CASE res = "committed" ->
            IF owned THEN Finish([a EXCEPT !.latch = NoLatch, !.pub.ph = "committed"], n, "committed")
                     ELSE Finish([a EXCEPT !.latch = NoLatch], n, "drifted")
       [] res = "unknown" ->
            IF owned THEN Finish([a EXCEPT !.latch = [w |-> w, settled |-> FALSE]], n, "unknown")
                     ELSE Stale(a, n)
       [] res = "not_committed" ->
            IF row THEN Finish(RolledBack(a, w), n, IF owned THEN "not_committed" ELSE "stale")
                   ELSE Stale(a, n)

\* retryPersistence, after its save: isPendingCandidateCurrent decides.
RetryAnswered(a, n, res) ==
  LET w == a.calls[n]
      mine == ~a.latch.settled /\ a.rows[w.conv].ver = w.cand
      owned == ShellCurrent(a, n, FALSE) /\ a.rows[w.conv].ver = w.cand
      free == [a EXCEPT !.latch = NoLatch]
  IN CASE res = "committed" ->
            LET how == IF mine /\ owned THEN "committed" ELSE "drifted"
            IN Finish([free EXCEPT !.pub.ph = how], n, how)
       [] res = "unknown" -> IF owned THEN Finish(a, n, "unknown") ELSE Stale(free, n)
       [] res = "not_committed" ->
            IF mine THEN Finish(RolledBack(free, w), n, IF owned THEN "not_committed" ELSE "stale")
                    ELSE Finish([a EXCEPT !.latch.settled = TRUE], n, "conflict")
----------------------------------------------------------------------------
(* ensureAppOwnedWorkspace.                                                 *)

\* Mutant: every attempt mints its own operation id.
EnsureAnew(a, n, w) ==
  IF a.latch # NoLatch \/ a.act # 0 THEN Told(a, w, "blocked")
  ELSE [a EXCEPT !.act = n, !.calls[n] = Captured(a, [w EXCEPT !.op = FreshOp(a)])]

\* Its start: a create that may have happened is asked about under its own id.
Ensure(a, n, w) ==
  LET op == IF a.create # 0 THEN a.create ELSE FreshOp(a)
  IN IF a.latch # NoLatch \/ a.act # 0 THEN Told(a, w, "blocked")
     ELSE [a EXCEPT !.act = n, !.calls[n] = Captured(a, [w EXCEPT !.op = op])]

\* The create, remembered before the await.
Create(a, n) ==
  LET w == a.calls[n]
  IN [a EXCEPT !.create = w.op, !.calls[n].at = "create",
               !.pub = [op |-> w.op, conv |-> w.conv, root |-> NoRoot, ph |-> "busy"]]

\* A workspace to bind: the common pipeline takes it from here.
Bound(a, n, root) ==
  Bind([a EXCEPT !.create = 0, !.act = 0], n,
       [a.calls[n] EXCEPT !.root = root, !.at = "resolve"])

\* What a query of the operation says: committed, not started, or no answer.
EnsureAnswered(a, n, ans) ==
  LET w == a.calls[n]
      mine == <<w.op, 1>>
  IN IF ~Current(a, n) THEN Stale(a, n)
     ELSE CASE w.at = "elist" ->
                 IF ans = "bad" THEN Finish(a, n, "blocked")
                 ELSE IF a.create = w.op THEN Go(a, n, "equery")
                 ELSE IF reg.made # {} THEN Bound(a, n, <<Min(reg.made), 1>>)
                 ELSE Create(a, n)
            [] w.at \in {"equery", "query"} ->
                 IF ans = "bad" THEN Finish(a, n, "unknown")
                 ELSE IF w.op \in reg.made THEN Go(a, n, "relist")
                 ELSE IF w.at = "equery" THEN Create(a, n) ELSE Go(a, n, "create2")
            [] w.at = "relist" -> IF ans = "bad" THEN Finish(a, n, "blocked") ELSE Bound(a, n, mine)
            [] w.at = "create"  -> IF ans = "bad" THEN Go(a, n, "query") ELSE Bound(a, n, mine)
            [] w.at = "create2" -> IF ans = "bad" THEN Finish(a, n, "unknown") ELSE Bound(a, n, mine)
----------------------------------------------------------------------------
(* Steps.                                                                   *)

Init == /\ app = [sel |-> CHOOSE c \in Conversations : TRUE, seen |-> CHOOSE c \in Conversations : TRUE,
                  epoch |-> 1, nonce |-> 1, sheet |-> FALSE, banner |-> FALSE, act |-> 0,
                  latch |-> NoLatch, create |-> 0, pub |-> NoPub,
                  rows |-> [c \in Conversations |-> Row(1, NoRoot)],
                  calls |-> [n \in 1 .. Slots |-> Idle]]
        /\ reg = [made |-> {}, folder |-> 1]
        /\ saves = << >>
        /\ disk = [c \in Conversations |-> NoRoot]
        /\ asks = 0 /\ moves = 0

\* Bounds: a call of the user, any other move; what they lead to is free.
Asks  == asks < MaxAsks /\ asks' = asks + 1 /\ UNCHANGED moves
Moves == moves < MaxMoves /\ moves' = moves + 1 /\ UNCHANGED asks
Goes  == UNCHANGED <<asks, moves>>

Free(n) == /\ app.calls[n] = Idle
           /\ \A m \in 1 .. n - 1 : app.calls[m] # Idle
Saved(n) == saves' = Append(saves, [n |-> n, doc |-> Bindings(app')])
Native == UNCHANGED <<reg, saves, disk>>
Request(kind, at, root, nonce) ==
  [Idle EXCEPT !.kind = kind, !.at = at, !.root = root, !.nonce = nonce,
               !.conv = app.sel, !.op = FreshOp(app)]

\* openWorkspacePicker.
OpenPicker == /\ ~app.sheet
              /\ app' = [app EXCEPT !.nonce = FreshNonce(app), !.sheet = TRUE]
              /\ Native
              /\ Moves

ClosePicker == app.sheet /\ app' = Closed(app) /\ Native /\ Moves

\* handleWorkspaceSelect: the folder, or a workspace the app created.
Pick(n) == /\ app.sheet /\ Free(n)
           /\ \E ws \in {0} \cup reg.made :
                app' = Bind(app, n, Request("pick", "list", <<ws, 1>>, app.nonce))
           /\ Native
           /\ Asks

\* openFilesForConversation, on a conversation without a binding.
OpenFiles(n) == /\ app.rows[app.sel].bind = NoRoot /\ Free(n)
                /\ LET a == [app EXCEPT !.nonce = FreshNonce(app)]
                   IN app' = Ensure(a, n, Request("files", "elist", NoRoot, a.nonce))
                /\ Native
                /\ Asks

\* chatInProject: a new conversation (one nothing refers to stands for it) is
\* selected and bound to the project's workspace; no picker owns the call.
ChatInProject(n) ==
  /\ ~app.sheet /\ Free(n)
  /\ \E c \in Conversations \ {app.sel} :
       /\ app.rows[c].bind = NoRoot /\ \A w \in Held(app) : w.conv # c
       /\ LET a == [app EXCEPT !.sel = c, !.rows[c] = Row(FreshVer(app), NoRoot)]
          IN app' = Bind(a, n, [Request("project", "resolve", <<0, reg.folder>>, 0) EXCEPT !.conv = c])
  /\ Native
  /\ Asks

\* The answers to list, resolve and the project lookup.
LookupAnswered(n) ==
  LET w == app.calls[n]
      exact == w.root[1] # 0 \/ w.root[2] = reg.folder
  IN /\ w.at \in {"list", "resolve", "lookup", "resolve2", "lookup2"}
     /\ \E ans \in {"ok", "attached", "bad"} :
          /\ ans = "attached" => w.at = "lookup"
          /\ w.at \in {"resolve", "resolve2"} /\ ~exact => ans = "bad"
          /\ app' = IF ~Current(app, n) THEN Stale(app, n)
                    ELSE IF ans = "bad" THEN Finish(app, n, "blocked")
                    ELSE CASE w.at = "list" ->
                                [app EXCEPT !.calls[n].at = "resolve",
                                            !.calls[n].root = IF w.root[1] = 0 THEN <<0, reg.folder>> ELSE @]
                           [] w.at = "resolve"  -> Go(app, n, "lookup")
                           [] w.at = "resolve2" -> Go(app, n, "lookup2")
                           [] w.at = "lookup2"  -> Guards(app, n)
                           [] w.at = "lookup" /\ ans = "ok" ->
                                IF w.kind = "project" THEN Finish(app, n, "conflict") ELSE Guards(app, n)
                           [] w.at = "lookup" /\ ans = "attached" ->
                                IF w.kind = "files" THEN Finish(app, n, "blocked") ELSE Go(app, n, "resolve2")
  /\ Native
  /\ Goes

\* The two guards.  Rebinding the project context gives the conversation a
\* new row without a workspace and moves the destructive epoch.
ContextGuard(n) ==
  /\ app.calls[n].at = "context"
  /\ \/ \E ans \in {"ok", "bad"} : app' = ContextAnswered(app, n, ans)
     \/ LET c == app.calls[n].conv
        IN app' = ContextAnswered([app EXCEPT !.epoch = FreshEpoch(app),
                                              !.rows[c] = Row(FreshVer(app), NoRoot)], n, "rebound")
  /\ Native
  /\ Goes

CompletionGuard(n) ==
  /\ app.calls[n].at = "completion"
  /\ \E ans \in {"ok", "bad"}, takes \in BOOLEAN : app' = CompletionAnswered(app, n, ans, takes)
  /\ IF app'.calls[n].at = "save" THEN Saved(n) ELSE UNCHANGED saves
  /\ UNCHANGED <<reg, disk>>
  /\ Goes

\* The native side of the create, which one operation does once.
MakeWorkspace(n) == /\ app.calls[n].at \in {"create", "create2"}
                    /\ reg' = [reg EXCEPT !.made = @ \cup {app.calls[n].op}]
                    /\ UNCHANGED <<app, saves, disk>>
                    /\ Goes

EnsureStep(n) ==
  /\ app.calls[n].at \in Ensuring
  /\ \E ans \in {"ok", "bad"} :
       /\ app.calls[n].at \in {"create", "create2"} /\ ans = "ok" => app.calls[n].op \in reg.made
       /\ app' = EnsureAnswered(app, n, ans)
  /\ Native
  /\ Goes

\* The oldest save is answered: committed, refused, or unknown either way.
\* Call 0 is a save of somebody else.
SaveAnswer ==
  /\ saves # << >>
  /\ \E res \in {"committed", "unknown", "not_committed"} :
       LET n == Head(saves).n
       IN /\ app' = IF n = 0 THEN app
                    ELSE IF app.calls[n].at = "save" THEN SaveAnswered(app, n, res)
                    ELSE RetryAnswered(app, n, res)
          /\ disk' \in CASE res = "committed" -> {Head(saves).doc}
                         [] res = "unknown"   -> {disk, Head(saves).doc}
                         [] OTHER             -> {disk}
  /\ saves' = Tail(saves)
  /\ UNCHANGED reg
  /\ Goes

OtherSave == /\ \A i \in DOMAIN saves : saves[i].n # 0
             /\ UNCHANGED <<app, reg, disk>>
             /\ Saved(0)
             /\ Moves

\* retryWorkspaceBinding, offered by the banner.
Retry(n) ==
  /\ app.banner /\ app.latch # NoLatch /\ app.act = 0 /\ Free(n)
  /\ LET w == app.latch.w
     IN app' = [app EXCEPT !.act = n, !.calls[n] = [w EXCEPT !.at = "resave"],
                           !.pub = [op |-> w.op, conv |-> w.conv, root |-> w.root, ph |-> "pending"]]
  /\ Saved(n)
  /\ UNCHANGED <<reg, disk>>
  /\ Asks

\* The user edits a conversation, or selects another one.
Edit(c) == app' = [app EXCEPT !.rows[c].ver = FreshVer(app)] /\ Native /\ Moves

Select(c) == c # app.sel /\ app' = [app EXCEPT !.sel = c] /\ Native /\ Moves

\* The effect that follows a change of the selected conversation.
Rendered == /\ app.seen # app.sel
            /\ LET a == [app EXCEPT !.seen = app.sel]
               IN app' = IF app.pub.conv # app.sel THEN Invalidated(a) ELSE a
            /\ Native
            /\ Goes

\* The folder is granted again, under its next revision.
Regrant == /\ reg.folder < Grants
           /\ reg' = [reg EXCEPT !.folder = @ + 1]
           /\ UNCHANGED <<app, saves, disk>>
           /\ Moves

Relaunch == /\ app' = [app EXCEPT !.epoch = 1, !.nonce = 1, !.sheet = FALSE, !.banner = FALSE,
                                  !.act = 0, !.latch = NoLatch, !.create = 0, !.pub = NoPub,
                                  !.seen = app.sel,
                                  !.rows = [c \in Conversations |-> Row(1, disk[c])],
                                  !.calls = [n \in 1 .. Slots |-> Idle]]
            /\ saves' = << >>
            /\ UNCHANGED <<reg, disk>>
            /\ Moves

Next == \/ OpenPicker \/ ClosePicker \/ Rendered \/ SaveAnswer \/ OtherSave \/ Regrant \/ Relaunch
        \/ \E c \in Conversations : Edit(c) \/ Select(c)
        \/ \E n \in 1 .. Slots : \/ Pick(n) \/ OpenFiles(n) \/ ChatInProject(n) \/ Retry(n)
                                 \/ LookupAnswered(n) \/ ContextGuard(n) \/ CompletionGuard(n)
                                 \/ MakeWorkspace(n) \/ EnsureStep(n)

Spec == Init /\ [][Next]_vars
----------------------------------------------------------------------------
(* Properties.                                                              *)

Root == Nat \X (0 .. Grants)
RowType == [ver : Nat, bind : Root]
Place == {"idle", "list", "resolve", "lookup", "resolve2", "lookup2", "context", "completion",
          "save", "resave"} \cup Ensuring
Call == [at : Place, kind : {"none", "pick", "files", "project"}, op : Nat,
         conv : Conversations \cup {"none"}, root : Root, ver : Nat, epoch : Nat, nonce : Nat,
         cand : Nat, before : RowType]
Publication == [op : Nat, conv : Conversations \cup {"none"}, root : Root,
                ph : {"idle", "busy", "pending", "committed", "drifted"}]
App == [sel : Conversations, seen : Conversations, epoch : Nat, nonce : Nat, sheet : BOOLEAN,
        banner : BOOLEAN, act : 0 .. Slots, latch : [w : Call, settled : BOOLEAN], create : Nat,
        pub : Publication, rows : [Conversations -> RowType], calls : [1 .. Slots -> Call]]

\* The controller and the screen are in a state their fields allow: one call
\* at most is the active one, and a save under way is one a call waits for
\* or somebody else's.
TypeOK ==
  /\ app \in App
  /\ reg \in [made : SUBSET Nat, folder : 1 .. Grants]
  /\ saves \in Seq([n : 0 .. Slots, doc : [Conversations -> Root]])
  /\ disk \in [Conversations -> Root]
  /\ app.act # 0 => app.calls[app.act] # Idle
  /\ \A n \in 1 .. Slots : app.calls[n].at \in {"save", "resave"} <=> \E i \in DOMAIN saves : saves[i].n = n

\* "If this surface is invalidated, another conversation still has to
\* query/reuse this exact operation rather than minting one"
\* (WorkspaceBindingController.ts): however often Files is opened, and
\* whatever is lost, closed or selected meanwhile, the app creates one
\* workspace.
CreatedOnce == Cardinality(reg.made) <= 1

\* A conversation is bound by the call that owns it: when a binding appears,
\* its conversation is the selected one, its call is the active one, and
\* nobody changed the conversation since the call captured it.
BindsTheOwner ==
  [][\A c \in Conversations :
       app'.rows[c].bind # app.rows[c].bind /\ app'.rows[c].bind # NoRoot =>
         \/ \E n \in 1 .. Slots : /\ app.calls[n].at = "completion" /\ app.calls[n].conv = c
                                  /\ app.act = n /\ app.sel = c
                                  /\ app.rows[c].ver = app.calls[n].ver
         \/ app'.rows[c] \in {w.before : w \in Held(app)}
         \/ app'.calls = [n \in 1 .. Slots |-> Idle] /\ app'.rows[c].bind = disk[c]]_vars

\* What the controller shows as committed, without a conflict, is on disk.
CommittedIsSaved ==
  [][app'.pub.ph = "committed" /\ app.pub # app'.pub => disk'[app'.pub.conv] = app'.pub.root]_vars

\* A write kept for a retry can be retried: its banner is shown, or a call
\* that will say what became of it is under way.
LatchHasExit == app.latch # NoLatch => app.banner \/ app.act # 0
=============================================================================
