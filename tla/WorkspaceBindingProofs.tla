----------------------- MODULE WorkspaceBindingProofs -----------------------
(***************************************************************************)
(* Theorems about binding a workspace, for every set of conversations and  *)
(* every number of calls under way.                                        *)
(***************************************************************************)
EXTENDS WorkspaceBinding, TLAPS, FiniteSetTheorems
----------------------------------------------------------------------------
(***************************************************************************)
(* Marks are new                                                           *)
(***************************************************************************)
\* A mark is positive and nobody holds it.
LEMMA MarkIsNew ==
  ASSUME NEW held, IsFiniteSet(held)
  PROVE  Mark(held) \in Nat \ {0} /\ Mark(held) \notin held
<1> DEFINE k == Cardinality(held) + 1
<1>1. Cardinality(held) \in Nat /\ k \in Nat \ {0}
  BY FS_CardinalityType
<1>2. IsFiniteSet(1 .. k) /\ Cardinality(1 .. k) = k
  BY <1>1, FS_Interval
<1>3. ~(1 .. k \subseteq held)
  BY <1>1, <1>2, FS_Subset
<1>4. \E j \in 1 .. k : j \notin held
  BY <1>3
<1> HIDE DEF k
<1>5. (CHOOSE j \in 1 .. k : j \notin held) \in 1 .. k /\ (CHOOSE j \in 1 .. k : j \notin held) \notin held
  BY <1>4
<1>6. Mark(held) = CHOOSE j \in 1 .. k : j \notin held
  BY DEF Mark, k
<1> QED BY <1>1, <1>5, <1>6

\* What a function makes of a finite set is finite.
LEMMA ImageIsFinite ==
  ASSUME NEW S, IsFiniteSet(S), NEW f
  PROVE  IsFiniteSet({f[x] : x \in S})
<1> DEFINE T == {f[x] : x \in S}
           g == [x \in S |-> f[x]]
<1>1. g \in Surjection(S, T)
  BY DEF Surjection
<1> QED BY <1>1, FS_Surjection

\* The calls under way and the latched one are finitely many, and so are the
\* operations, the epochs, the numbers and the row versions they hold.
LEMMA HeldIsFinite ==
  ASSUME NEW a
  PROVE  /\ IsFiniteSet(Held(a))
         /\ IsFiniteSet({w.op : w \in Held(a)}) /\ IsFiniteSet({w.epoch : w \in Held(a)})
         /\ IsFiniteSet({w.nonce : w \in Held(a)}) /\ IsFiniteSet({w.ver : w \in Held(a)})
         /\ IsFiniteSet({w.cand : w \in Held(a)}) /\ IsFiniteSet({w.before.ver : w \in Held(a)})
<1>1. IsFiniteSet(1 .. Slots)
  BY SlotsAssumption, FS_Interval
<1>2. IsFiniteSet({a.calls[n] : n \in 1 .. Slots})
  BY <1>1, ImageIsFinite
<1>3. IsFiniteSet({a.latch.w})
  BY FS_Singleton
<1>4. IsFiniteSet(Held(a))
  BY <1>2, <1>3, FS_Union DEF Held
<1> DEFINE H == Held(a)
<1> HIDE DEF H
<1>5. IsFiniteSet(H)
  BY <1>4 DEF H
<1>6. \A f : IsFiniteSet({f[w] : w \in H})
  BY <1>5, ImageIsFinite
<1>7. {w.op : w \in H} = {[v \in H |-> v.op][w] : w \in H}
  OBVIOUS
<1>8. {w.epoch : w \in H} = {[v \in H |-> v.epoch][w] : w \in H}
  OBVIOUS
<1>9. {w.nonce : w \in H} = {[v \in H |-> v.nonce][w] : w \in H}
  OBVIOUS
<1>10. {w.ver : w \in H} = {[v \in H |-> v.ver][w] : w \in H}
  OBVIOUS
<1>11. {w.cand : w \in H} = {[v \in H |-> v.cand][w] : w \in H}
  OBVIOUS
<1>12. {w.before.ver : w \in H} = {[v \in H |-> v.before.ver][w] : w \in H}
  OBVIOUS
<1>13. /\ IsFiniteSet({w.op : w \in H}) /\ IsFiniteSet({w.epoch : w \in H})
       /\ IsFiniteSet({w.nonce : w \in H}) /\ IsFiniteSet({w.ver : w \in H})
       /\ IsFiniteSet({w.cand : w \in H}) /\ IsFiniteSet({w.before.ver : w \in H})
  BY ZenonT(30), <1>6, <1>7, <1>8, <1>9, <1>10, <1>11, <1>12
<1> QED BY <1>4, <1>13 DEF H

\* A new version, epoch, number or operation is none of those in use.
LEMMA Fresh ==
  ASSUME NEW a
  PROVE  /\ FreshVer(a) \in Nat \ {0} /\ FreshEpoch(a) \in Nat \ {0} /\ FreshNonce(a) \in Nat \ {0}
         /\ \A c \in Conversations : a.rows[c].ver # FreshVer(a)
         /\ \A w \in Held(a) : /\ w.ver # FreshVer(a) /\ w.cand # FreshVer(a)
                               /\ w.before.ver # FreshVer(a)
         /\ IsFiniteSet(reg.made) => FreshOp(a) \in Nat \ {0}
<1> DEFINE R == {a.rows[c].ver : c \in Conversations}
           V == {w.ver : w \in Held(a)}
           C == {w.cand : w \in Held(a)}
           B == {w.before.ver : w \in Held(a)}
           E == {w.epoch : w \in Held(a)}
           N == {w.nonce : w \in Held(a)}
           O == {w.op : w \in Held(a)}
<1>1. R = {[d \in Conversations |-> a.rows[d].ver][c] : c \in Conversations}
  OBVIOUS
<1>2. IsFiniteSet(R)
  <2>1. \A f : IsFiniteSet({f[c] : c \in Conversations})
    BY SlotsAssumption, ImageIsFinite
  <2> QED BY <1>1, <2>1
<1>3. /\ IsFiniteSet(V) /\ IsFiniteSet(C) /\ IsFiniteSet(B) /\ IsFiniteSet(E) /\ IsFiniteSet(N)
      /\ IsFiniteSet(O)
  BY HeldIsFinite
<1>4. /\ FreshVer(a) = Mark(R \cup V \cup C \cup B) /\ FreshEpoch(a) = Mark({a.epoch} \cup E)
      /\ FreshNonce(a) = Mark({a.nonce} \cup N)
      /\ FreshOp(a) = Mark({a.create, a.pub.op} \cup O \cup reg.made)
  BY DEF FreshVer, FreshEpoch, FreshNonce, FreshOp
<1>5. /\ \A c \in Conversations : a.rows[c].ver \in R
      /\ \A w \in Held(a) : w.ver \in V /\ w.cand \in C /\ w.before.ver \in B
  OBVIOUS
<1> HIDE DEF R, V, C, B, E, N, O
<1>6. IsFiniteSet(R \cup V \cup C \cup B)
  BY <1>2, <1>3, FS_Union
<1>7. IsFiniteSet({a.epoch} \cup E) /\ IsFiniteSet({a.nonce} \cup N)
  BY <1>3, FS_Union, FS_Singleton
<1>8. IsFiniteSet({a.create, a.pub.op})
  <2>1. {a.create, a.pub.op} = {a.create} \cup {a.pub.op}
    OBVIOUS
  <2>2. IsFiniteSet({a.create}) /\ IsFiniteSet({a.pub.op})
    BY FS_Singleton
  <2>3. IsFiniteSet({a.create} \cup {a.pub.op})
    BY <2>2, FS_Union
  <2> QED BY <2>1, <2>3
<1>9. IsFiniteSet(reg.made) => IsFiniteSet({a.create, a.pub.op} \cup O \cup reg.made)
  BY <1>3, <1>8, FS_Union
<1> QED BY <1>4, <1>5, <1>6, <1>7, <1>9, MarkIsNew
----------------------------------------------------------------------------
(***************************************************************************)
(* Types                                                                   *)
(***************************************************************************)
\* An idle call, no latch and no publication are of their types.
LEMMA BlankTypes ==
  /\ NoRoot \in Root /\ Idle \in Call /\ NoLatch.w = Idle /\ NoLatch.settled = FALSE
  /\ NoLatch \in [w : Call, settled : BOOLEAN] /\ NoPub \in Publication
  /\ \A v \in Nat, b \in Root : Row(v, b) \in RowType /\ Row(v, b).ver = v /\ Row(v, b).bind = b
  /\ Idle.at = "idle" /\ NoPub.ph = "idle"
<1>1. NoRoot \in Root
  BY SlotsAssumption DEF NoRoot, Root
<1>2. \A v \in Nat, b \in Root : Row(v, b) \in RowType /\ Row(v, b).ver = v /\ Row(v, b).bind = b
  BY DEF Row, RowType
<1>3. Idle \in Call /\ Idle.at = "idle"
  BY <1>1, <1>2 DEF Idle, Call, Place
<1>4. NoPub \in Publication /\ NoPub.ph = "idle"
  BY <1>1 DEF NoPub, Publication
<1> QED BY <1>1, <1>2, <1>3, <1>4 DEF NoLatch

\* What happens to the surfaces and their banner: the calls, the conversations
\* and the latch stay, and the active call stays active or nothing is shown.
Surfaces(a, b) ==
  /\ b \in App
  /\ b.calls = a.calls /\ b.rows = a.rows /\ b.create = a.create /\ b.latch = a.latch /\ b.sel = a.sel
  /\ \/ b.act = a.act /\ b.pub = a.pub
     \/ b.act = 0 /\ b.pub = NoPub /\ a.latch = NoLatch

LEMMA InvalidatedSurfaces == ASSUME NEW a \in App PROVE Surfaces(a, Invalidated(a))
<1>0. 0 \in 0 .. Slots /\ NoPub \in Publication
  BY BlankTypes, SlotsAssumption
<1>1. [a EXCEPT !.act = 0, !.pub = NoPub] \in App
  BY <1>0 DEF App
<1> QED BY <1>1 DEF Invalidated, Surfaces, App

LEMMA SurfacesCompose ==
  ASSUME NEW a, NEW b, NEW c, Surfaces(a, b), Surfaces(b, c)
  PROVE  Surfaces(a, c)
  BY DEF Surfaces

LEMMA ClosedSurfaces == ASSUME NEW a \in App PROVE Surfaces(a, Closed(a))
<1> DEFINE b == [a EXCEPT !.nonce = FreshNonce(a), !.sheet = FALSE]
<1>1. FreshNonce(a) \in Nat
  BY Fresh
<1>2. Surfaces(a, b) /\ b \in App
  BY <1>1 DEF Surfaces, App
<1> HIDE DEF b
<1>3. Surfaces(b, Invalidated(b))
  BY <1>2, InvalidatedSurfaces
<1> QED BY <1>2, <1>3, SurfacesCompose DEF Closed, b

LEMMA BannerSurfaces ==
  ASSUME NEW a \in App, NEW x \in BOOLEAN
  PROVE  Surfaces(a, [a EXCEPT !.banner = x]) /\ [a EXCEPT !.banner = x] \in App
  BY DEF Surfaces, App

\* The screen is told of a result.
LEMMA ToldSurfaces == ASSUME NEW a \in App, NEW w, NEW res PROVE Surfaces(a, Told(a, w, res))
<1> DEFINE f == [a EXCEPT !.banner = FALSE]
           t == [a EXCEPT !.banner = TRUE]
           u == [a EXCEPT !.banner = (res = "unknown")]
<1>1. Surfaces(a, f) /\ f \in App /\ Surfaces(a, t) /\ Surfaces(a, u) /\ Surfaces(a, a)
  <2>1. Surfaces(a, a)
    BY DEF Surfaces
  <2> QED BY <2>1, BannerSurfaces
<1>2. Told(a, w, res) \in {a, f, t, u, Closed(f)}
  BY DEF Told
<1> HIDE DEF f, t, u
<1>3. Surfaces(a, Closed(f))
  BY <1>1, ClosedSurfaces, SurfacesCompose
<1> QED BY <1>1, <1>2, <1>3

\* A call that ends: its slot is free, and it is not the active one.
Ended(a, n, b) ==
  /\ b \in App
  /\ b.calls = [a.calls EXCEPT ![n] = Idle]
  /\ b.rows = a.rows /\ b.create = a.create /\ b.latch = a.latch /\ b.sel = a.sel
  /\ b.act # 0 => b.act = a.act /\ b.act # n
  /\ b.act = 0 => a.act \in {0, n} \/ a.latch = NoLatch
  /\ b.pub \in {a.pub, NoPub} /\ (b.act # 0 => b.pub = a.pub)

LEMMA FinishEnds == ASSUME NEW a \in App, NEW n \in 1 .. Slots, NEW res PROVE Ended(a, n, Finish(a, n, res))
<1> DEFINE w == a.calls[n]
           b == [a EXCEPT !.act = IF @ = n THEN 0 ELSE @, !.calls[n] = Idle]
           d == [b EXCEPT !.pub = NoPub]
<1>0. Idle \in Call /\ (IF a.act = n THEN 0 ELSE a.act) \in 0 .. Slots
  BY BlankTypes, SlotsAssumption DEF App
<1>1. /\ b \in App /\ b.calls = [a.calls EXCEPT ![n] = Idle]
      /\ b.rows = a.rows /\ b.create = a.create /\ b.latch = a.latch /\ b.sel = a.sel
      /\ b.act = (IF a.act = n THEN 0 ELSE a.act) /\ b.pub = a.pub
  BY <1>0 DEF App
<1> HIDE DEF b
<1>2. d \in App /\ d.calls = b.calls /\ d.rows = b.rows /\ d.create = b.create /\ d.latch = b.latch
      /\ d.sel = b.sel /\ d.act = b.act /\ d.pub = NoPub
  BY <1>1, BlankTypes DEF App
<1> HIDE DEF d
<1>3. Finish(a, n, res) = Told(b, w, res) \/ (Finish(a, n, res) = Told(d, w, res) /\ b.act = 0)
  BY DEF Finish, b, d
<1>4. Surfaces(b, Told(b, w, res)) /\ Surfaces(d, Told(d, w, res))
  BY <1>1, <1>2, ToldSurfaces
<1> QED BY <1>1, <1>2, <1>3, <1>4 DEF Surfaces, Ended
----------------------------------------------------------------------------
(***************************************************************************)
(* How calls start and move                                                *)
(***************************************************************************)
\* A call that moves: only its own record changes.
Moved(a, n, w, b) ==
  /\ b \in App
  /\ b.calls = [a.calls EXCEPT ![n] = w]
  /\ b.rows = a.rows /\ b.create = a.create /\ b.latch = a.latch /\ b.sel = a.sel
  /\ b.act = a.act /\ b.pub = a.pub

LEMMA CallMoves ==
  ASSUME NEW a \in App, NEW n \in 1 .. Slots, NEW w \in Call
  PROVE  Moved(a, n, w, [a EXCEPT !.calls[n] = w])
  BY DEF App, Moved

LEMMA GoMoves ==
  ASSUME NEW a \in App, NEW n \in 1 .. Slots, NEW at \in Place
  PROVE  /\ Moved(a, n, [a.calls[n] EXCEPT !.at = at], Go(a, n, at))
         /\ [a.calls[n] EXCEPT !.at = at] \in Call
<1>1. a.calls[n] \in Call /\ a.calls \in [1 .. Slots -> Call]
  BY DEF App
<1>2. [a.calls[n] EXCEPT !.at = at] \in Call
  BY <1>1 DEF Call
<1>3. Go(a, n, at) = [a EXCEPT !.calls[n] = [a.calls[n] EXCEPT !.at = at]]
  BY DEF Go
<1> QED BY <1>2, <1>3, CallMoves

\* captureOwner changes the version and the epoch alone.
LEMMA CapturedCall ==
  ASSUME NEW a \in App, NEW w \in Call, w.conv \in Conversations
  PROVE  LET v == Captured(a, w) IN
         /\ v \in Call /\ v.at = w.at /\ v.op = w.op /\ v.conv = w.conv /\ v.root = w.root
         /\ v.kind = w.kind /\ v.nonce = w.nonce /\ v.cand = w.cand /\ v.before = w.before
         /\ v.ver = a.rows[w.conv].ver
<1>1. a.rows[w.conv].ver \in Nat /\ a.epoch \in Nat
  BY DEF App, RowType
<1> DEFINE x == a.rows[w.conv].ver
           e == a.epoch
<1> HIDE DEF x, e
<1>2. Captured(a, w) = [w EXCEPT !.ver = x, !.epoch = e] /\ x \in Nat /\ e \in Nat
  BY <1>1 DEF Captured, x, e
<1>3. Captured(a, w) \in Call
  BY <1>2 DEF Call
<1>4. LET v == Captured(a, w) IN
         /\ v.at = w.at /\ v.op = w.op /\ v.conv = w.conv /\ v.root = w.root
         /\ v.kind = w.kind /\ v.nonce = w.nonce /\ v.cand = w.cand /\ v.before = w.before
         /\ v.ver = x
  BY <1>2 DEF Call
<1> QED BY <1>3, <1>4 DEF x

\* A bind that is refused or that finds another conversation selected.
Missed(a, n, b) ==
  /\ b \in App
  /\ b.calls = [a.calls EXCEPT ![n] = Idle]
  /\ b.rows = a.rows /\ b.create = a.create /\ b.latch = a.latch /\ b.sel = a.sel
  /\ \/ b.act = a.act /\ b.pub = a.pub
     \/ b.act = 0 /\ b.pub = NoPub /\ a.latch = NoLatch

\* A bind that becomes the active call.
Binds(a, n, w, b) ==
  /\ a.latch = NoLatch /\ a.act = 0 /\ a.sel = w.conv
  /\ b \in App
  /\ b.calls = [a.calls EXCEPT ![n] = Captured(a, w)]
  /\ b.rows = a.rows /\ b.create = a.create /\ b.latch = a.latch /\ b.sel = a.sel
  /\ b.act = n /\ b.pub = [op |-> w.op, conv |-> w.conv, root |-> w.root, ph |-> "busy"]

LEMMA BindStarts ==
  ASSUME NEW a \in App, NEW n \in 1 .. Slots, NEW w \in Call
  PROVE  Missed(a, n, Bind(a, n, w)) \/ Binds(a, n, w, Bind(a, n, w))
<1> DEFINE d == [a EXCEPT !.calls[n] = Idle]
           p == [op |-> w.op, conv |-> w.conv, root |-> w.root, ph |-> "busy"]
           v == Captured(a, w)
           b == [a EXCEPT !.act = n, !.calls[n] = v, !.pub = p]
<1>1. Moved(a, n, Idle, d)
  BY BlankTypes, CallMoves
<1> HIDE DEF d
<1>2. CASE a.latch # NoLatch \/ a.act # 0 \/ a.sel # w.conv
  <2>1. \E res : Bind(a, n, w) = Told(d, w, res)
    <3>1. CASE a.latch # NoLatch \/ a.act # 0
      BY <3>1 DEF Bind, d
    <3>2. CASE ~(a.latch # NoLatch \/ a.act # 0)
      BY <1>2, <3>2 DEF Bind, d
    <3> QED BY <3>1, <3>2
  <2>2. PICK res : Bind(a, n, w) = Told(d, w, res)
    BY <2>1
  <2>3. Surfaces(d, Told(d, w, res))
    BY <1>1, ToldSurfaces DEF Moved
  <2> QED BY <1>1, <2>2, <2>3 DEF Surfaces, Missed, Moved
<1>3. CASE a.latch = NoLatch /\ a.act = 0 /\ a.sel = w.conv
  <2>1. w.conv \in Conversations
    BY <1>3 DEF App
  <2>2. v \in Call
    BY <2>1, CapturedCall
  <2>3. p \in Publication /\ p = [op |-> w.op, conv |-> w.conv, root |-> w.root, ph |-> "busy"]
    BY DEF Publication, Call
  <2>4. n \in 0 .. Slots
    OBVIOUS
  <2>5. Bind(a, n, w) = b
    BY <1>3 DEF Bind, d
  <2> HIDE DEF v, p
  <2>6. /\ b \in App /\ b.calls = [a.calls EXCEPT ![n] = v]
        /\ b.rows = a.rows /\ b.create = a.create /\ b.latch = a.latch /\ b.sel = a.sel
        /\ b.act = n /\ b.pub = p
    BY <2>2, <2>3, <2>4 DEF App
  <2> HIDE DEF b
  <2> QED BY <1>3, <2>3, <2>5, <2>6 DEF Binds, v
<1> QED BY <1>2, <1>3

\* The shapes of a step, as far as the calls and the create go: they stay, ...
Stays(b) ==
  /\ b \in App
  /\ b.calls = app.calls /\ b.create = app.create
  /\ b.act = 0 \/ b.act = app.act

\* ... one of them ends, ...
Ends(n, b) ==
  /\ b \in App
  /\ b.calls = [app.calls EXCEPT ![n] = Idle] /\ b.create = app.create
  /\ b.act = 0 \/ (b.act = app.act /\ b.act # n)

\* ... one of them starts or moves outside the ensuring of a workspace, ...
Walks(n, w, b) ==
  /\ b \in App /\ w \in Call /\ w.at \notin Ensuring \cup {"idle"}
  /\ b.calls = [app.calls EXCEPT ![n] = w] /\ b.create = app.create
  /\ b.act \in {app.act, n}

\* ... one of them starts to ensure a workspace, under the operation that is
\* remembered, or under a new one when none is, ...
Ensures(n, w, b) ==
  /\ b \in App /\ w \in Call /\ w.at = "elist" /\ app.act = 0
  /\ w.op # 0 /\ (app.create # 0 => w.op = app.create)
  /\ app.calls[n] = Idle
  /\ b.calls = [app.calls EXCEPT ![n] = w] /\ b.create = app.create
  /\ b.act = n

\* ... the active one asks about its operation, ...
Enquires(n, w, b) ==
  /\ b \in App /\ w \in Call /\ w.at \in Ensuring \ {"elist"} /\ app.act = n
  /\ app.calls[n].at \in Ensuring /\ w.op = app.calls[n].op
  /\ app.calls[n].at = "elist" => app.create = w.op
  /\ w.at = "relist" => w.op \in reg.made
  /\ b.calls = [app.calls EXCEPT ![n] = w] /\ b.create = app.create
  /\ b.act = n

\* ... creates a workspace, ...
Creates(n, w, b) ==
  /\ b \in App /\ w \in Call /\ w.at = "create" /\ app.act = n
  /\ w.op = app.calls[n].op
  /\ \/ app.calls[n].at = "elist" /\ app.create # w.op /\ reg.made = {}
     \/ app.calls[n].at = "equery"
  /\ b.calls = [app.calls EXCEPT ![n] = w] /\ b.create = w.op
  /\ b.act = n

\* ... or goes on to bind the one there is.
Finds(n, w, b) ==
  /\ b \in App /\ w \in Call /\ w.at \in {"idle", "resolve"} /\ app.act = n
  /\ reg.made # {}
  /\ b.calls = [app.calls EXCEPT ![n] = w] /\ b.create = 0
  /\ b.act \in {0, n} /\ (b.act = n => w.at # "idle")

LEMMA FinishEndsCall ==
  ASSUME app \in App, NEW n \in 1 .. Slots, NEW res
  PROVE  Ends(n, Finish(app, n, res)) /\ Ends(n, Stale(app, n))
  BY FinishEnds DEF Ended, Ends, Stale

LEMMA EnsureStarts ==
  ASSUME app \in App, IsFiniteSet(reg.made), NEW n \in 1 .. Slots, app.calls[n] = Idle, NEW a \in App,
         Stays(a), a.latch = app.latch, a.act = app.act, NEW w \in Call, w.at = "elist", w.conv \in Conversations
  PROVE  Stays(Ensure(a, n, w)) \/ \E v \in Call : Ensures(n, v, Ensure(a, n, w))
<1> DEFINE op == IF a.create # 0 THEN a.create ELSE FreshOp(a)
           u == [w EXCEPT !.op = op]
           v == Captured(a, u)
<1>1. CASE a.latch # NoLatch \/ a.act # 0
  <2>1. Ensure(a, n, w) = Told(a, w, "blocked")
    BY <1>1 DEF Ensure
  <2>2. Surfaces(a, Told(a, w, "blocked"))
    BY ToldSurfaces
  <2> QED BY <2>1, <2>2 DEF Surfaces, Stays
<1>2. CASE a.latch = NoLatch /\ a.act = 0
  <2>1. op \in Nat /\ op # 0 /\ (a.create # 0 => op = a.create)
    BY Fresh DEF App
  <2>2. Ensure(a, n, w) = [a EXCEPT !.act = n, !.calls[n] = v]
    BY <1>2 DEF Ensure
  <2> HIDE DEF op
  <2>3. u \in Call /\ u.at = w.at /\ u.op = op /\ u.conv = w.conv
    BY <2>1 DEF Call
  <2> HIDE DEF u
  <2>4. v \in Call /\ v.at = "elist" /\ v.op = op
    BY <2>3, CapturedCall
  <2> HIDE DEF v
  <2> DEFINE b == [a EXCEPT !.act = n, !.calls[n] = v]
  <2>5. n \in 0 .. Slots
    OBVIOUS
  <2>6. b \in App /\ b.calls = [a.calls EXCEPT ![n] = v] /\ b.create = a.create /\ b.act = n
    BY <2>4, <2>5 DEF App
  <2>7. Ensures(n, v, b)
    BY <1>2, <2>1, <2>4, <2>6 DEF Stays, Ensures
  <2> QED BY <2>2, <2>4, <2>7
<1> QED BY <1>1, <1>2

\* One workspace: the operation that made it, the one that is remembered and
\* the one that the calls ask about or create under are the same.
Asking == Ensuring \ {"elist"}
OneWorkspace(k) ==
  /\ reg.made \subseteq {k} /\ app.create \in {0, k}
  /\ \A n \in 1 .. Slots : app.calls[n].at \in Asking => app.calls[n].op = k

\* And an active call that is about to ask or create has that operation, if
\* there is one: the others cannot go on.
EnsureInv ==
  /\ IsFiniteSet(reg.made)
  /\ \E k \in Nat \ {0} : OneWorkspace(k)
  /\ app.create = 0 /\ reg.made = {} => \A n \in 1 .. Slots : app.calls[n].at \notin Asking
  /\ \A n \in 1 .. Slots : /\ app.calls[n].at \in Ensuring => app.calls[n].op # 0
                           /\ app.calls[n].at = "relist" => app.calls[n].op \in reg.made
  /\ \A n \in 1 .. Slots :
       app.act = n /\ app.calls[n].at = "elist" /\ app.create # 0 => app.calls[n].op = app.create

\* The workspace that the registry lists is the one there is.
LEMMA ListedRoot ==
  ASSUME TypeOK, EnsureInv, reg.made # {}
  PROVE  <<Min(reg.made), 1>> \in Root
<1>1. PICK k \in Nat : reg.made = {k}
  BY DEF EnsureInv, OneWorkspace
<1>2. Min({k}) = k
  BY <1>1 DEF Min
<1>3. 1 \in 0 .. Grants
  BY SlotsAssumption
<1> QED BY <1>1, <1>2, <1>3 DEF Root

LEMMA BoundFinds ==
  ASSUME app \in App, NEW n \in 1 .. Slots, app.act = n, reg.made # {}, NEW root \in Root
  PROVE  \E w \in Call : Finds(n, w, Bound(app, n, root))
<1> DEFINE a == [app EXCEPT !.create = 0, !.act = 0]
           w == [app.calls[n] EXCEPT !.root = root, !.at = "resolve"]
           b == Bind(a, n, w)
<1>1. a \in App /\ a.create = 0 /\ a.act = 0 /\ a.calls = app.calls
  <2>1. 0 \in 0 .. Slots
    BY SlotsAssumption
  <2> QED BY <2>1 DEF App
<1>2. w \in Call /\ w.at = "resolve"
  <2>1. app.calls[n] \in Call
    BY DEF App
  <2> QED BY <2>1 DEF Call, Place
<1>3. Bound(app, n, root) = b
  BY DEF Bound
<1> HIDE DEF a, w
<1>4. Missed(a, n, b) \/ Binds(a, n, w, b)
  BY <1>1, <1>2, BindStarts
<1> HIDE DEF b
<1>5. CASE Missed(a, n, b)
  <2>1. Finds(n, Idle, b)
    BY <1>1, <1>5, BlankTypes DEF Missed, Finds, Ensuring
  <2> QED BY <1>3, <2>1, BlankTypes
<1>6. CASE Binds(a, n, w, b)
  <2>1. w.conv \in Conversations
    BY <1>1, <1>6 DEF Binds, App
  <2>2. Captured(a, w) \in Call /\ Captured(a, w).at = "resolve"
    BY <1>1, <1>2, <2>1, CapturedCall
  <2>3. Finds(n, Captured(a, w), b)
    BY <1>1, <1>6, <2>2 DEF Binds, Finds, Ensuring
  <2> QED BY <1>3, <2>2, <2>3
<1> QED BY <1>4, <1>5, <1>6

\* A call that ensures a workspace ends, asks, creates, or goes on to bind.
EnsureMoves(n, b) ==
  \/ Ends(n, b)
  \/ \E w \in Call : Enquires(n, w, b) \/ Creates(n, w, b) \/ Finds(n, w, b)

LEMMA GoEnquires ==
  ASSUME app \in App, NEW n \in 1 .. Slots, app.act = n, app.calls[n].at \in Ensuring,
         NEW at \in Asking, app.calls[n].at = "elist" => app.create = app.calls[n].op,
         at = "relist" => app.calls[n].op \in reg.made
  PROVE  EnsureMoves(n, Go(app, n, at))
<1> DEFINE w == [app.calls[n] EXCEPT !.at = at]
<1>1. at \in Place /\ app.calls[n] \in Call
  BY DEF Asking, Place, App
<1>2. Moved(app, n, w, Go(app, n, at)) /\ w \in Call
  BY <1>1, GoMoves
<1>3. w.at = at /\ w.op = app.calls[n].op
  BY <1>1 DEF Call
<1> HIDE DEF w
<1>4. Enquires(n, w, Go(app, n, at))
  BY <1>2, <1>3 DEF Moved, Enquires, Asking
<1> QED BY <1>2, <1>4 DEF EnsureMoves

LEMMA CreateCreates ==
  ASSUME app \in App, NEW n \in 1 .. Slots, app.act = n,
         \/ app.calls[n].at = "elist" /\ app.create # app.calls[n].op /\ reg.made = {}
         \/ app.calls[n].at = "equery"
  PROVE  EnsureMoves(n, Create(app, n))
<1> DEFINE w == [app.calls[n] EXCEPT !.at = "create"]
           p == [op |-> app.calls[n].op, conv |-> app.calls[n].conv, root |-> NoRoot, ph |-> "busy"]
           o == app.calls[n].op
           b == [app EXCEPT !.create = o, !.calls[n] = w, !.pub = p]
<1>1. app.calls[n] \in Call /\ o \in Nat
  BY DEF App, Call
<1>2. w \in Call /\ w.at = "create" /\ w.op = o
  BY <1>1 DEF Call, Place, Ensuring
<1>3. p \in Publication
  BY <1>1, BlankTypes DEF Publication, Call
<1>4. Create(app, n) = b
  BY DEF Create, App
<1> HIDE DEF w, p, o
<1>5. b \in App /\ b.calls = [app.calls EXCEPT ![n] = w] /\ b.create = o /\ b.act = app.act
  BY <1>1, <1>2, <1>3 DEF App
<1>6. w.op = app.calls[n].op
  BY <1>2 DEF o
<1>7. Creates(n, w, b)
  BY <1>2, <1>5, <1>6 DEF Creates
<1> QED BY <1>2, <1>4, <1>7 DEF EnsureMoves

LEMMA EnsureAnswers ==
  ASSUME TypeOK, EnsureInv, NEW n \in 1 .. Slots, app.calls[n].at \in Ensuring, NEW ans \in {"ok", "bad"},
         app.calls[n].at \in {"create", "create2"} /\ ans = "ok" => app.calls[n].op \in reg.made
  PROVE  EnsureMoves(n, EnsureAnswered(app, n, ans))
<1> DEFINE w == app.calls[n]
           mine == <<w.op, 1>>
           b == EnsureAnswered(app, n, ans)
<1>a. app \in App /\ w \in Call /\ mine \in Root
  <2>1. app \in App
    BY DEF TypeOK
  <2>2. w \in Call
    BY <2>1 DEF App
  <2>3. 1 \in 0 .. Grants
    BY SlotsAssumption
  <2> QED BY <2>1, <2>2, <2>3 DEF Root, Call
<1>b. w.at = "relist" => w.op \in reg.made
  BY DEF EnsureInv
<1>c. \A res : Ends(n, Finish(app, n, res)) /\ Ends(n, Stale(app, n))
  BY <1>a, FinishEndsCall
<1>1. CASE ~Current(app, n)
  BY <1>1, <1>c DEF EnsureAnswered, EnsureMoves
<1>2. CASE Current(app, n)
  <2>1. app.act = n
    BY <1>2 DEF Current, ShellCurrent
  <2>2. CASE w.at = "elist"
    <3>1. \/ \E res : b = Finish(app, n, res)
          \/ b = Go(app, n, "equery") /\ app.create = w.op
          \/ b = Bound(app, n, <<Min(reg.made), 1>>) /\ reg.made # {}
          \/ b = Create(app, n) /\ app.create # w.op /\ reg.made = {}
      BY <1>2, <2>2 DEF EnsureAnswered
    <3>2. reg.made # {} => EnsureMoves(n, Bound(app, n, <<Min(reg.made), 1>>))
      BY <1>a, <2>1, ListedRoot, BoundFinds DEF EnsureMoves
    <3>3. app.create = w.op => EnsureMoves(n, Go(app, n, "equery"))
      <4>1. "equery" \in Asking
        BY DEF Asking, Ensuring
      <4> QED BY <1>a, <2>1, <4>1, GoEnquires
    <3>4. app.create # w.op /\ reg.made = {} => EnsureMoves(n, Create(app, n))
      BY <1>a, <2>1, <2>2, CreateCreates
    <3> HIDE DEF b
    <3>9. EnsureMoves(n, b)
      BY <1>c, <3>1, <3>2, <3>3, <3>4 DEF EnsureMoves
    <3> QED BY <3>9 DEF b
  <2>3. CASE w.at \in {"equery", "query"}
    <3>1. \/ \E res : b = Finish(app, n, res)
          \/ b = Go(app, n, "relist") /\ w.op \in reg.made
          \/ b = Go(app, n, "create2")
          \/ b = Create(app, n) /\ w.at = "equery"
      BY <1>2, <2>3 DEF EnsureAnswered
    <3>2. "relist" \in Asking /\ "create2" \in Asking
      BY DEF Asking, Ensuring
    <3>3. w.op \in reg.made => EnsureMoves(n, Go(app, n, "relist"))
      BY <1>a, <2>1, <2>3, <3>2, GoEnquires
    <3>4. EnsureMoves(n, Go(app, n, "create2"))
      BY <1>a, <2>1, <2>3, <3>2, GoEnquires
    <3>5. w.at = "equery" => EnsureMoves(n, Create(app, n))
      BY <1>a, <2>1, CreateCreates
    <3> HIDE DEF b
    <3>9. EnsureMoves(n, b)
      BY <1>c, <3>1, <3>3, <3>4, <3>5 DEF EnsureMoves
    <3> QED BY <3>9 DEF b
  <2>4. CASE w.at \in {"relist", "create", "create2"}
    <3>1. \/ \E res : b = Finish(app, n, res)
          \/ b = Go(app, n, "query")
          \/ b = Bound(app, n, mine) /\ w.op \in reg.made
      BY <1>2, <1>b, <2>4 DEF EnsureAnswered
    <3>2. "query" \in Asking
      BY DEF Asking, Ensuring
    <3>3. EnsureMoves(n, Go(app, n, "query"))
      BY <1>a, <2>1, <2>4, <3>2, GoEnquires
    <3>4. w.op \in reg.made => EnsureMoves(n, Bound(app, n, mine))
      BY <1>a, <2>1, BoundFinds DEF EnsureMoves
    <3> HIDE DEF b, mine
    <3>9. EnsureMoves(n, b)
      BY <1>c, <3>1, <3>3, <3>4 DEF EnsureMoves
    <3> QED BY <3>9 DEF b
  <2> QED BY <2>2, <2>3, <2>4 DEF Ensuring
<1> QED BY <1>1, <1>2
----------------------------------------------------------------------------
(***************************************************************************)
(* Every step has a shape                                                  *)
(***************************************************************************)
\* What a step does to the calls and to the created workspaces.
CallShape ==
  \/ reg'.made = reg.made /\ Stays(app')
  \/ reg'.made = reg.made /\ \E n \in 1 .. Slots : Ends(n, app')
  \/ reg'.made = reg.made /\ \E n \in 1 .. Slots, w \in Call : Walks(n, w, app')
  \/ reg'.made = reg.made /\ \E n \in 1 .. Slots, w \in Call : Ensures(n, w, app')
  \/ reg'.made = reg.made /\ \E n \in 1 .. Slots : EnsureMoves(n, app')
  \/ app' = app /\ \E n \in 1 .. Slots : /\ app.calls[n].at \in {"create", "create2"}
                                         /\ reg'.made = reg.made \cup {app.calls[n].op}
  \/ /\ reg'.made = reg.made /\ app' \in App /\ app'.act = 0 /\ app'.create = 0
     /\ \A n \in 1 .. Slots : app'.calls[n] = Idle

\* What a step does to the saves and to the calls that wait for one.
Waits(w) == w.at \in {"save", "resave"}
SaveShape ==
  \/ saves' = saves /\ \A m \in 1 .. Slots : Waits(app'.calls[m]) <=> Waits(app.calls[m])
  \/ \E n \in 0 .. Slots, d \in [Conversations -> Root] :
       /\ saves' = Append(saves, [n |-> n, doc |-> d])
       /\ n # 0 => ~Waits(app.calls[n])
       /\ \A m \in 1 .. Slots : Waits(app'.calls[m]) <=> Waits(app.calls[m]) \/ m = n
  \/ /\ saves # << >> /\ saves' = Tail(saves)
     /\ \A m \in 1 .. Slots : Waits(app'.calls[m]) <=> Waits(app.calls[m]) /\ m # Head(saves).n
  \/ saves' = << >> /\ \A m \in 1 .. Slots : ~Waits(app'.calls[m])

\* Who may make a binding appear.
OwnerBinds ==
  \A c \in Conversations :
    app'.rows[c].bind # app.rows[c].bind /\ app'.rows[c].bind # NoRoot =>
      \/ \E n \in 1 .. Slots : /\ app.calls[n].at = "completion" /\ app.calls[n].conv = c
                               /\ app.act = n /\ app.sel = c
                               /\ app.rows[c].ver = app.calls[n].ver
      \/ app'.rows[c] \in {w.before : w \in Held(app)}
      \/ app'.calls = [n \in 1 .. Slots |-> Idle] /\ app'.rows[c].bind = disk[c]

Shaped == CallShape /\ SaveShape /\ OwnerBinds

LEMMA SurfaceShape ==
  ASSUME reg'.made = reg.made, saves' = saves, Stays(app'),
         \A c \in Conversations : app'.rows[c].bind \in {app.rows[c].bind, NoRoot}
  PROVE  Shaped
<1>1. \A m \in 1 .. Slots : Waits(app'.calls[m]) <=> Waits(app.calls[m])
  BY DEF Stays
<1> QED BY <1>1 DEF Shaped, CallShape, SaveShape, OwnerBinds

LEMMA PickerShape == ASSUME TypeOK, OpenPicker \/ ClosePicker PROVE Shaped
<1>1. app \in App /\ Native
  BY DEF TypeOK, OpenPicker, ClosePicker
<1>2. CASE OpenPicker
  <2>1. app' = [app EXCEPT !.nonce = FreshNonce(app), !.sheet = TRUE] /\ FreshNonce(app) \in Nat
    BY <1>2, Fresh DEF OpenPicker
  <2>2. Stays(app') /\ app'.rows = app.rows
    BY <1>1, <2>1 DEF Stays, App
  <2> QED BY <1>1, <2>2, SurfaceShape DEF Native
<1>3. CASE ClosePicker
  <2>1. Surfaces(app, app')
    BY <1>1, <1>3, ClosedSurfaces DEF ClosePicker
  <2> QED BY <1>1, <2>1, SurfaceShape DEF Native, Surfaces, Stays
<1> QED BY <1>2, <1>3

LEMMA RenderedShape == ASSUME TypeOK, Rendered PROVE Shaped
<1> DEFINE a == [app EXCEPT !.seen = app.sel]
<1>1. app \in App /\ Native /\ app' \in {a, Invalidated(a)}
  BY DEF TypeOK, Rendered
<1>2. a \in App /\ a.calls = app.calls /\ a.rows = app.rows /\ a.create = app.create /\ a.act = app.act
  BY <1>1 DEF App
<1> HIDE DEF a
<1>3. Surfaces(a, Invalidated(a))
  BY <1>2, InvalidatedSurfaces
<1>4. Stays(app') /\ app'.rows = app.rows
  BY <1>1, <1>2, <1>3 DEF Surfaces, Stays
<1> QED BY <1>1, <1>4, SurfaceShape DEF Native

LEMMA EditShape == ASSUME TypeOK, NEW c \in Conversations, Edit(c) \/ Select(c) PROVE Shaped
<1>1. app \in App /\ Native
  BY DEF TypeOK, Edit, Select
<1>2. CASE Edit(c)
  <2> DEFINE v == FreshVer(app)
  <2>1. app' = [app EXCEPT !.rows[c].ver = v] /\ v \in Nat
    BY <1>2, Fresh DEF Edit
  <2> HIDE DEF v
  <2>2. app.rows \in [Conversations -> RowType] /\ app.rows[c] \in RowType
    BY <1>1 DEF App
  <2>3. [app.rows EXCEPT ![c].ver = v] \in [Conversations -> RowType]
    BY <2>1, <2>2 DEF RowType
  <2>4. app'.rows = [app.rows EXCEPT ![c].ver = v] /\ app' = [app EXCEPT !.rows = [app.rows EXCEPT ![c].ver = v]]
    BY <1>1, <2>1 DEF App
  <2>5. Stays(app')
    BY <1>1, <2>3, <2>4 DEF Stays, App
  <2>6. \A d \in Conversations : app'.rows[d].bind = app.rows[d].bind
    BY <2>2, <2>4 DEF RowType
  <2> QED BY <1>1, <2>5, <2>6, SurfaceShape DEF Native
<1>3. CASE Select(c)
  <2>1. app' = [app EXCEPT !.sel = c]
    BY <1>3 DEF Select
  <2>2. Stays(app') /\ app'.rows = app.rows
    BY <1>1, <2>1 DEF Stays, App
  <2> QED BY <1>1, <2>2, SurfaceShape DEF Native
<1> QED BY <1>2, <1>3

LEMMA RegrantShape == ASSUME TypeOK, Regrant PROVE Shaped
<1>1. app' = app /\ app \in App /\ saves' = saves /\ reg'.made = reg.made
  BY DEF TypeOK, Regrant
<1> QED BY <1>1, SurfaceShape DEF Stays

LEMMA MakeShape == ASSUME TypeOK, NEW n \in 1 .. Slots, MakeWorkspace(n) PROVE Shaped
<1>1. /\ app' = app /\ saves' = saves /\ app.calls[n].at \in {"create", "create2"}
      /\ reg'.made = reg.made \cup {app.calls[n].op}
  BY DEF TypeOK, MakeWorkspace
<1> QED BY <1>1 DEF Shaped, CallShape, SaveShape, OwnerBinds

LEMMA BindingsType == ASSUME NEW a \in App PROVE Bindings(a) \in [Conversations -> Root]
  BY DEF Bindings, App, RowType

LEMMA OtherSaveShape == ASSUME TypeOK, OtherSave PROVE Shaped
<1>1. app' = app /\ app \in App /\ reg' = reg /\ saves' = Append(saves, [n |-> 0, doc |-> Bindings(app')])
  BY DEF TypeOK, OtherSave, Saved
<1>2. Bindings(app') \in [Conversations -> Root] /\ 0 \in 0 .. Slots
  BY <1>1, BindingsType, SlotsAssumption
<1>3. SaveShape
  <2>1. \A m \in 1 .. Slots : m # 0
    OBVIOUS
  <2> QED BY <1>1, <1>2, <2>1 DEF SaveShape
<1> QED BY <1>1, <1>3 DEF Shaped, CallShape, Stays, OwnerBinds

LEMMA RelaunchShape == ASSUME TypeOK, Relaunch PROVE Shaped
<1> DEFINE R == [c \in Conversations |-> Row(1, disk[c])]
           C == [n \in 1 .. Slots |-> Idle]
<1>1. /\ app' = [app EXCEPT !.epoch = 1, !.nonce = 1, !.sheet = FALSE, !.banner = FALSE,
                            !.act = 0, !.latch = NoLatch, !.create = 0, !.pub = NoPub,
                            !.seen = app.sel, !.rows = R, !.calls = C]
      /\ saves' = << >> /\ reg' = reg /\ app \in App
  BY DEF TypeOK, Relaunch
<1>2. \A c \in Conversations : Row(1, disk[c]) \in RowType /\ Row(1, disk[c]).bind = disk[c]
  BY BlankTypes DEF TypeOK
<1>3. /\ R \in [Conversations -> RowType] /\ C \in [1 .. Slots -> Call]
      /\ \A c \in Conversations : R[c].bind = disk[c]
      /\ \A n \in 1 .. Slots : C[n] = Idle
  BY <1>2, BlankTypes
<1> HIDE DEF R
<1>4. NoLatch \in [w : Call, settled : BOOLEAN] /\ NoPub \in Publication /\ 0 \in 0 .. Slots
  BY BlankTypes, SlotsAssumption
<1>5. app' \in App /\ app'.act = 0 /\ app'.create = 0 /\ app'.rows = R /\ app'.calls = C
  BY <1>1, <1>3, <1>4 DEF App
<1>6. \A m \in 1 .. Slots : ~Waits(app'.calls[m])
  BY <1>3, <1>5, BlankTypes DEF Waits
<1>7. CallShape /\ SaveShape
  BY <1>1, <1>3, <1>5, <1>6 DEF CallShape, SaveShape
<1>8. OwnerBinds
  BY <1>3, <1>5 DEF OwnerBinds
<1> QED BY <1>7, <1>8 DEF Shaped

\* An app that has the calls of the one before the step.
Alike(a) == a \in App /\ a.calls = app.calls /\ a.create = app.create /\ a.act = app.act

LEMMA AlikeEnds ==
  ASSUME NEW a, Alike(a), NEW n \in 1 .. Slots, NEW res
  PROVE  Ends(n, Finish(a, n, res)) /\ Finish(a, n, res).rows = a.rows
  BY FinishEnds DEF Alike, Ended, Ends

LEMMA EndShape ==
  ASSUME app \in App, NEW n \in 1 .. Slots, Ends(n, app'), saves' = saves, reg'.made = reg.made,
         ~Waits(app.calls[n]), OwnerBinds
  PROVE  Shaped
<1>1. app.calls \in [1 .. Slots -> Call]
  BY DEF App
<1>2. \A m \in 1 .. Slots : Waits(app'.calls[m]) <=> Waits(app.calls[m])
  BY <1>1, BlankTypes DEF Ends, Waits
<1> QED BY <1>2 DEF Shaped, CallShape, SaveShape

LEMMA WalkShape ==
  ASSUME app \in App, NEW n \in 1 .. Slots, NEW w \in Call, Walks(n, w, app'), saves' = saves,
         reg'.made = reg.made, ~Waits(app.calls[n]), ~Waits(w), OwnerBinds
  PROVE  Shaped
<1>1. app.calls \in [1 .. Slots -> Call]
  BY DEF App
<1>2. \A m \in 1 .. Slots : Waits(app'.calls[m]) <=> Waits(app.calls[m])
  BY <1>1 DEF Walks
<1> QED BY <1>2 DEF Shaped, CallShape, SaveShape

LEMMA SavingWalkShape ==
  ASSUME app \in App, NEW n \in 1 .. Slots, NEW w \in Call, Walks(n, w, app'), Saved(n),
         reg'.made = reg.made, ~Waits(app.calls[n]), Waits(w), OwnerBinds
  PROVE  Shaped
<1>1. app.calls \in [1 .. Slots -> Call] /\ app' \in App
  BY DEF App, Walks
<1>2. \A m \in 1 .. Slots : Waits(app'.calls[m]) <=> Waits(app.calls[m]) \/ m = n
  BY <1>1 DEF Walks
<1>3. Bindings(app') \in [Conversations -> Root] /\ n \in 0 .. Slots
  BY <1>1, BindingsType
<1>4. saves' = Append(saves, [n |-> n, doc |-> Bindings(app')])
  BY DEF Saved
<1>5. SaveShape
  BY <1>2, <1>3, <1>4 DEF SaveShape
<1> QED BY <1>5 DEF Shaped, CallShape

\* A call of the user that starts with a bind.
LEMMA BeginShape ==
  ASSUME TypeOK, NEW n \in 1 .. Slots, Free(n), NEW a, Alike(a), NEW w \in Call,
         w.at \in {"list", "resolve"},
         a.rows = app.rows \/ (\A c \in Conversations : a.rows[c].bind \in {app.rows[c].bind, NoRoot}),
         app' = Bind(a, n, w), Native
  PROVE  Shaped
<1>1. Missed(a, n, app') \/ Binds(a, n, w, app')
  BY BindStarts DEF Alike
<1>2. OwnerBinds
  BY <1>1 DEF OwnerBinds, Missed, Binds
<1>3. app \in App /\ ~Waits(app.calls[n]) /\ app.act # n /\ saves' = saves /\ reg'.made = reg.made
  BY BlankTypes DEF TypeOK, Free, Waits, Native
<1>4. CASE Missed(a, n, app')
  <2>1. Ends(n, app')
    BY <1>3, <1>4 DEF Missed, Ends, Alike
  <2> QED BY <1>2, <1>3, <2>1, EndShape
<1>5. CASE Binds(a, n, w, app')
  <2>1. w.conv \in Conversations
    BY <1>5 DEF Binds, Alike, App
  <2> DEFINE v == Captured(a, w)
  <2>2. v \in Call /\ v.at = w.at
    BY <2>1, CapturedCall DEF Alike
  <2>3. Walks(n, v, app') /\ ~Waits(v)
    BY <1>5, <2>2 DEF Binds, Walks, Alike, Ensuring, Waits
  <2> HIDE DEF v
  <2> QED BY <1>2, <1>3, <2>2, <2>3, WalkShape
<1> QED BY <1>1, <1>4, <1>5

LEMMA RequestType ==
  ASSUME TypeOK, IsFiniteSet(reg.made), NEW kind \in {"pick", "files", "project"}, NEW at \in Place,
         NEW root \in Root, NEW nonce \in Nat
  PROVE  /\ Request(kind, at, root, nonce) \in Call /\ Request(kind, at, root, nonce).at = at
         /\ Request(kind, at, root, nonce).conv \in Conversations
<1>1. FreshOp(app) \in Nat /\ app.sel \in Conversations
  BY Fresh DEF TypeOK, App
<1> DEFINE o == FreshOp(app)
           s == app.sel
<1> HIDE DEF o, s
<1>2. o \in Nat /\ s \in Conversations /\ Idle \in Call
  BY <1>1, BlankTypes DEF o, s
<1>3. Request(kind, at, root, nonce) = [Idle EXCEPT !.kind = kind, !.at = at, !.root = root, !.nonce = nonce,
                                                    !.conv = s, !.op = o]
  BY DEF Request, o, s
<1> HIDE DEF Request
<1> QED BY ZenonT(30), <1>2, <1>3 DEF Call

LEMMA PickShape == ASSUME TypeOK, EnsureInv, NEW n \in 1 .. Slots, Pick(n) PROVE Shaped
<1>1. PICK ws \in {0} \cup reg.made : app' = Bind(app, n, Request("pick", "list", <<ws, 1>>, app.nonce))
  BY DEF Pick
<1>2. Free(n) /\ Native /\ Alike(app)
  BY DEF Pick, TypeOK, Alike
<1>3. <<ws, 1>> \in Root
  <2>1. ws \in Nat
    BY DEF TypeOK
  <2>2. 1 \in 0 .. Grants
    BY SlotsAssumption
  <2> QED BY <2>1, <2>2 DEF Root
<1> DEFINE w == Request("pick", "list", <<ws, 1>>, app.nonce)
<1>4. w \in Call /\ w.at = "list"
  <2>1. "list" \in Place /\ app.nonce \in Nat /\ IsFiniteSet(reg.made)
    BY DEF TypeOK, App, Place, EnsureInv
  <2> QED BY <1>3, <2>1, RequestType
<1> HIDE DEF w
<1> QED BY <1>1, <1>2, <1>4, BeginShape DEF w

LEMMA ProjectShape == ASSUME TypeOK, EnsureInv, NEW n \in 1 .. Slots, ChatInProject(n) PROVE Shaped
<1>1. PICK c \in Conversations :
        /\ app.rows[c].bind = NoRoot
        /\ LET a == [app EXCEPT !.sel = c, !.rows[c] = Row(FreshVer(app), NoRoot)]
           IN app' = Bind(a, n, [Request("project", "resolve", <<0, reg.folder>>, 0) EXCEPT !.conv = c])
  BY DEF ChatInProject
<1>2. Free(n) /\ Native /\ app \in App
  BY DEF ChatInProject, TypeOK
<1> DEFINE r == Row(FreshVer(app), NoRoot)
           q == Request("project", "resolve", <<0, reg.folder>>, 0)
           w == [q EXCEPT !.conv = c]
           a == [app EXCEPT !.sel = c, !.rows[c] = r]
<1>3. r \in RowType /\ r.bind = NoRoot
  BY Fresh, BlankTypes
<1>4. q \in Call /\ q.at = "resolve"
  <2>1. <<0, reg.folder>> \in Root
    BY DEF TypeOK, Root
  <2>2. "resolve" \in Place /\ IsFiniteSet(reg.made)
    BY DEF Place, EnsureInv
  <2> QED BY <2>1, <2>2, RequestType
<1>5. app' = Bind(a, n, w)
  BY <1>1
<1> HIDE DEF r, q
<1>6. w \in Call /\ w.at = "resolve"
  BY <1>4 DEF Call
<1>7. Alike(a) /\ a.rows = [app.rows EXCEPT ![c] = r]
  BY <1>2, <1>3 DEF App, Alike
<1>8. \A d \in Conversations : a.rows[d].bind \in {app.rows[d].bind, NoRoot}
  <2>1. app.rows \in [Conversations -> RowType]
    BY <1>2 DEF App
  <2> HIDE DEF a
  <2> QED BY <1>3, <1>7, <2>1
<1> HIDE DEF a, w
<1> QED BY <1>2, <1>5, <1>6, <1>7, <1>8, BeginShape

LEMMA FilesShape == ASSUME TypeOK, EnsureInv, NEW n \in 1 .. Slots, OpenFiles(n) PROVE Shaped
<1> DEFINE a == [app EXCEPT !.nonce = FreshNonce(app)]
           w == Request("files", "elist", NoRoot, a.nonce)
<1>1. app' = Ensure(a, n, w) /\ Free(n) /\ Native /\ app \in App /\ IsFiniteSet(reg.made)
  BY DEF OpenFiles, TypeOK, EnsureInv
<1>2. FreshNonce(app) \in Nat
  BY Fresh
<1>3. a \in App /\ Stays(a) /\ a.latch = app.latch /\ a.act = app.act /\ a.rows = app.rows /\ a.nonce \in Nat
  BY <1>1, <1>2 DEF App, Stays
<1>4. w \in Call /\ w.at = "elist" /\ w.conv \in Conversations
  BY <1>1, <1>3, RequestType, BlankTypes DEF Place, Ensuring
<1> HIDE DEF a, w
<1>5. Stays(Ensure(a, n, w)) \/ \E v \in Call : Ensures(n, v, Ensure(a, n, w))
  BY <1>1, <1>3, <1>4, EnsureStarts DEF Free
<1>6. app'.rows = app.rows
  <2>1. CASE a.latch # NoLatch \/ a.act # 0
    <3>1. app' = Told(a, w, "blocked")
      BY <1>1, <2>1 DEF Ensure
    <3>2. Surfaces(a, Told(a, w, "blocked"))
      BY <1>3, ToldSurfaces
    <3> QED BY <1>3, <3>1, <3>2 DEF Surfaces
  <2>2. CASE ~(a.latch # NoLatch \/ a.act # 0)
    BY <1>1, <1>3, <2>2 DEF Ensure, App
  <2> QED BY <2>1, <2>2
<1>7. OwnerBinds /\ reg'.made = reg.made /\ saves' = saves
  BY <1>1, <1>6 DEF OwnerBinds, Native
<1>8. CASE Stays(app')
  BY <1>6, <1>7, <1>8, SurfaceShape
<1>9. ASSUME NEW v \in Call, Ensures(n, v, app') PROVE Shaped
  <2>1. app.calls \in [1 .. Slots -> Call]
    BY <1>1 DEF App
  <2>2. \A m \in 1 .. Slots : Waits(app'.calls[m]) <=> Waits(app.calls[m])
    BY <1>9, <2>1, BlankTypes DEF Ensures, Waits
  <2> QED BY <1>7, <1>9, <2>2 DEF Shaped, CallShape, SaveShape
<1> QED BY <1>1, <1>5, <1>8, <1>9

\* A call that ends, or goes on, without touching a conversation.
LEMMA FinishShape ==
  ASSUME app \in App, NEW n \in 1 .. Slots, NEW res, app' = Finish(app, n, res), Native, ~Waits(app.calls[n])
  PROVE  Shaped
<1>1. Alike(app)
  BY DEF Alike
<1>2. Ends(n, app') /\ app'.rows = app.rows
  BY <1>1, AlikeEnds
<1>3. OwnerBinds /\ saves' = saves /\ reg'.made = reg.made
  BY <1>2 DEF OwnerBinds, Native
<1> QED BY <1>2, <1>3, EndShape

LEMMA GoShape ==
  ASSUME app \in App, NEW n \in 1 .. Slots, NEW w \in Call, app' = [app EXCEPT !.calls[n] = w],
         Native, ~Waits(app.calls[n]), w.at \in {"resolve", "lookup", "resolve2", "lookup2", "context", "completion"}
  PROVE  Shaped
<1>1. Moved(app, n, w, app')
  BY CallMoves
<1>2. Walks(n, w, app') /\ ~Waits(w)
  BY <1>1 DEF Moved, Walks, Ensuring, Waits
<1>3. OwnerBinds /\ saves' = saves /\ reg'.made = reg.made
  BY <1>1 DEF OwnerBinds, Native, Moved
<1> QED BY <1>2, <1>3, WalkShape

\* A lookup ends the call, or the call goes on to its next one.
LEMMA LookupCases ==
  ASSUME TypeOK, NEW n \in 1 .. Slots, LookupAnswered(n)
  PROVE  \/ \E res : app' = Finish(app, n, res)
         \/ \E w \in Call : /\ app' = [app EXCEPT !.calls[n] = w] /\ w.conv = app.calls[n].conv
                            /\ w.at \in {"resolve", "lookup", "resolve2", "lookup2", "context"}
<1> DEFINE w == app.calls[n]
           At == {"lookup", "resolve2", "lookup2", "context"}
           root == IF w.root[1] = 0 THEN <<0, reg.folder>> ELSE w.root
           listed == [w EXCEPT !.at = "resolve", !.root = root]
<1>1. app \in App /\ w \in Call /\ w.at \in {"list", "resolve", "lookup", "resolve2", "lookup2"}
  BY DEF TypeOK, LookupAnswered, App
<1>2. root \in Root /\ listed \in Call /\ listed.at = "resolve" /\ listed.conv = w.conv
  <2>1. root \in Root
    BY <1>1 DEF TypeOK, Root, Call
  <2> HIDE DEF root
  <2> QED BY <1>1, <2>1 DEF Call, Place
<1>3. \/ \E res : app' = Finish(app, n, res)
      \/ \E at \in At : app' = Go(app, n, at)
      \/ app' = [app EXCEPT !.calls[n].at = "resolve", !.calls[n].root = root]
  <2>1. PICK ans \in {"ok", "attached", "bad"} :
          app' = IF ~Current(app, n) THEN Stale(app, n)
                    ELSE IF ans = "bad" THEN Finish(app, n, "blocked")
                    ELSE CASE w.at = "list" ->
                                [app EXCEPT !.calls[n].at = "resolve",
                                            !.calls[n].root = IF w.root[1] = 0 THEN <<0, reg.folder>> ELSE @]
                           [] w.at = "resolve"  -> Go(app, n, "lookup")
                           [] w.at = "resolve2" -> Go(app, n, "lookup2")
                           [] w.at = "lookup2"  -> Guards(app, n)
                           [] w.at = "lookup" /\ ans = "ok" ->
                                IF w.kind = "project" THEN Finish(app, n, "conflict") ELSE Guards(app, n)
                           [] w.at = "lookup" /\ ans = "attached" ->
                                IF w.kind = "files" THEN Finish(app, n, "blocked") ELSE Go(app, n, "resolve2")
    BY DEF LookupAnswered
  <2>2. (\E res : Guards(app, n) = Finish(app, n, res)) \/ Guards(app, n) = Go(app, n, "context")
    BY DEF Guards
  <2>3. \E res : Stale(app, n) = Finish(app, n, res)
    BY DEF Stale
  <2>4. CASE ~Current(app, n) \/ ans = "bad"
    BY <2>1, <2>3, <2>4
  <2>5. CASE Current(app, n) /\ ans # "bad" /\ w.at = "list"
    <3>1. app' = [app EXCEPT !.calls[n].at = "resolve",
                             !.calls[n].root = IF w.root[1] = 0 THEN <<0, reg.folder>> ELSE @]
      BY <2>1, <2>5
    <3>2. app' = [app EXCEPT !.calls[n].at = "resolve", !.calls[n].root = root]
      BY <1>1, <3>1 DEF App, Call
    <3> QED BY <3>2
  <2>6. CASE Current(app, n) /\ ans # "bad" /\ w.at \in {"resolve", "resolve2"}
    BY <2>1, <2>6
  <2>7. CASE Current(app, n) /\ ans # "bad" /\ w.at = "lookup2"
    BY <2>1, <2>2, <2>7
  <2>8. CASE Current(app, n) /\ ans # "bad" /\ w.at = "lookup"
    BY <2>1, <2>2, <2>8
  <2> QED BY <1>1, <2>4, <2>5, <2>6, <2>7, <2>8
<1>4. ASSUME NEW at \in At, app' = Go(app, n, at)
      PROVE  \E v \in Call : app' = [app EXCEPT !.calls[n] = v] /\ v.conv = w.conv /\ v.at = at
  <2> DEFINE v == [w EXCEPT !.at = at]
  <2>1. v \in Call /\ v.at = at /\ v.conv = w.conv
    BY <1>1 DEF Call, Place
  <2>2. app' = [app EXCEPT !.calls[n] = v]
    BY <1>4 DEF Go
  <2> HIDE DEF v, w
  <2> QED BY <2>1, <2>2
<1>5. ASSUME app' = [app EXCEPT !.calls[n].at = "resolve", !.calls[n].root = root]
      PROVE  app' = [app EXCEPT !.calls[n] = listed]
  <2> HIDE DEF root
  <2> QED BY <1>1, <1>5 DEF App, Call
<1> HIDE DEF listed, root, w
<1>6. \/ \E res : app' = Finish(app, n, res)
      \/ \E v \in Call : /\ app' = [app EXCEPT !.calls[n] = v] /\ v.conv = w.conv
                         /\ v.at \in {"resolve", "lookup", "resolve2", "lookup2", "context"}
  BY <1>2, <1>3, <1>4, <1>5
<1> QED BY <1>6 DEF w

LEMMA LookupShape == ASSUME TypeOK, NEW n \in 1 .. Slots, LookupAnswered(n) PROVE Shaped
<1>1. app \in App /\ Native /\ ~Waits(app.calls[n])
  BY DEF TypeOK, LookupAnswered, Waits
<1>2. CASE \E res : app' = Finish(app, n, res)
  BY <1>1, <1>2, FinishShape
<1>3. ASSUME NEW w \in Call, app' = [app EXCEPT !.calls[n] = w],
             w.at \in {"resolve", "lookup", "resolve2", "lookup2", "context"}
      PROVE  Shaped
  BY <1>1, <1>3, GoShape
<1> QED BY <1>2, <1>3, LookupCases

\* The project context rebound the conversation: a new row, without a workspace.
Rebound(a) ==
  /\ Alike(a) /\ a.sel = app.sel /\ a.latch = app.latch /\ a.pub = app.pub
  /\ \A c \in Conversations : a.rows[c] = app.rows[c] \/ (a.rows[c].ver = FreshVer(app) /\ a.rows[c].bind = NoRoot)

LEMMA ContextCases ==
  ASSUME TypeOK, NEW n \in 1 .. Slots, ContextGuard(n)
  PROVE  \/ \E res : app' = Finish(app, n, res)
         \/ \E w \in Call : app' = [app EXCEPT !.calls[n] = w] /\ w.at = "completion" /\ w.conv = app.calls[n].conv
         \/ \E a : /\ Rebound(a)
                   /\ \/ app' = Stale(a, n)
                      \/ \E w \in Call : /\ app' = [a EXCEPT !.calls[n] = w]
                                         /\ w.at = "completion" /\ w.conv = app.calls[n].conv
<1> DEFINE w == app.calls[n]
           c == w.conv
           r == Row(FreshVer(app), NoRoot)
           e == FreshEpoch(app)
           a == [app EXCEPT !.epoch = e, !.rows[c] = r]
           u == [Captured(a, w) EXCEPT !.at = "completion"]
           v == [w EXCEPT !.at = "completion"]
<1>1. app \in App /\ w \in Call
  BY DEF TypeOK, App
<1>2. r \in RowType /\ r.bind = NoRoot /\ r.ver = FreshVer(app) /\ e \in Nat
  BY Fresh, BlankTypes
<1>3. \/ \E res : app' = Finish(app, n, res)
      \/ app' = Go(app, n, "completion")
      \/ app' = Stale(a, n)
      \/ app' = [a EXCEPT !.calls[n] = u] /\ a.sel = a.calls[n].conv
  <2>1. CASE \E ans \in {"ok", "bad"} : app' = ContextAnswered(app, n, ans)
    BY <2>1 DEF ContextAnswered, Stale
  <2>2. CASE app' = ContextAnswered(a, n, "rebound")
    <3>1. a.calls = app.calls
      BY <1>1 DEF App
    <3> HIDE DEF a
    <3> QED BY <2>2, <3>1 DEF ContextAnswered, ShellCurrent
  <2>3. ContextAnswered(a, n, "rebound") = ContextAnswered([app EXCEPT !.epoch = FreshEpoch(app),
                                              !.rows[app.calls[n].conv] = Row(FreshVer(app), NoRoot)], n, "rebound")
    OBVIOUS
  <2> HIDE DEF a, u, v, r, e, w, c
  <2> QED BY <2>1, <2>2, <2>3 DEF ContextGuard
<1>4. v \in Call /\ v.at = "completion" /\ v.conv = w.conv /\ Go(app, n, "completion") = [app EXCEPT !.calls[n] = v]
  BY <1>1 DEF Call, Place, Go
<1> HIDE DEF r, e
<1>5. Rebound(a)
  <2>1. app.rows \in [Conversations -> RowType] /\ app.calls \in [1 .. Slots -> Call]
    BY <1>1 DEF App
  <2>2. a.rows = [app.rows EXCEPT ![c] = r] /\ a = [app EXCEPT !.epoch = e, !.rows = a.rows]
    BY <1>1 DEF App
  <2>3. a.rows \in [Conversations -> RowType]
    <3> HIDE DEF a, w, c
    <3> QED BY <1>2, <2>1, <2>2
  <2>4. Alike(a) /\ a.sel = app.sel /\ a.latch = app.latch /\ a.pub = app.pub
    BY <1>1, <1>2, <2>2, <2>3 DEF Alike, App
  <2>5. \A d \in Conversations : a.rows[d] = app.rows[d] \/ (a.rows[d].ver = FreshVer(app) /\ a.rows[d].bind = NoRoot)
    <3> HIDE DEF a, w, c
    <3> QED BY <1>2, <2>1, <2>2
  <2> QED BY <2>4, <2>5 DEF Rebound
<1> HIDE DEF a
<1>6. ASSUME a.sel = a.calls[n].conv PROVE u \in Call /\ u.at = "completion" /\ u.conv = w.conv
  <2>1. a \in App /\ w.conv \in Conversations
    BY <1>5, <1>6 DEF Rebound, Alike, App
  <2>2. Captured(a, w) \in Call /\ Captured(a, w).conv = w.conv
    BY <1>1, <2>1, CapturedCall
  <2> HIDE DEF w
  <2> QED BY <2>2 DEF Call, Place
<1> HIDE DEF u, v, w
<1>7. \/ \E res : app' = Finish(app, n, res)
      \/ app' = [app EXCEPT !.calls[n] = v]
      \/ app' = Stale(a, n)
      \/ app' = [a EXCEPT !.calls[n] = u] /\ u \in Call /\ u.at = "completion" /\ u.conv = w.conv
  BY <1>3, <1>4, <1>6
<1> QED BY <1>4, <1>5, <1>7 DEF w

LEMMA ContextShape == ASSUME TypeOK, NEW n \in 1 .. Slots, ContextGuard(n) PROVE Shaped
<1>1. app \in App /\ Native /\ ~Waits(app.calls[n])
  BY DEF TypeOK, ContextGuard, Waits
<1>2. CASE \E res : app' = Finish(app, n, res)
  BY <1>1, <1>2, FinishShape
<1>3. ASSUME NEW w \in Call, app' = [app EXCEPT !.calls[n] = w], w.at = "completion" PROVE Shaped
  BY <1>1, <1>3, GoShape
<1>4. ASSUME NEW a, Rebound(a), app' = Stale(a, n) PROVE Shaped
  <2>1. Ends(n, app') /\ app'.rows = a.rows
    BY <1>4, AlikeEnds DEF Stale, Rebound
  <2>2. OwnerBinds
    BY <1>4, <2>1 DEF OwnerBinds, Rebound
  <2> QED BY <1>1, <2>1, <2>2, EndShape DEF Native
<1>5. ASSUME NEW a, Rebound(a), NEW w \in Call, app' = [a EXCEPT !.calls[n] = w], w.at = "completion" PROVE Shaped
  <2>1. Moved(a, n, w, app')
    BY <1>5, CallMoves DEF Rebound, Alike
  <2>2. Walks(n, w, app') /\ ~Waits(w)
    BY <1>5, <2>1 DEF Moved, Walks, Ensuring, Waits, Rebound, Alike
  <2>3. OwnerBinds
    BY <1>5, <2>1 DEF OwnerBinds, Rebound, Moved
  <2> QED BY <1>1, <2>2, <2>3, WalkShape DEF Native
<1> QED BY <1>2, <1>3, <1>4, <1>5, ContextCases

\* The amendment: the row is the call's, and the call waits for the save.
Amended(n, w, b) ==
  /\ app.calls[n].at = "completion" /\ Current(app, n)
  /\ w = [app.calls[n] EXCEPT !.at = "save", !.cand = FreshVer(app), !.before = app.rows[app.calls[n].conv]]
  /\ w \in Call /\ w.at = "save" /\ app.calls[n].conv \in Conversations
  /\ b \in App
  /\ b.calls = [app.calls EXCEPT ![n] = w] /\ b.create = app.create /\ b.act = app.act
  /\ b.latch = app.latch /\ b.sel = app.sel
  /\ b.rows = [app.rows EXCEPT ![app.calls[n].conv] = Row(FreshVer(app), app.calls[n].root)]
  /\ b.pub = [app.pub EXCEPT !.root = app.calls[n].root, !.ph = "pending"]

LEMMA AppliedAmends ==
  ASSUME app \in App, NEW n \in 1 .. Slots, Current(app, n), app.calls[n].at = "completion"
  PROVE  \E w \in Call : Amended(n, w, Applied(app, n))
<1> DEFINE w == app.calls[n]
           v == FreshVer(app)
           r == Row(v, w.root)
           u == [w EXCEPT !.at = "save", !.cand = v, !.before = app.rows[w.conv]]
           p == [app.pub EXCEPT !.root = w.root, !.ph = "pending"]
           b == [app EXCEPT !.rows[w.conv] = r, !.calls[n] = u, !.pub = p]
<1>1. w \in Call /\ w.conv \in Conversations /\ v \in Nat /\ app.rows[w.conv] \in RowType
  BY Fresh DEF Current, ShellCurrent, App
<1>2. r \in RowType /\ p \in Publication
  <2>1. w.root \in Root /\ app.pub \in Publication
    BY <1>1 DEF Call, App
  <2>2. r \in RowType
    BY <1>1, <2>1, BlankTypes
  <2>3. p \in Publication
    BY <2>1 DEF Publication
  <2> QED BY <2>2, <2>3
<1>3. u \in Call /\ u.at = "save"
  <2> HIDE DEF w, v
  <2> QED BY <1>1 DEF Call, Place
<1>4. Applied(app, n) = b
  BY DEF Applied, App
<1> HIDE DEF r, u, p
<1>5. /\ b \in App /\ b.calls = [app.calls EXCEPT ![n] = u] /\ b.create = app.create /\ b.act = app.act
      /\ b.latch = app.latch /\ b.sel = app.sel
      /\ b.rows = [app.rows EXCEPT ![w.conv] = r] /\ b.pub = p
  BY <1>1, <1>2, <1>3 DEF App
<1> HIDE DEF b
<1>6. Amended(n, u, b)
  BY <1>1, <1>3, <1>5 DEF Amended, r, u, p
<1> QED BY <1>3, <1>4, <1>6

LEMMA CompletionCases ==
  ASSUME app \in App, NEW n \in 1 .. Slots, CompletionGuard(n)
  PROVE  \/ (\E res : app' = Finish(app, n, res)) /\ saves' = saves
         \/ (\E w \in Call : Amended(n, w, app')) /\ Saved(n)
<1>1. PICK ans \in {"ok", "bad"}, takes \in BOOLEAN : app' = CompletionAnswered(app, n, ans, takes)
  BY DEF CompletionGuard
<1>2. (\E res : app' = Finish(app, n, res)) \/ (app' = Applied(app, n) /\ Current(app, n))
  BY <1>1 DEF CompletionAnswered, Stale
<1>3. ASSUME NEW res, app' = Finish(app, n, res) PROVE app'.calls[n].at # "save"
  <2>1. Ended(app, n, app')
    BY <1>3, FinishEnds
  <2>2. app.calls \in [1 .. Slots -> Call]
    BY DEF App
  <2> QED BY <2>1, <2>2, BlankTypes DEF Ended
<1>4. CASE \E res : app' = Finish(app, n, res)
  BY <1>3, <1>4 DEF CompletionGuard
<1>5. CASE app' = Applied(app, n) /\ Current(app, n)
  <2>1. PICK w \in Call : Amended(n, w, app')
    BY <1>5, AppliedAmends DEF CompletionGuard
  <2>2. app'.calls[n].at = "save"
    BY <2>1 DEF Amended, App
  <2> QED BY <2>1, <2>2 DEF CompletionGuard
<1> QED BY <1>2, <1>4, <1>5

LEMMA CompletionShape == ASSUME TypeOK, NEW n \in 1 .. Slots, CompletionGuard(n) PROVE Shaped
<1>1. app \in App /\ reg'.made = reg.made /\ ~Waits(app.calls[n]) /\ app.calls[n].at = "completion"
  BY DEF TypeOK, CompletionGuard, Waits
<1>2. CASE (\E res : app' = Finish(app, n, res)) /\ saves' = saves
  <2>1. Native
    BY <1>2 DEF Native, CompletionGuard
  <2> QED BY <1>1, <1>2, <2>1, FinishShape
<1>3. CASE (\E w \in Call : Amended(n, w, app')) /\ Saved(n)
  <2>1. PICK w \in Call : Amended(n, w, app')
    BY <1>3
  <2>2. Walks(n, w, app') /\ Waits(w)
    BY <2>1 DEF Amended, Walks, Waits, Ensuring
  <2>3. OwnerBinds
    <3> SUFFICES ASSUME NEW c \in Conversations, app'.rows[c].bind # app.rows[c].bind
                 PROVE  /\ app.calls[n].at = "completion" /\ app.calls[n].conv = c
                        /\ app.act = n /\ app.sel = c
                        /\ app.rows[c].ver = app.calls[n].ver
      BY DEF OwnerBinds
    <3>1. app.calls[n].conv = c
      BY <1>1, <2>1 DEF Amended, App
    <3> QED BY <1>1, <2>1, <3>1 DEF Amended, Current, ShellCurrent
  <2> QED BY <1>1, <1>3, <2>1, <2>2, <2>3, SavingWalkShape
<1> QED BY <1>1, <1>2, <1>3, CompletionCases

\* An app whose active call has found its workspace.
Opened(a) ==
  /\ a \in App /\ a.calls = app.calls /\ a.rows = app.rows /\ a.latch = app.latch /\ a.sel = app.sel
  /\ a.pub = app.pub /\ a.act = 0

\* Ensuring a workspace ends the call, or asks on, creates or binds as the
\* active one.
LEMMA EnsureCases ==
  ASSUME TypeOK, EnsureInv, NEW n \in 1 .. Slots, app.calls[n].at \in Ensuring, NEW ans,
         NEW b, b = EnsureAnswered(app, n, ans)
  PROVE  \/ \E res : b = Finish(app, n, res)
         \/ /\ app.act = n
            /\ \/ \E at \in Asking : b = Go(app, n, at)
               \/ b = Create(app, n)
               \/ \E a : \E v \in Call : v.at = "resolve" /\ Opened(a) /\ (Missed(a, n, b) \/ Binds(a, n, v, b))
<1> DEFINE w == app.calls[n]
<1>1. app \in App /\ w \in Call
  BY DEF TypeOK, App
<1>2. ASSUME NEW root \in Root, b = Bound(app, n, root)
      PROVE  \E a : \E v \in Call : v.at = "resolve" /\ Opened(a) /\ (Missed(a, n, b) \/ Binds(a, n, v, b))
  <2> DEFINE a == [app EXCEPT !.create = 0, !.act = 0]
             v == [app.calls[n] EXCEPT !.root = root, !.at = "resolve"]
  <2>1. Opened(a)
    <3>1. 0 \in 0 .. Slots
      BY SlotsAssumption
    <3> QED BY <1>1, <3>1 DEF App, Opened
  <2>2. v \in Call /\ v.at = "resolve"
    BY <1>1 DEF Call, Place
  <2>3. b = Bind(a, n, v)
    BY <1>2 DEF Bound
  <2> HIDE DEF a, v
  <2>4. Missed(a, n, Bind(a, n, v)) \/ Binds(a, n, v, Bind(a, n, v))
    BY <2>1, <2>2, BindStarts DEF Opened
  <2> QED BY <2>1, <2>2, <2>3, <2>4
<1>3. <<w.op, 1>> \in Root
  <2>1. 1 \in 0 .. Grants
    BY SlotsAssumption
  <2> QED BY <1>1, <2>1 DEF Root, Call
<1>4. reg.made # {} => <<Min(reg.made), 1>> \in Root
  BY ListedRoot
<1>5. CASE ~Current(app, n)
  BY <1>5 DEF EnsureAnswered, Stale
<1>6. CASE Current(app, n)
  <2>1. app.act = n
    BY <1>6 DEF Current, ShellCurrent
  <2>2. {"equery", "relist", "create2", "query"} \subseteq Asking
    BY DEF Asking, Ensuring
  <2>3. CASE w.at = "elist"
    <3>1. \/ \E res : b = Finish(app, n, res)
          \/ b = Go(app, n, "equery")
          \/ b = Create(app, n)
          \/ (b = Bound(app, n, <<Min(reg.made), 1>>) /\ reg.made # {})
      BY <1>6, <2>3 DEF EnsureAnswered
    <3> QED BY <1>2, <1>4, <2>1, <2>2, <3>1
  <2>4. CASE w.at \in {"equery", "query"}
    <3>1. \/ \E res : b = Finish(app, n, res)
          \/ b = Go(app, n, "relist")
          \/ b = Go(app, n, "create2")
          \/ b = Create(app, n)
      BY <1>6, <2>4 DEF EnsureAnswered
    <3> QED BY <2>1, <2>2, <3>1
  <2>5. CASE w.at \in {"relist", "create", "create2"}
    <3>1. \/ \E res : b = Finish(app, n, res)
          \/ b = Go(app, n, "query")
          \/ b = Bound(app, n, <<w.op, 1>>)
      BY <1>6, <2>5 DEF EnsureAnswered
    <3> QED BY <1>2, <1>3, <2>1, <2>2, <3>1
  <2> QED BY <2>3, <2>4, <2>5 DEF Ensuring
<1> QED BY <1>5, <1>6

\* Ensuring touches no conversation and waits for no save.
LEMMA EnsureKeeps ==
  ASSUME TypeOK, EnsureInv, NEW n \in 1 .. Slots, app.calls[n].at \in Ensuring, NEW ans,
         NEW b, b = EnsureAnswered(app, n, ans)
  PROVE  b.rows = app.rows
<1>1. app \in App
  BY DEF TypeOK
<1>2. ASSUME NEW res, b = Finish(app, n, res) PROVE b.rows = app.rows
  <2>1. Ended(app, n, Finish(app, n, res))
    BY <1>1, FinishEnds
  <2> QED BY <1>2, <2>1 DEF Ended
<1>3. ASSUME NEW at, b = Go(app, n, at) PROVE b.rows = app.rows
  BY <1>1, <1>3 DEF Go, App
<1>4. ASSUME b = Create(app, n) PROVE b.rows = app.rows
  BY <1>1, <1>4 DEF Create, App
<1>5. ASSUME NEW a, NEW v, Opened(a), Missed(a, n, b) \/ Binds(a, n, v, b) PROVE b.rows = app.rows
  BY <1>5 DEF Opened, Missed, Binds
<1>6. \/ \E res : b = Finish(app, n, res)
      \/ /\ app.act = n
         /\ \/ \E at \in Asking : b = Go(app, n, at)
            \/ b = Create(app, n)
            \/ \E a : \E v \in Call : v.at = "resolve" /\ Opened(a) /\ (Missed(a, n, b) \/ Binds(a, n, v, b))
  BY EnsureCases
<1> QED BY <1>2, <1>3, <1>4, <1>5, <1>6

LEMMA EnsureShape == ASSUME TypeOK, EnsureInv, NEW n \in 1 .. Slots, EnsureStep(n) PROVE Shaped
<1>1. app \in App /\ app.calls \in [1 .. Slots -> Call] /\ Native /\ app.calls[n].at \in Ensuring
  BY DEF TypeOK, EnsureStep, App
<1>2. EnsureMoves(n, app') /\ app'.rows = app.rows
  BY EnsureAnswers, EnsureKeeps DEF EnsureStep
<1>3. EnsureMoves(n, app') => Shaped
  <2>1. ~Waits(app.calls[n])
    BY <1>1 DEF Waits, Ensuring
  <2>2. \A m \in 1 .. Slots : Waits(app'.calls[m]) <=> Waits(app.calls[m])
    BY <1>1, <1>2, <2>1, BlankTypes DEF EnsureMoves, Ends, Enquires, Creates, Finds, Waits, Ensuring
  <2> QED BY <1>1, <1>2, <2>2 DEF Shaped, CallShape, SaveShape, OwnerBinds, Native
<1> QED BY <1>2, <1>3

\* The latch, the publication and a row, one at a time.
LEMMA LatchSet ==
  ASSUME NEW a, Alike(a), NEW l \in [w : Call, settled : BOOLEAN], NEW b, b = [a EXCEPT !.latch = l]
  PROVE  Alike(b) /\ b.latch = l /\ b.rows = a.rows /\ b.pub = a.pub
  BY DEF Alike, App

LEMMA PhaseSet ==
  ASSUME NEW a, Alike(a), NEW ph \in {"pending", "committed", "drifted"}, NEW b, b = [a EXCEPT !.pub.ph = ph]
  PROVE  /\ Alike(b) /\ b.latch = a.latch /\ b.rows = a.rows
         /\ b.pub.ph = ph /\ b.pub.conv = a.pub.conv /\ b.pub.root = a.pub.root
<1> DEFINE p == [a.pub EXCEPT !.ph = ph]
<1>1. a.pub \in Publication
  BY DEF Alike, App
<1>2. p \in Publication /\ p.ph = ph /\ p.conv = a.pub.conv /\ p.root = a.pub.root
  BY <1>1 DEF Publication
<1>3. b = [a EXCEPT !.pub = p]
  OBVIOUS
<1> HIDE DEF p
<1>4. Alike(b) /\ b.latch = a.latch /\ b.rows = a.rows /\ b.pub = p
  BY <1>2, <1>3 DEF Alike, App
<1> QED BY <1>2, <1>4

LEMMA RowSet ==
  ASSUME NEW a, Alike(a), NEW w \in Call, NEW b, b = RolledBack(a, w)
  PROVE  Alike(b) /\ b.latch = a.latch /\ b.rows = [a.rows EXCEPT ![w.conv] = w.before] /\ b.pub = a.pub
<1> DEFINE r == [a.rows EXCEPT ![w.conv] = w.before]
<1>1. a.rows \in [Conversations -> RowType] /\ w.before \in RowType
  BY DEF Alike, App, Call
<1>2. r \in [Conversations -> RowType]
  BY <1>1
<1>3. b = [a EXCEPT !.rows = r]
  BY DEF RolledBack
<1> HIDE DEF r
<1>4. Alike(b) /\ b.latch = a.latch /\ b.rows = r /\ b.pub = a.pub
  BY <1>2, <1>3 DEF Alike, App
<1> QED BY <1>4 DEF r

\* What the answer to a call's save leaves behind, before the call ends.
Settled(n, res, a) ==
  LET w == app.calls[n]
      row == app.rows[w.conv].ver = w.cand
      owned == ShellCurrent(app, n, FALSE) /\ row
  IN /\ Alike(a)
     /\ \/ a.rows = app.rows
        \/ /\ row /\ res = "not_committed"
           /\ a.rows = [app.rows EXCEPT ![w.conv] = w.before]
     /\ \/ a.latch = app.latch
        \/ a.latch = NoLatch
        \/ w.at = "resave" /\ a.latch = [app.latch EXCEPT !.settled = TRUE]
        \/ w.at = "save" /\ owned /\ a.latch = [w |-> w, settled |-> FALSE] /\ a.rows = app.rows
     /\ w.at = "resave" /\ a.rows # app.rows => a.latch = NoLatch
     /\ a.pub.conv = app.pub.conv /\ a.pub.root = app.pub.root
     /\ a.pub = app.pub \/ a.pub.ph = "drifted" \/ (a.pub.ph = "committed" /\ owned /\ res = "committed")

LEMMA SaveSettles ==
  ASSUME TypeOK, NEW n \in 1 .. Slots, app.calls[n].at = "save", NEW res \in {"committed", "unknown", "not_committed"}
  PROVE  \E a, r : SaveAnswered(app, n, res) = Finish(a, n, r) /\ Settled(n, res, a)
<1> DEFINE w == app.calls[n]
           row == app.rows[w.conv].ver = w.cand
           owned == ShellCurrent(app, n, FALSE) /\ row
           free == [app EXCEPT !.latch = NoLatch]
           held == [w |-> w, settled |-> FALSE]
           kept == [app EXCEPT !.latch = held]
           shown == [free EXCEPT !.pub.ph = "committed"]
           back == RolledBack(app, w)
<1>1. Alike(app) /\ w \in Call /\ held \in [w : Call, settled : BOOLEAN]
  BY DEF TypeOK, Alike, App
<1>2. Alike(free) /\ free.latch = NoLatch /\ free.rows = app.rows /\ free.pub = app.pub
  BY <1>1, BlankTypes, LatchSet
<1>3. Alike(kept) /\ kept.latch = held /\ kept.rows = app.rows /\ kept.pub = app.pub
  <2> HIDE DEF held
  <2> QED BY <1>1, LatchSet
<1>4. /\ Alike(shown) /\ shown.latch = NoLatch /\ shown.rows = app.rows
      /\ shown.pub.ph = "committed" /\ shown.pub.conv = app.pub.conv /\ shown.pub.root = app.pub.root
  <2> HIDE DEF free
  <2> QED BY <1>2, PhaseSet
<1>5. Alike(back) /\ back.latch = app.latch /\ back.rows = [app.rows EXCEPT ![w.conv] = w.before] /\ back.pub = app.pub
  BY <1>1, RowSet
<1>6. shown = [app EXCEPT !.latch = NoLatch, !.pub.ph = "committed"]
  BY DEF TypeOK, App
<1>7. CASE res = "committed"
  <2>1. SaveAnswered(app, n, res) = IF owned THEN Finish(shown, n, "committed") ELSE Finish(free, n, "drifted")
    BY <1>6, <1>7 DEF SaveAnswered
  <2>2. Settled(n, res, free) /\ (owned => Settled(n, res, shown))
    <3> HIDE DEF free, shown
    <3> QED BY <1>2, <1>4, <1>7 DEF Settled
  <2> QED BY <2>1, <2>2
<1>8. CASE res = "unknown"
  <2>1. SaveAnswered(app, n, res) = IF owned THEN Finish(kept, n, "unknown") ELSE Finish(app, n, "stale")
    BY <1>8 DEF SaveAnswered, Stale
  <2>2. Settled(n, res, app) /\ (owned => Settled(n, res, kept))
    <3> HIDE DEF kept
    <3> QED BY <1>1, <1>3 DEF Settled
  <2> QED BY <2>1, <2>2
<1>9. CASE res = "not_committed"
  <2>1. SaveAnswered(app, n, res) = IF row THEN Finish(back, n, IF owned THEN "not_committed" ELSE "stale")
                                           ELSE Finish(app, n, "stale")
    BY <1>9 DEF SaveAnswered, Stale
  <2>2. Settled(n, res, app) /\ (row => Settled(n, res, back))
    <3> HIDE DEF back
    <3> QED BY <1>1, <1>5, <1>9 DEF Settled
  <2> QED BY <2>1, <2>2
<1> QED BY <1>7, <1>8, <1>9

LEMMA RetrySettles ==
  ASSUME TypeOK, NEW n \in 1 .. Slots, app.calls[n].at = "resave", NEW res \in {"committed", "unknown", "not_committed"}
  PROVE  \E a, r : RetryAnswered(app, n, res) = Finish(a, n, r) /\ Settled(n, res, a)
<1> DEFINE w == app.calls[n]
           row == app.rows[w.conv].ver = w.cand
           mine == ~app.latch.settled /\ row
           owned == ShellCurrent(app, n, FALSE) /\ row
           free == [app EXCEPT !.latch = NoLatch]
           how == IF mine /\ owned THEN "committed" ELSE "drifted"
           shown == [free EXCEPT !.pub.ph = how]
           done == [app.latch EXCEPT !.settled = TRUE]
           kept == [app EXCEPT !.latch = done]
           back == RolledBack(free, w)
<1>1. Alike(app) /\ w \in Call /\ done \in [w : Call, settled : BOOLEAN]
  BY DEF TypeOK, Alike, App
<1>2. Alike(free) /\ free.latch = NoLatch /\ free.rows = app.rows /\ free.pub = app.pub
  BY <1>1, BlankTypes, LatchSet
<1>3. Alike(kept) /\ kept.latch = done /\ kept.rows = app.rows /\ kept.pub = app.pub
  <2> HIDE DEF done
  <2> QED BY <1>1, LatchSet
<1>4. /\ Alike(shown) /\ shown.latch = NoLatch /\ shown.rows = app.rows
      /\ shown.pub.ph = how /\ shown.pub.conv = app.pub.conv /\ shown.pub.root = app.pub.root
  <2>1. how \in {"pending", "committed", "drifted"}
    OBVIOUS
  <2> HIDE DEF free, how
  <2> QED BY <1>2, <2>1, PhaseSet
<1>5. Alike(back) /\ back.latch = NoLatch /\ back.rows = [app.rows EXCEPT ![w.conv] = w.before] /\ back.pub = app.pub
  <2> HIDE DEF free, w
  <2> QED BY <1>1, <1>2, RowSet
<1>6. kept = [app EXCEPT !.latch.settled = TRUE]
  OBVIOUS
<1>7. CASE res = "committed"
  <2>1. RetryAnswered(app, n, res) = Finish(shown, n, how)
    BY <1>7 DEF RetryAnswered
  <2>2. Settled(n, res, shown)
    <3> HIDE DEF shown
    <3> QED BY <1>4, <1>7 DEF Settled
  <2> QED BY <2>1, <2>2
<1>8. CASE res = "unknown"
  <2>1. RetryAnswered(app, n, res) = IF owned THEN Finish(app, n, "unknown") ELSE Finish(free, n, "stale")
    BY <1>8 DEF RetryAnswered, Stale
  <2>2. Settled(n, res, app) /\ Settled(n, res, free)
    <3> HIDE DEF free
    <3> QED BY <1>1, <1>2 DEF Settled
  <2> QED BY <2>1, <2>2
<1>9. CASE res = "not_committed"
  <2>1. RetryAnswered(app, n, res) = IF mine THEN Finish(back, n, IF owned THEN "not_committed" ELSE "stale")
                                             ELSE Finish(kept, n, "conflict")
    BY <1>6, <1>9 DEF RetryAnswered
  <2>2. Settled(n, res, kept) /\ (mine => Settled(n, res, back))
    <3> HIDE DEF back, kept
    <3> QED BY <1>3, <1>5, <1>9 DEF Settled
  <2> QED BY <2>1, <2>2
<1> QED BY <1>7, <1>8, <1>9

\* The oldest save is one a call waits for, or somebody else's.
LEMMA OldestSave ==
  ASSUME TypeOK, saves # << >>
  PROVE  /\ Head(saves).n \in 0 .. Slots /\ Head(saves).doc \in [Conversations -> Root]
         /\ Head(saves) = saves[1] /\ 1 \in DOMAIN saves
         /\ Head(saves).n # 0 => app.calls[Head(saves).n].at \in {"save", "resave"}
<1> DEFINE T == [n : 0 .. Slots, doc : [Conversations -> Root]]
<1>1. saves \in Seq(T)
  BY DEF TypeOK
<1>2. /\ Head(saves).n \in 0 .. Slots /\ Head(saves).doc \in [Conversations -> Root]
      /\ Head(saves) = saves[1] /\ 1 \in DOMAIN saves
  <2> HIDE DEF T
  <2>1. Head(saves) \in T /\ Head(saves) = saves[1] /\ 1 \in DOMAIN saves
    BY <1>1
  <2> QED BY <2>1 DEF T
<1>3. Head(saves).n # 0 => app.calls[Head(saves).n].at \in {"save", "resave"}
  BY <1>2 DEF TypeOK
<1> QED BY <1>2, <1>3

LEMMA AnswerCases ==
  ASSUME TypeOK, SaveAnswer, Head(saves).n # 0
  PROVE  LET n == Head(saves).n
         IN \E a, r : \E res \in {"committed", "unknown", "not_committed"} :
              /\ app' = Finish(a, n, r) /\ Settled(n, res, a)
              /\ res = "committed" => disk' = Head(saves).doc
<1> DEFINE n == Head(saves).n
<1>1. saves # << >>
  BY DEF SaveAnswer
<1>2. n \in 1 .. Slots /\ app.calls[n].at \in {"save", "resave"}
  BY <1>1, OldestSave
<1>3. PICK res \in {"committed", "unknown", "not_committed"} :
        /\ app' = IF app.calls[n].at = "save" THEN SaveAnswered(app, n, res) ELSE RetryAnswered(app, n, res)
        /\ disk' \in CASE res = "committed" -> {Head(saves).doc}
                       [] res = "unknown"   -> {disk, Head(saves).doc}
                       [] OTHER             -> {disk}
  BY DEF SaveAnswer
<1> HIDE DEF n
<1>4. \E a, r : app' = Finish(a, n, r) /\ Settled(n, res, a)
  BY <1>2, <1>3, SaveSettles, RetrySettles
<1>5. res = "committed" => disk' = Head(saves).doc
  BY <1>3
<1> QED BY <1>4, <1>5 DEF n

LEMMA SaveAnswerShape == ASSUME TypeOK, SaveAnswer PROVE Shaped
<1> DEFINE n == Head(saves).n
<1>1. /\ app \in App /\ app.calls \in [1 .. Slots -> Call] /\ saves # << >> /\ saves' = Tail(saves)
      /\ reg'.made = reg.made /\ n \in 0 .. Slots
      /\ n # 0 => Waits(app.calls[n])
  BY OldestSave DEF TypeOK, App, SaveAnswer, Waits
<1>2. CASE n = 0
  <2>1. app' = app
    BY <1>2 DEF SaveAnswer
  <2>2. \A m \in 1 .. Slots : m # n
    BY <1>2
  <2>3. SaveShape
    BY <1>1, <2>1, <2>2 DEF SaveShape
  <2> QED BY <1>1, <2>1, <2>3 DEF Shaped, CallShape, Stays, OwnerBinds
<1>3. CASE n # 0
  <2>1. PICK a, r, res : app' = Finish(a, n, r) /\ Settled(n, res, a)
    BY <1>3, AnswerCases
  <2> HIDE DEF n
  <2>2. n \in 1 .. Slots /\ Alike(a)
    BY <1>1, <1>3, <2>1 DEF Settled
  <2>3. Ends(n, app') /\ app'.rows = a.rows
    BY <2>1, <2>2, AlikeEnds
  <2>4. \A m \in 1 .. Slots : Waits(app'.calls[m]) <=> Waits(app.calls[m]) /\ m # n
    BY <1>1, <2>2, <2>3, BlankTypes DEF Ends, Waits
  <2>5. OwnerBinds
    <3> SUFFICES ASSUME NEW c \in Conversations, app'.rows[c].bind # app.rows[c].bind
                 PROVE  app'.rows[c] \in {w.before : w \in Held(app)}
      BY DEF OwnerBinds
    <3>1. app.rows \in [Conversations -> RowType]
      BY <1>1 DEF App
    <3>2. app'.rows = [app.rows EXCEPT ![app.calls[n].conv] = app.calls[n].before]
      BY <2>1, <2>3 DEF Settled
    <3>3. app'.rows[c] = app.calls[n].before
      BY <3>1, <3>2
    <3>4. app.calls[n] \in Held(app)
      BY <2>2 DEF Held
    <3> QED BY <3>3, <3>4
  <2>6. SaveShape
    BY <1>1, <2>4 DEF SaveShape, n
  <2> QED BY <1>1, <2>2, <2>3, <2>5, <2>6 DEF Shaped, CallShape
<1> QED BY <1>2, <1>3

\* The retry is the latched call again.
Retries(n, w, b) ==
  /\ app.latch # NoLatch /\ app.act = 0 /\ app.calls[n] = Idle
  /\ w \in Call /\ w.at = "resave" /\ w = [app.latch.w EXCEPT !.at = "resave"]
  /\ b \in App
  /\ b.calls = [app.calls EXCEPT ![n] = w] /\ b.create = app.create /\ b.act = n
  /\ b.rows = app.rows /\ b.latch = app.latch /\ b.sel = app.sel
  /\ b.pub = [op |-> w.op, conv |-> w.conv, root |-> w.root, ph |-> "pending"]

LEMMA RetryRetries ==
  ASSUME TypeOK, NEW n \in 1 .. Slots, Retry(n)
  PROVE  \E w \in Call : Retries(n, w, app')
<1> DEFINE l == app.latch.w
           w == [l EXCEPT !.at = "resave"]
           p == [op |-> l.op, conv |-> l.conv, root |-> l.root, ph |-> "pending"]
<1>1. app \in App /\ l \in Call
  BY DEF TypeOK, App
<1>2. w \in Call /\ w.at = "resave" /\ w.op = l.op /\ w.conv = l.conv /\ w.root = l.root
  BY <1>1 DEF Call, Place
<1>3. p \in Publication /\ p = [op |-> w.op, conv |-> w.conv, root |-> w.root, ph |-> "pending"]
  BY <1>1, <1>2 DEF Publication, Call
<1>4. app' = [app EXCEPT !.act = n, !.calls[n] = w, !.pub = p]
  BY DEF Retry
<1>5. n \in 0 .. Slots /\ app.latch # NoLatch /\ app.act = 0 /\ app.calls[n] = Idle
  BY DEF Retry, Free
<1>6. w = [app.latch.w EXCEPT !.at = "resave"]
  OBVIOUS
<1> HIDE DEF l, w, p
<1>7. /\ app' \in App /\ app'.calls = [app.calls EXCEPT ![n] = w] /\ app'.create = app.create /\ app'.act = n
      /\ app'.rows = app.rows /\ app'.latch = app.latch /\ app'.sel = app.sel /\ app'.pub = p
  BY <1>1, <1>2, <1>3, <1>4, <1>5 DEF App
<1>8. Retries(n, w, app')
  BY <1>2, <1>3, <1>5, <1>6, <1>7 DEF Retries
<1> QED BY <1>2, <1>8

LEMMA RetryShape == ASSUME TypeOK, NEW n \in 1 .. Slots, Retry(n) PROVE Shaped
<1>1. app \in App /\ Saved(n) /\ reg'.made = reg.made
  BY DEF TypeOK, Retry
<1>2. PICK w \in Call : Retries(n, w, app')
  BY RetryRetries
<1>3. Walks(n, w, app') /\ Waits(w) /\ ~Waits(app.calls[n]) /\ OwnerBinds
  BY <1>2, BlankTypes DEF Retries, Walks, Waits, Ensuring, OwnerBinds
<1> QED BY <1>1, <1>2, <1>3, SavingWalkShape

LEMMA Shapes == ASSUME TypeOK, EnsureInv, Next PROVE Shaped
<1>1. CASE OpenPicker \/ ClosePicker
  BY <1>1, PickerShape
<1>2. CASE Rendered
  BY <1>2, RenderedShape
<1>3. CASE SaveAnswer
  BY <1>3, SaveAnswerShape
<1>4. CASE OtherSave
  BY <1>4, OtherSaveShape
<1>5. CASE Regrant
  BY <1>5, RegrantShape
<1>6. CASE Relaunch
  BY <1>6, RelaunchShape
<1>7. ASSUME NEW c \in Conversations, Edit(c) \/ Select(c) PROVE Shaped
  BY <1>7, EditShape
<1>8. ASSUME NEW n \in 1 .. Slots, Pick(n) PROVE Shaped
  BY <1>8, PickShape
<1>9. ASSUME NEW n \in 1 .. Slots, OpenFiles(n) PROVE Shaped
  BY <1>9, FilesShape
<1>10. ASSUME NEW n \in 1 .. Slots, ChatInProject(n) PROVE Shaped
  BY <1>10, ProjectShape
<1>11. ASSUME NEW n \in 1 .. Slots, Retry(n) PROVE Shaped
  BY <1>11, RetryShape
<1>12. ASSUME NEW n \in 1 .. Slots, LookupAnswered(n) PROVE Shaped
  BY <1>12, LookupShape
<1>13. ASSUME NEW n \in 1 .. Slots, ContextGuard(n) PROVE Shaped
  BY <1>13, ContextShape
<1>14. ASSUME NEW n \in 1 .. Slots, CompletionGuard(n) PROVE Shaped
  BY <1>14, CompletionShape
<1>15. ASSUME NEW n \in 1 .. Slots, MakeWorkspace(n) PROVE Shaped
  BY <1>15, MakeShape
<1>16. ASSUME NEW n \in 1 .. Slots, EnsureStep(n) PROVE Shaped
  BY <1>16, EnsureShape
<1> QED BY <1>1, <1>2, <1>3, <1>4, <1>5, <1>6, <1>7, <1>8, <1>9, <1>10, <1>11, <1>12, <1>13, <1>14,
           <1>15, <1>16 DEF Next
----------------------------------------------------------------------------
(***************************************************************************)
(* Types                                                                   *)
(***************************************************************************)
\* A call waits for one save.
SaveInv == \A i, j \in DOMAIN saves : saves[i].n = saves[j].n /\ saves[i].n # 0 => i = j

Awaited == \A n \in 1 .. Slots : Waits(app.calls[n]) <=> \E i \in DOMAIN saves : saves[i].n = n

LEMMA SavesStep ==
  ASSUME TypeOK, SaveInv, SaveShape
  PROVE  saves' \in Seq([n : 0 .. Slots, doc : [Conversations -> Root]]) /\ SaveInv' /\ Awaited'
<1> DEFINE T == [n : 0 .. Slots, doc : [Conversations -> Root]]
<1>1. saves \in Seq(T) /\ Awaited
  BY DEF TypeOK, Awaited, Waits
<1>2. CASE saves' = saves /\ \A m \in 1 .. Slots : Waits(app'.calls[m]) <=> Waits(app.calls[m])
  BY <1>1, <1>2 DEF SaveInv, Awaited
<1>3. ASSUME NEW n \in 0 .. Slots, NEW d \in [Conversations -> Root],
             saves' = Append(saves, [n |-> n, doc |-> d]), n # 0 => ~Waits(app.calls[n]),
             \A m \in 1 .. Slots : Waits(app'.calls[m]) <=> Waits(app.calls[m]) \/ m = n
      PROVE  saves' \in Seq(T) /\ SaveInv' /\ Awaited'
  <2> DEFINE e == [n |-> n, doc |-> d]
  <2>1. e \in T /\ e.n = n
    OBVIOUS
  <2> HIDE DEF e, T
  <2>2. /\ saves' \in Seq(T) /\ Len(saves) \in Nat /\ DOMAIN saves = 1 .. Len(saves)
        /\ DOMAIN saves' = 1 .. Len(saves) + 1
        /\ saves'[Len(saves) + 1] = e /\ \A i \in DOMAIN saves : saves'[i] = saves[i]
    BY <1>1, <1>3, <2>1 DEF e
  <2>3. \A i \in DOMAIN saves : n # 0 => saves[i].n # n
    <3> SUFFICES ASSUME NEW i \in DOMAIN saves, n # 0, saves[i].n = n PROVE FALSE
      OBVIOUS
    <3>1. n \in 1 .. Slots
      OBVIOUS
    <3>2. Waits(app.calls[n])
      BY <1>1, <3>1 DEF Awaited
    <3> QED BY <1>3, <3>2
  <2>4. DOMAIN saves' = DOMAIN saves \cup {Len(saves) + 1}
    BY <2>2
  <2>5. SaveInv'
    <3> SUFFICES ASSUME NEW i \in DOMAIN saves', NEW j \in DOMAIN saves',
                        saves'[i].n = saves'[j].n, saves'[i].n # 0
                 PROVE  i = j
      BY DEF SaveInv
    <3> QED BY <2>1, <2>2, <2>3, <2>4 DEF SaveInv
  <2>6. ASSUME NEW m \in 1 .. Slots
        PROVE  (\E i \in DOMAIN saves' : saves'[i].n = m) <=> (\E i \in DOMAIN saves : saves[i].n = m) \/ m = n
    BY <2>1, <2>2, <2>4
  <2>7. Awaited'
    BY <1>1, <1>3, <2>6 DEF Awaited
  <2> QED BY <2>2, <2>5, <2>7
<1>4. CASE /\ saves # << >> /\ saves' = Tail(saves)
           /\ \A m \in 1 .. Slots : Waits(app'.calls[m]) <=> Waits(app.calls[m]) /\ m # Head(saves).n
  <2> HIDE DEF T
  <2>1. /\ saves' \in Seq(T) /\ Len(saves) \in Nat \ {0} /\ DOMAIN saves = 1 .. Len(saves)
        /\ DOMAIN saves' = 1 .. Len(saves) - 1 /\ Head(saves) = saves[1]
        /\ \A i \in DOMAIN saves' : saves'[i] = saves[i + 1] /\ i + 1 \in DOMAIN saves
    BY <1>1, <1>4
  <2>2. SaveInv'
    <3> SUFFICES ASSUME NEW i \in DOMAIN saves', NEW j \in DOMAIN saves',
                        saves'[i].n = saves'[j].n, saves'[i].n # 0
                 PROVE  i = j
      BY DEF SaveInv
    <3>1. i + 1 = j + 1
      BY <2>1 DEF SaveInv
    <3> QED BY <2>1, <3>1
  <2>3. ASSUME NEW m \in 1 .. Slots
        PROVE  (\E i \in DOMAIN saves' : saves'[i].n = m) <=>
               (\E i \in DOMAIN saves : saves[i].n = m) /\ m # Head(saves).n
    <3>1. ASSUME NEW i \in DOMAIN saves', saves'[i].n = m
          PROVE  saves[i + 1].n = m /\ i + 1 \in DOMAIN saves /\ m # Head(saves).n
      <4>1. saves[i + 1].n = m /\ i + 1 \in DOMAIN saves /\ i + 1 # 1
        BY <2>1, <3>1
      <4>2. m # 0 /\ 1 \in DOMAIN saves
        BY <2>1
      <4> QED BY <2>1, <4>1, <4>2 DEF SaveInv
    <3>2. ASSUME NEW i \in DOMAIN saves, saves[i].n = m, m # Head(saves).n
          PROVE  \E j \in DOMAIN saves' : saves'[j].n = m
      <4>1. i # 1
        BY <2>1, <3>2
      <4>2. i - 1 \in DOMAIN saves' /\ i - 1 + 1 = i
        BY <2>1, <4>1
      <4>3. saves'[i - 1] = saves[i]
        BY <2>1, <4>2
      <4> QED BY <3>2, <4>2, <4>3
    <3> QED BY <3>1, <3>2
  <2>4. Awaited'
    BY <1>1, <1>4, <2>3 DEF Awaited
  <2> QED BY <2>1, <2>2, <2>4 DEF T
<1>5. CASE saves' = << >> /\ \A m \in 1 .. Slots : ~Waits(app'.calls[m])
  <2>1. saves' \in Seq(T) /\ DOMAIN saves' = {}
    BY <1>5
  <2> QED BY <1>5, <2>1 DEF SaveInv, Awaited
<1> QED BY <1>2, <1>3, <1>4, <1>5 DEF SaveShape

\* The active call stays one that is under way.
LEMMA CallsStep ==
  ASSUME TypeOK, CallShape
  PROVE  app' \in App /\ (app'.act # 0 => app'.calls[app'.act] # Idle)
<1>1. app \in App /\ app.calls \in [1 .. Slots -> Call] /\ app.act \in 0 .. Slots
      /\ (app.act # 0 => app.calls[app.act] # Idle) /\ Idle.at = "idle"
  BY BlankTypes DEF TypeOK, App
<1>2. CASE Stays(app')
  BY <1>1, <1>2 DEF Stays
<1>3. ASSUME NEW n \in 1 .. Slots, Ends(n, app') PROVE app' \in App /\ (app'.act # 0 => app'.calls[app'.act] # Idle)
  BY <1>1, <1>3 DEF Ends
<1>4. ASSUME NEW n \in 1 .. Slots, NEW w \in Call, Walks(n, w, app') \/ Ensures(n, w, app')
      PROVE  app' \in App /\ (app'.act # 0 => app'.calls[app'.act] # Idle)
  <2>1. app' \in App /\ w # Idle /\ app'.calls = [app.calls EXCEPT ![n] = w] /\ app'.act \in {app.act, n}
    BY <1>1, <1>4 DEF Walks, Ensures
  <2>2. app'.act = n => app'.calls[app'.act] = w
    BY <1>1, <2>1
  <2>3. app'.act # n => app'.act = app.act /\ app'.calls[app'.act] = app.calls[app.act]
    BY <1>1, <2>1
  <2> QED BY <1>1, <2>1, <2>2, <2>3
<1>5. ASSUME NEW n \in 1 .. Slots, EnsureMoves(n, app')
      PROVE  app' \in App /\ (app'.act # 0 => app'.calls[app'.act] # Idle)
  <2>1. CASE Ends(n, app')
    BY <1>3, <2>1
  <2>2. ASSUME NEW w \in Call, Enquires(n, w, app') \/ Creates(n, w, app') \/ Finds(n, w, app')
        PROVE  app' \in App /\ (app'.act # 0 => app'.calls[app'.act] # Idle)
    <3>1. /\ app' \in App /\ app'.calls = [app.calls EXCEPT ![n] = w] /\ app'.act \in {0, n}
          /\ app'.act = n => w # Idle
      BY <1>1, <2>2 DEF Enquires, Creates, Finds, Ensuring
    <3> QED BY <1>1, <3>1
  <2> QED BY <1>5, <2>1, <2>2 DEF EnsureMoves
<1> QED BY <1>1, <1>2, <1>3, <1>4, <1>5 DEF CallShape

\* The registry and the disk.
LEMMA NativeStep ==
  ASSUME TypeOK, Next
  PROVE  reg' \in [made : SUBSET Nat, folder : 1 .. Grants] /\ disk' \in [Conversations -> Root]
<1>1. reg \in [made : SUBSET Nat, folder : 1 .. Grants] /\ disk \in [Conversations -> Root] /\ app \in App
  BY DEF TypeOK
<1>2. CASE SaveAnswer
  <2>1. saves # << >> /\ reg' = reg
    BY <1>2 DEF SaveAnswer
  <2>2. disk' \in {disk, Head(saves).doc}
    BY <1>2 DEF SaveAnswer
  <2> QED BY <1>1, <2>1, <2>2, OldestSave
<1>3. CASE Regrant
  BY <1>1, <1>3, SlotsAssumption DEF Regrant
<1>4. ASSUME NEW n \in 1 .. Slots, MakeWorkspace(n)
      PROVE  reg' \in [made : SUBSET Nat, folder : 1 .. Grants] /\ disk' \in [Conversations -> Root]
  <2>1. app.calls[n].op \in Nat
    BY <1>1 DEF App, Call
  <2> QED BY <1>1, <1>4, <2>1 DEF MakeWorkspace
<1>5. CASE UNCHANGED <<reg, disk>>
  BY <1>1, <1>5
<1> QED BY <1>2, <1>3, <1>4, <1>5 DEF Next, OpenPicker, ClosePicker, Rendered, OtherSave, Relaunch, Edit, Select, Pick, OpenFiles,
              ChatInProject, Retry, LookupAnswered, ContextGuard, CompletionGuard, EnsureStep, Native

LEMMA TypeStep == ASSUME TypeOK, SaveInv, EnsureInv, Next PROVE TypeOK' /\ SaveInv'
<1>1. Shaped
  BY Shapes
<1>2. saves' \in Seq([n : 0 .. Slots, doc : [Conversations -> Root]]) /\ SaveInv' /\ Awaited'
  BY <1>1, SavesStep DEF Shaped
<1>3. app' \in App /\ (app'.act # 0 => app'.calls[app'.act] # Idle)
  BY <1>1, CallsStep DEF Shaped
<1>4. reg' \in [made : SUBSET Nat, folder : 1 .. Grants] /\ disk' \in [Conversations -> Root]
  BY NativeStep
<1> QED BY <1>2, <1>3, <1>4 DEF TypeOK, Awaited, Waits
----------------------------------------------------------------------------
(***************************************************************************)
(* One workspace                                                           *)
(***************************************************************************)
\* EnsureInv is about the calls that ensure a workspace, the create that is
\* remembered and the registry alone.
LEMMA EnsureFrom ==
  ASSUME EnsureInv, reg'.made = reg.made, app'.create = app.create,
         \A m \in 1 .. Slots : app'.calls[m].at \in Ensuring =>
           \/ app'.calls[m] = app.calls[m] /\ app'.act \in {0, app.act}
           \/ app'.calls[m] = app.calls[m] /\ app'.act # m
           \/ /\ app'.calls[m].at = "elist" /\ app'.calls[m].op # 0
              /\ app.create # 0 => app'.calls[m].op = app.create
  PROVE  EnsureInv'
<1>1. ASSUME NEW m \in 1 .. Slots, app'.calls[m].at \in Asking PROVE app'.calls[m] = app.calls[m]
  BY <1>1 DEF Asking
<1>2. \A k : OneWorkspace(k) => OneWorkspace(k)'
  BY <1>1 DEF OneWorkspace
<1>3. \E k \in Nat \ {0} : OneWorkspace(k)'
  BY <1>2 DEF EnsureInv
<1>4. app'.create = 0 /\ reg'.made = {} => \A n \in 1 .. Slots : app'.calls[n].at \notin Asking
  BY <1>1 DEF EnsureInv
<1>5. \A n \in 1 .. Slots : /\ app'.calls[n].at \in Ensuring => app'.calls[n].op # 0
                            /\ app'.calls[n].at = "relist" => app'.calls[n].op \in reg'.made
  BY DEF EnsureInv, Ensuring
<1>6. \A n \in 1 .. Slots :
       app'.act = n /\ app'.calls[n].at = "elist" /\ app'.create # 0 => app'.calls[n].op = app'.create
  BY DEF EnsureInv, Ensuring
<1> QED BY <1>3, <1>4, <1>5, <1>6 DEF EnsureInv

LEMMA EnquiresKeep ==
  ASSUME TypeOK, EnsureInv, NEW n \in 1 .. Slots, NEW w \in Call, Enquires(n, w, app'), reg'.made = reg.made
  PROVE  EnsureInv'
<1>1. app.calls \in [1 .. Slots -> Call]
  BY DEF TypeOK, App
<1>2. PICK k \in Nat \ {0} : OneWorkspace(k)
  BY DEF EnsureInv
<1>3. /\ app'.calls = [app.calls EXCEPT ![n] = w] /\ app'.create = app.create /\ app'.act = n
      /\ w.at \in Asking /\ w.op = app.calls[n].op /\ app.calls[n].at \in Ensuring
      /\ app.calls[n].at = "elist" => app.create = w.op
      /\ w.at = "relist" => w.op \in reg.made
  BY DEF Enquires, Asking
<1>4. w.op # 0
  BY <1>3 DEF EnsureInv
<1>5. w.op = k
  BY <1>2, <1>3, <1>4 DEF OneWorkspace, Asking
<1>6. OneWorkspace(k)'
  BY <1>1, <1>2, <1>3, <1>5 DEF OneWorkspace
<1>7. app.create # 0 \/ reg.made # {}
  BY <1>3, <1>4 DEF EnsureInv, Asking
<1> QED BY <1>1, <1>2, <1>3, <1>4, <1>6, <1>7 DEF EnsureInv, Asking

LEMMA CreatesKeep ==
  ASSUME TypeOK, EnsureInv, NEW n \in 1 .. Slots, NEW w \in Call, Creates(n, w, app'), reg'.made = reg.made
  PROVE  EnsureInv'
<1>1. app.calls \in [1 .. Slots -> Call]
  BY DEF TypeOK, App
<1>2. PICK k \in Nat \ {0} : OneWorkspace(k)
  BY DEF EnsureInv
<1>3. /\ app'.calls = [app.calls EXCEPT ![n] = w] /\ app'.create = w.op /\ app'.act = n /\ app.act = n
      /\ w.at = "create" /\ w.op = app.calls[n].op /\ app.calls[n].at \in Ensuring
      /\ \/ app.calls[n].at = "elist" /\ app.create # w.op /\ reg.made = {}
         \/ app.calls[n].at = "equery"
  BY DEF Creates, Ensuring
<1>4. w.op \in Nat \ {0}
  BY <1>3 DEF EnsureInv, Call
<1>5. OneWorkspace(w.op)'
  <2>1. CASE app.calls[n].at = "elist"
    <3>1. reg.made = {} /\ app.create = 0
      BY <1>3, <2>1 DEF EnsureInv
    <3>2. \A m \in 1 .. Slots : app.calls[m].at \notin Asking
      BY <3>1 DEF EnsureInv
    <3> QED BY <1>1, <1>3, <3>1, <3>2 DEF OneWorkspace
  <2>2. CASE app.calls[n].at = "equery"
    <3>1. w.op = k
      BY <1>2, <1>3, <2>2 DEF OneWorkspace, Asking, Ensuring
    <3> QED BY <1>1, <1>2, <1>3, <3>1 DEF OneWorkspace
  <2> QED BY <1>3, <2>1, <2>2
<1> QED BY <1>1, <1>3, <1>4, <1>5 DEF EnsureInv, Asking

LEMMA FindsKeep ==
  ASSUME TypeOK, EnsureInv, NEW n \in 1 .. Slots, NEW w \in Call, Finds(n, w, app'), reg'.made = reg.made
  PROVE  EnsureInv'
<1>1. app.calls \in [1 .. Slots -> Call]
  BY DEF TypeOK, App
<1>2. PICK k \in Nat \ {0} : OneWorkspace(k)
  BY DEF EnsureInv
<1>3. /\ app'.calls = [app.calls EXCEPT ![n] = w] /\ app'.create = 0 /\ app'.act \in {0, n}
      /\ w.at \notin Ensuring /\ reg.made # {}
  BY DEF Finds, Ensuring
<1>4. OneWorkspace(k)'
  BY <1>1, <1>2, <1>3 DEF OneWorkspace, Asking
<1> QED BY <1>1, <1>3, <1>4 DEF EnsureInv, Asking, Ensuring

LEMMA EnsureKept == ASSUME TypeOK, EnsureInv, CallShape PROVE EnsureInv'
<1>1. app.calls \in [1 .. Slots -> Call] /\ Idle.at \notin Ensuring
  BY BlankTypes DEF TypeOK, App, Ensuring
<1>2. CASE reg'.made = reg.made /\ Stays(app')
  BY <1>2, EnsureFrom DEF Stays
<1>3. ASSUME NEW n \in 1 .. Slots, Ends(n, app'), reg'.made = reg.made PROVE EnsureInv'
  BY <1>1, <1>3, EnsureFrom DEF Ends
<1>4. ASSUME NEW n \in 1 .. Slots, NEW w \in Call, Walks(n, w, app'), reg'.made = reg.made PROVE EnsureInv'
  BY <1>1, <1>4, EnsureFrom DEF Walks
<1>5. ASSUME NEW n \in 1 .. Slots, NEW w \in Call, Ensures(n, w, app'), reg'.made = reg.made PROVE EnsureInv'
  BY <1>1, <1>5, EnsureFrom DEF Ensures
<1>6. ASSUME NEW n \in 1 .. Slots, EnsureMoves(n, app'), reg'.made = reg.made PROVE EnsureInv'
  BY <1>3, <1>6, EnquiresKeep, CreatesKeep, FindsKeep DEF EnsureMoves
<1>7. ASSUME NEW n \in 1 .. Slots, app' = app, app.calls[n].at \in {"create", "create2"},
             reg'.made = reg.made \cup {app.calls[n].op}
      PROVE  EnsureInv'
  <2>1. PICK k \in Nat \ {0} : OneWorkspace(k)
    BY DEF EnsureInv
  <2>2. OneWorkspace(k)'
    BY <1>7, <2>1 DEF OneWorkspace, Asking, Ensuring
  <2>3. IsFiniteSet(reg'.made)
    <3>1. IsFiniteSet(reg.made)
      BY DEF EnsureInv
    <3>2. \A x : IsFiniteSet(reg.made \cup {x})
      BY <3>1, FS_AddElement
    <3> QED BY <1>7, <3>2
  <2> QED BY <1>7, <2>2, <2>3 DEF EnsureInv
<1>8. CASE /\ reg'.made = reg.made /\ app' \in App /\ app'.act = 0 /\ app'.create = 0
           /\ \A n \in 1 .. Slots : app'.calls[n] = Idle
  <2>1. PICK k \in Nat \ {0} : OneWorkspace(k)
    BY DEF EnsureInv
  <2>2. OneWorkspace(k)'
    BY <1>1, <1>8, <2>1 DEF OneWorkspace, Asking
  <2> QED BY <1>1, <1>8, <2>2 DEF EnsureInv, Asking, Ensuring
<1> QED BY <1>2, <1>3, <1>4, <1>5, <1>6, <1>7, <1>8 DEF CallShape
----------------------------------------------------------------------------
(***************************************************************************)
(* The inductive invariant, and what follows from it                       *)
(***************************************************************************)
BindInv == TypeOK /\ SaveInv /\ EnsureInv

LEMMA InitInv == ASSUME Init PROVE BindInv
<1> DEFINE C == [n \in 1 .. Slots |-> Idle]
           R == [c \in Conversations |-> Row(1, NoRoot)]
           s == CHOOSE c \in Conversations : TRUE
           D == [c \in Conversations |-> NoRoot]
<1>1. s \in Conversations
  BY SlotsAssumption
<1>2. /\ C \in [1 .. Slots -> Call] /\ R \in [Conversations -> RowType] /\ D \in [Conversations -> Root]
      /\ \A n \in 1 .. Slots : C[n] = Idle
  BY BlankTypes
<1>3. 0 \in 0 .. Slots /\ 1 \in 1 .. Grants
  BY SlotsAssumption
<1>4. /\ app = [sel |-> s, seen |-> s, epoch |-> 1, nonce |-> 1, sheet |-> FALSE, banner |-> FALSE, act |-> 0,
                latch |-> NoLatch, create |-> 0, pub |-> NoPub, rows |-> R, calls |-> C]
      /\ reg = [made |-> {}, folder |-> 1] /\ saves = << >> /\ disk = D
  BY DEF Init
<1> HIDE DEF C, R, s, D
<1>5. app \in App /\ app.calls = C /\ app.act = 0 /\ app.create = 0
  BY <1>1, <1>2, <1>3, <1>4, BlankTypes DEF App
<1>6. reg \in [made : SUBSET Nat, folder : 1 .. Grants] /\ reg.made = {}
  BY <1>3, <1>4
<1>7. \A n \in 1 .. Slots : app.calls[n].at = "idle"
  BY <1>2, <1>5, BlankTypes
<1>8. saves \in Seq([n : 0 .. Slots, doc : [Conversations -> Root]]) /\ DOMAIN saves = {}
  BY <1>4
<1>9. TypeOK /\ SaveInv
  BY <1>2, <1>4, <1>5, <1>6, <1>7, <1>8 DEF TypeOK, SaveInv
<1>10. OneWorkspace(1)
  BY <1>5, <1>6, <1>7 DEF OneWorkspace, Asking, Ensuring
<1>11. EnsureInv
  <2>1. IsFiniteSet({})
    BY FS_EmptySet
  <2> QED BY <1>5, <1>6, <1>7, <1>10, <2>1 DEF EnsureInv, Asking, Ensuring
<1> QED BY <1>9, <1>11 DEF BindInv

LEMMA NextInv == ASSUME BindInv, Next PROVE BindInv'
<1>1. TypeOK' /\ SaveInv'
  BY TypeStep DEF BindInv
<1>2. EnsureInv'
  BY Shapes, EnsureKept DEF BindInv, Shaped
<1> QED BY <1>1, <1>2 DEF BindInv

LEMMA StutterInv == ASSUME BindInv, UNCHANGED vars PROVE BindInv'
<1>1. app' = app /\ reg' = reg /\ saves' = saves /\ disk' = disk
  BY DEF vars
<1>2. \A k : OneWorkspace(k) => OneWorkspace(k)'
  BY <1>1 DEF OneWorkspace
<1>3. TypeOK' /\ SaveInv'
  BY <1>1 DEF BindInv, TypeOK, SaveInv
<1>4. EnsureInv'
  BY <1>1, <1>2 DEF BindInv, EnsureInv
<1> QED BY <1>3, <1>4 DEF BindInv

LEMMA SpecInv == Spec => []BindInv
<1>1. Init => BindInv
  BY InitInv
<1>2. BindInv /\ [Next]_vars => BindInv'
  BY NextInv, StutterInv
<1> QED BY <1>1, <1>2, PTL DEF Spec

\* The controller, the registry and the saves are what their fields say.
THEOREM TypeCorrect == Spec => []TypeOK
<1>1. BindInv => TypeOK
  BY DEF BindInv
<1> QED BY <1>1, SpecInv, PTL

\* However often Files is opened, and whatever is lost, closed or selected
\* meanwhile, the app creates one workspace: the operation that is remembered,
\* the one the calls ask about and the one in the registry are the same.
THEOREM OneWorkspaceCreated == Spec => []CreatedOnce
<1>1. BindInv => CreatedOnce
  <2> SUFFICES ASSUME BindInv PROVE CreatedOnce
    OBVIOUS
  <2>1. PICK k \in Nat : reg.made \subseteq {k}
    BY DEF BindInv, EnsureInv, OneWorkspace
  <2>2. CASE reg.made = {}
    <3>1. Cardinality({}) = 0
      BY FS_EmptySet
    <3> QED BY <2>2, <3>1 DEF CreatedOnce
  <2>3. CASE reg.made = {k}
    <3>1. Cardinality({k}) = 1
      BY FS_Singleton
    <3> QED BY <2>3, <3>1 DEF CreatedOnce
  <2> QED BY <2>1, <2>2, <2>3
<1> QED BY <1>1, SpecInv, PTL

\* A binding appears only through the call that owns its conversation, as the
\* binding a refused write replaced, or from the disk at a start.
THEOREM OwnersBind == Spec => BindsTheOwner
<1>1. BindInv /\ [Next]_vars => [OwnerBinds]_vars
  BY Shapes DEF BindInv, Shaped
<1>2. [][OwnerBinds]_vars => BindsTheOwner
  BY PTL DEF OwnerBinds, BindsTheOwner
<1> QED BY <1>1, <1>2, SpecInv, PTL DEF Spec

----------------------------------------------------------------------------
(***************************************************************************)
(* What is shown as committed is on disk: the invariant.                   *)
(***************************************************************************)
Binding == Place \ (Ensuring \cup {"idle"})

\* The candidate of a call is its root as long as the row is the call's.
HoldsBind(w) == app.rows[w.conv].ver = w.cand => app.rows[w.conv].bind = w.root

\* A latched write is the last one: no other waits for its save, and the only
\* active call is its retry.
LatchInv ==
  /\ app.latch # NoLatch =>
       /\ app.latch.w.at = "save" /\ app.latch.w.conv \in Conversations /\ HoldsBind(app.latch.w)
       /\ \A n \in 1 .. Slots : app.calls[n].at # "save"
       /\ app.act # 0 => app.calls[app.act].at = "resave"
  /\ \A n \in 1 .. Slots : app.calls[n].at = "resave" =>
       app.act = n /\ app.latch # NoLatch /\ app.latch.w = [app.calls[n] EXCEPT !.at = "save"]

\* The save of the active call is the youngest that a call waits for.
QueueInv ==
  \A i, j \in DOMAIN saves : saves[i].n # 0 /\ app.act = saves[i].n /\ j > i => saves[j].n = 0

\* The rows, also those that a refused write would bring back, and the document
\* of a save have the root of the call that waits for it, and so has what is
\* shown of the active one.
CandidateInv ==
  /\ \A n \in 1 .. Slots : Waits(app.calls[n]) => app.calls[n].conv \in Conversations /\ HoldsBind(app.calls[n])
  /\ \A n, m \in 1 .. Slots : LET w == app.calls[n]
                                  v == app.calls[m]
       IN n # m /\ Waits(w) /\ Waits(v) /\ v.conv = w.conv /\ v.before.ver = w.cand => v.before.bind = w.root
  /\ \A n \in 1 .. Slots : app.act = n /\ app.calls[n].at \in Binding =>
       /\ app.pub.conv = app.calls[n].conv
       /\ Waits(app.calls[n]) => app.pub.root = app.calls[n].root
  /\ \A i \in DOMAIN saves : saves[i].n # 0 =>
       LET w == app.calls[saves[i].n]
       IN \/ saves[i].doc[w.conv] = w.root
          \/ w.at = "resave" /\ app.rows[w.conv].ver # w.cand

SavedInv == LatchInv /\ QueueInv /\ CandidateInv
----------------------------------------------------------------------------
(***************************************************************************)
(* Steps that neither start nor answer a save of a call                    *)
(***************************************************************************)
\* The rows stay or have a new version, the waiting calls stay, and the active
\* call is the same one, none, or one that does not wait.
Steady(b) ==
  /\ b.latch = app.latch
  /\ \A c \in Conversations : b.rows[c] = app.rows[c] \/ b.rows[c].ver = FreshVer(app)
  /\ \A m \in 1 .. Slots : Waits(app.calls[m]) \/ Waits(b.calls[m]) => b.calls[m] = app.calls[m]
  /\ b.pub.ph = "committed" => b.pub = app.pub
  /\ \/ b.act = app.act /\ b.act # 0 /\ b.pub = app.pub /\ b.calls[b.act] = app.calls[b.act]
     \/ b.act = 0 /\ (app.act = 0 \/ app.latch = NoLatch)
     \/ /\ b.act # 0 /\ app.latch = NoLatch /\ ~Waits(b.calls[b.act])
        /\ b.calls[b.act].at \in Binding => b.pub.conv = b.calls[b.act].conv

\* An app in which at most rows have changed, to new versions.
Like(a) ==
  /\ a \in App /\ a.calls = app.calls /\ a.latch = app.latch /\ a.act = app.act /\ a.pub = app.pub
  /\ \A c \in Conversations : a.rows[c] = app.rows[c] \/ a.rows[c].ver = FreshVer(app)

LEMMA SteadySurfaces == ASSUME TypeOK, NEW a, Like(a), NEW b, Surfaces(a, b) PROVE Steady(b)
  BY BlankTypes DEF Like, Surfaces, Steady, TypeOK, App

\* An active call that does not wait is not latched.
LEMMA NotLatched ==
  ASSUME TypeOK, LatchInv, NEW n \in 1 .. Slots, app.act = n, ~Waits(app.calls[n])
  PROVE  app.latch = NoLatch
  BY DEF LatchInv, Waits

LEMMA SteadyEnds ==
  ASSUME TypeOK, LatchInv, NEW a, Like(a), NEW n \in 1 .. Slots, ~Waits(app.calls[n]), NEW res
  PROVE  Steady(Finish(a, n, res))
<1> DEFINE b == Finish(a, n, res)
<1>1. Ended(a, n, b)
  BY FinishEnds DEF Like
<1>2. app.calls \in [1 .. Slots -> Call] /\ app.act \in 0 .. Slots
  BY DEF TypeOK, App
<1> HIDE DEF b
<1>3. \A m \in 1 .. Slots : Waits(app.calls[m]) \/ Waits(b.calls[m]) => b.calls[m] = app.calls[m]
  BY <1>1, <1>2, BlankTypes DEF Ended, Like, Waits
<1>4. \/ b.act = app.act /\ b.act # 0 /\ b.pub = app.pub /\ b.calls[b.act] = app.calls[b.act]
      \/ b.act = 0 /\ (app.act = 0 \/ app.latch = NoLatch)
  <2>1. CASE b.act # 0
    <3>1. b.act = app.act /\ b.act # n /\ b.pub = app.pub /\ b.calls = [app.calls EXCEPT ![n] = Idle]
      BY <1>1, <2>1 DEF Ended, Like
    <3>2. b.act \in 1 .. Slots
      BY <1>2, <2>1, <3>1
    <3> QED BY <1>2, <2>1, <3>1, <3>2
  <2>2. CASE b.act = 0
    <3>1. app.act \in {0, n} \/ app.latch = NoLatch
      BY <1>1, <2>2 DEF Ended, Like
    <3> QED BY <2>2, <3>1, NotLatched
  <2> QED BY <2>1, <2>2
<1>5. b.latch = app.latch /\ b.rows = a.rows /\ (b.pub.ph = "committed" => b.pub = app.pub)
  BY <1>1, BlankTypes DEF Ended, Like
<1>6. Steady(b)
  BY <1>3, <1>4, <1>5 DEF Steady, Like
<1> QED BY <1>6 DEF b

LEMMA SteadyMoves ==
  ASSUME TypeOK, LatchInv, CandidateInv, NEW a, Like(a), NEW n \in 1 .. Slots, ~Waits(app.calls[n]),
         NEW w \in Call, ~Waits(w), w.conv = app.calls[n].conv,
         w.at \in Binding => app.calls[n].at \in Binding,
         NEW b, b = [a EXCEPT !.calls[n] = w]
  PROVE  Steady(b)
<1>1. Moved(a, n, w, b)
  BY CallMoves DEF Like
<1>2. app.calls \in [1 .. Slots -> Call] /\ app.act \in 0 .. Slots
  BY DEF TypeOK, App
<1>3. \A m \in 1 .. Slots : Waits(app.calls[m]) \/ Waits(b.calls[m]) => b.calls[m] = app.calls[m]
  BY <1>1, <1>2 DEF Moved, Like
<1>4. CASE app.act = n
  <2>1. app.latch = NoLatch /\ b.act = n /\ b.calls[n] = w /\ b.pub = app.pub
    BY ZenonT(30), <1>1, <1>2, <1>4, NotLatched DEF Moved, Like
  <2>2. w.at \in Binding => b.pub.conv = w.conv
    BY <1>4, <2>1 DEF CandidateInv
  <2> QED BY <1>1, <1>3, <2>1, <2>2 DEF Steady, Moved, Like
<1>5. CASE app.act # n
  <2>1. b.act = app.act /\ b.pub = app.pub /\ b.calls = [app.calls EXCEPT ![n] = w]
    BY <1>1 DEF Moved, Like
  <2>2. app.act # 0 => b.calls[b.act] = app.calls[b.act]
    <3>1. app.act # 0 => app.act \in 1 .. Slots
      BY <1>2
    <3> QED BY <1>2, <1>5, <2>1, <3>1
  <2> QED BY <1>1, <1>3, <2>1, <2>2 DEF Steady, Moved, Like
<1> QED BY <1>4, <1>5

\* A bind that starts, or is refused, in a slot that is free or that is the
\* active call's.
LEMMA SteadyBinds ==
  ASSUME TypeOK, NEW n \in 1 .. Slots, NEW a, a \in App, a.calls = app.calls, a.latch = app.latch, a.pub = app.pub,
         \A c \in Conversations : a.rows[c] = app.rows[c] \/ a.rows[c].ver = FreshVer(app),
         \/ a.act = app.act /\ app.act # n
         \/ a.act = 0 /\ app.latch = NoLatch,
         ~Waits(app.calls[n]), NEW w \in Call, ~Waits(w),
         NEW b, Missed(a, n, b) \/ Binds(a, n, w, b)
  PROVE  Steady(b)
<1>1. app.calls \in [1 .. Slots -> Call] /\ app.act \in 0 .. Slots
  BY DEF TypeOK, App
<1>2. CASE Missed(a, n, b)
  <2>1. b.calls = [app.calls EXCEPT ![n] = Idle] /\ b.rows = a.rows /\ b.latch = app.latch
    BY <1>2 DEF Missed
  <2>2. \A m \in 1 .. Slots : Waits(app.calls[m]) \/ Waits(b.calls[m]) => b.calls[m] = app.calls[m]
    BY <1>1, <2>1, BlankTypes DEF Waits
  <2>3. \/ b.act = app.act /\ b.act # 0 /\ b.pub = app.pub /\ b.calls[b.act] = app.calls[b.act]
        \/ b.act = 0 /\ (app.act = 0 \/ app.latch = NoLatch)
    <3>1. b.act = 0 => app.act = 0 \/ app.latch = NoLatch
      BY <1>2 DEF Missed
    <3>2. b.act # 0 => b.act = app.act /\ b.act # n /\ b.pub = app.pub
      BY <1>2 DEF Missed
    <3>3. b.act # 0 => b.act \in 1 .. Slots
      BY <1>1, <3>2
    <3> QED BY <1>1, <2>1, <3>1, <3>2, <3>3
  <2>4. b.pub.ph = "committed" => b.pub = app.pub
    BY <1>2, BlankTypes DEF Missed
  <2> QED BY <2>1, <2>2, <2>3, <2>4 DEF Steady
<1>3. CASE Binds(a, n, w, b)
  <2> DEFINE v == Captured(a, w)
  <2>1. w.conv \in Conversations
    BY <1>3 DEF Binds, App
  <2>2. v.at = w.at /\ v.conv = w.conv
    BY <2>1, CapturedCall
  <2>3. b.calls = [app.calls EXCEPT ![n] = v] /\ b.act = n /\ b.latch = app.latch /\ app.latch = NoLatch
        /\ b.rows = a.rows /\ b.pub.ph = "busy" /\ b.pub.conv = w.conv /\ n # 0
    BY <1>3 DEF Binds
  <2> HIDE DEF v
  <2>4. b.calls[b.act] = v /\ ~Waits(v)
    BY <1>1, <2>2, <2>3 DEF Waits
  <2>5. \A m \in 1 .. Slots : Waits(app.calls[m]) \/ Waits(b.calls[m]) => b.calls[m] = app.calls[m]
    BY <1>1, <2>3, <2>4
  <2> QED BY <2>2, <2>3, <2>4, <2>5 DEF Steady
<1> QED BY <1>2, <1>3

\* The steps of the user on the surfaces and the conversations.
LEMMA SteadyUser ==
  ASSUME TypeOK, OpenPicker \/ ClosePicker \/ Rendered \/ (\E c \in Conversations : Edit(c) \/ Select(c))
  PROVE  Steady(app')
<1>1. app \in App /\ Like(app)
  BY DEF TypeOK, Like
<1>2. CASE OpenPicker
  <2>1. app' = [app EXCEPT !.nonce = FreshNonce(app), !.sheet = TRUE] /\ FreshNonce(app) \in Nat
    BY <1>2, Fresh DEF OpenPicker
  <2>2. Surfaces(app, app')
    BY <1>1, <2>1 DEF Surfaces, App
  <2> QED BY <1>1, <2>2, SteadySurfaces
<1>3. CASE ClosePicker
  BY <1>1, <1>3, ClosedSurfaces, SteadySurfaces DEF ClosePicker
<1>4. CASE Rendered
  <2> DEFINE a == [app EXCEPT !.seen = app.sel]
  <2>1. app' \in {a, Invalidated(a)}
    BY <1>4 DEF Rendered
  <2>2. Like(a)
    BY <1>1 DEF App, Like
  <2> HIDE DEF a
  <2>3. Surfaces(a, a) /\ Surfaces(a, Invalidated(a))
    BY <2>2, InvalidatedSurfaces DEF Like, Surfaces
  <2> QED BY <2>1, <2>2, <2>3, SteadySurfaces
<1>5. ASSUME NEW c \in Conversations, Edit(c) PROVE Steady(app')
  <2> DEFINE v == FreshVer(app)
  <2>1. app' = [app EXCEPT !.rows[c].ver = v] /\ v \in Nat
    BY <1>5, Fresh DEF Edit
  <2>2. app.rows \in [Conversations -> RowType] /\ app.rows[c] \in RowType
    BY <1>1 DEF App
  <2> HIDE DEF v
  <2>3. [app.rows EXCEPT ![c].ver = v] \in [Conversations -> RowType] /\ [app.rows EXCEPT ![c].ver = v][c].ver = v
        /\ \A d \in Conversations \ {c} : [app.rows EXCEPT ![c].ver = v][d] = app.rows[d]
    BY <2>1, <2>2 DEF RowType
  <2>4. app'.rows = [app.rows EXCEPT ![c].ver = v] /\ app' = [app EXCEPT !.rows = [app.rows EXCEPT ![c].ver = v]]
    BY <1>1, <2>1 DEF App
  <2>5. Like(app')
    BY <1>1, <2>3, <2>4 DEF Like, App, v
  <2>6. Surfaces(app', app')
    BY <2>5 DEF Surfaces, Like
  <2> QED BY <2>5, <2>6, SteadySurfaces
<1>6. ASSUME NEW c \in Conversations, Select(c) PROVE Steady(app')
  <2>1. Like(app')
    BY <1>1, <1>6 DEF Select, Like, App
  <2>2. Surfaces(app', app')
    BY <2>1 DEF Surfaces, Like
  <2> QED BY <2>1, <2>2, SteadySurfaces
<1> QED BY <1>2, <1>3, <1>4, <1>5, <1>6

\* The calls the user starts.
LEMMA SteadyStarts ==
  ASSUME TypeOK, EnsureInv, NEW n \in 1 .. Slots, Pick(n) \/ ChatInProject(n) \/ OpenFiles(n)
  PROVE  Steady(app')
<1>1. app \in App /\ app.calls[n] = Idle /\ ~Waits(app.calls[n]) /\ app.act # n
      /\ app.calls \in [1 .. Slots -> Call]
  <2>1. app.calls[n] = Idle /\ app \in App
    BY DEF TypeOK, Pick, ChatInProject, OpenFiles, Free
  <2>2. app.act # n
    BY <2>1 DEF TypeOK
  <2> QED BY <2>1, <2>2, BlankTypes DEF App, Waits
<1>2. CASE Pick(n)
  <2>1. PICK ws \in {0} \cup reg.made : app' = Bind(app, n, Request("pick", "list", <<ws, 1>>, app.nonce))
    BY <1>2 DEF Pick
  <2> DEFINE w == Request("pick", "list", <<ws, 1>>, app.nonce)
  <2>2. w \in Call /\ w.at = "list"
    <3>1. <<ws, 1>> \in Root
      <4>1. ws \in Nat /\ 1 \in 0 .. Grants
        BY SlotsAssumption DEF TypeOK
      <4> QED BY <4>1 DEF Root
    <3>2. "list" \in Place /\ app.nonce \in Nat /\ IsFiniteSet(reg.made)
      BY <1>1 DEF App, Place, EnsureInv
    <3> QED BY <3>1, <3>2, RequestType
  <2> HIDE DEF w
  <2>3. Missed(app, n, app') \/ Binds(app, n, w, app')
    BY <1>1, <2>1, <2>2, BindStarts DEF w
  <2> QED BY <1>1, <2>2, <2>3, SteadyBinds DEF Waits
<1>3. CASE ChatInProject(n)
  <2>1. PICK c \in Conversations :
          LET a == [app EXCEPT !.sel = c, !.rows[c] = Row(FreshVer(app), NoRoot)]
          IN app' = Bind(a, n, [Request("project", "resolve", <<0, reg.folder>>, 0) EXCEPT !.conv = c])
    BY <1>3 DEF ChatInProject
  <2> DEFINE r == Row(FreshVer(app), NoRoot)
             q == Request("project", "resolve", <<0, reg.folder>>, 0)
             w == [q EXCEPT !.conv = c]
             a == [app EXCEPT !.sel = c, !.rows[c] = r]
  <2>2. r \in RowType /\ r.ver = FreshVer(app)
    BY Fresh, BlankTypes
  <2>3. q \in Call /\ q.at = "resolve"
    <3>1. <<0, reg.folder>> \in Root
      BY DEF TypeOK, Root
    <3>2. "resolve" \in Place /\ IsFiniteSet(reg.made)
      BY DEF Place, EnsureInv
    <3> QED BY <3>1, <3>2, RequestType
  <2>4. app' = Bind(a, n, w)
    BY <2>1
  <2> HIDE DEF r, q
  <2>5. w \in Call /\ w.at = "resolve"
    BY <2>3 DEF Call
  <2>6. /\ a \in App /\ a.calls = app.calls /\ a.latch = app.latch /\ a.pub = app.pub /\ a.act = app.act
        /\ a.rows = [app.rows EXCEPT ![c] = r]
    BY <1>1, <2>2 DEF App
  <2> HIDE DEF a, w
  <2>7. \A d \in Conversations : a.rows[d] = app.rows[d] \/ a.rows[d].ver = FreshVer(app)
    <3>1. app.rows \in [Conversations -> RowType]
      BY <1>1 DEF App
    <3> QED BY <2>2, <2>6, <3>1
  <2>8. Missed(a, n, app') \/ Binds(a, n, w, app')
    BY <2>4, <2>5, <2>6, BindStarts
  <2> QED BY <1>1, <2>5, <2>6, <2>7, <2>8, SteadyBinds DEF Waits
<1>4. CASE OpenFiles(n)
  <2> DEFINE a == [app EXCEPT !.nonce = FreshNonce(app)]
             w == Request("files", "elist", NoRoot, a.nonce)
             op == IF a.create # 0 THEN a.create ELSE FreshOp(a)
             u == [w EXCEPT !.op = op]
             v == Captured(a, u)
  <2>1. app' = Ensure(a, n, w)
    BY <1>4 DEF OpenFiles
  <2>2. FreshNonce(app) \in Nat
    BY Fresh
  <2>3. Like(a) /\ a.nonce \in Nat
    BY <1>1, <2>2 DEF App, Like
  <2>4. w \in Call /\ w.at = "elist" /\ w.conv \in Conversations
    <3>1. "elist" \in Place /\ IsFiniteSet(reg.made) /\ NoRoot \in Root
      BY BlankTypes DEF Place, Ensuring, EnsureInv
    <3> QED BY <2>3, <3>1, RequestType
  <2> HIDE DEF a, w
  <2>5. CASE a.latch # NoLatch \/ a.act # 0
    <3>1. app' = Told(a, w, "blocked")
      BY <2>1, <2>5 DEF Ensure
    <3> QED BY <2>3, <3>1, ToldSurfaces, SteadySurfaces DEF Like
  <2>6. CASE a.latch = NoLatch /\ a.act = 0
    <3>1. op \in Nat
      <4>1. a.create \in Nat /\ IsFiniteSet(reg.made)
        BY <2>3 DEF Like, App, EnsureInv
      <4> QED BY <4>1, Fresh
    <3>2. app' = [a EXCEPT !.act = n, !.calls[n] = v]
      BY <2>1, <2>6 DEF Ensure
    <3> HIDE DEF op
    <3>3. u \in Call /\ u.at = "elist" /\ u.conv = w.conv
      BY <2>4, <3>1 DEF Call
    <3> HIDE DEF u
    <3>4. v.at = "elist"
      BY <2>3, <2>4, <3>3, CapturedCall DEF Like
    <3> HIDE DEF v
    <3>5. /\ app'.calls = [app.calls EXCEPT ![n] = v] /\ app'.act = n /\ app'.rows = a.rows
          /\ app'.latch = app.latch /\ app'.pub = app.pub /\ app.latch = NoLatch
      BY <2>3, <2>6, <3>2 DEF Like, App
    <3>6. ~Waits(v) /\ v.at \notin Binding /\ n # 0
      BY <3>4 DEF Waits, Binding, Ensuring
    <3> QED BY <1>1, <2>3, <3>5, <3>6 DEF Steady, Like
  <2> QED BY <2>5, <2>6
<1> QED BY <1>2, <1>3, <1>4

\* The answers a call gets before its save.
LEMMA SteadyAnswers ==
  ASSUME TypeOK, EnsureInv, LatchInv, CandidateInv, NEW n \in 1 .. Slots,
         LookupAnswered(n) \/ ContextGuard(n) \/ EnsureStep(n)
  PROVE  Steady(app')
<1>1. app \in App /\ Like(app) /\ ~Waits(app.calls[n]) /\ app.calls[n] \in Call
  BY DEF TypeOK, Like, App, LookupAnswered, ContextGuard, EnsureStep, Waits, Ensuring
<1>2. ASSUME NEW res, app' = Finish(app, n, res) PROVE Steady(app')
  BY <1>1, <1>2, SteadyEnds
<1>3. CASE LookupAnswered(n)
  <2>1. app.calls[n].at \in Binding
    BY <1>3 DEF LookupAnswered, Binding, Place, Ensuring
  <2>2. ASSUME NEW w \in Call, app' = [app EXCEPT !.calls[n] = w], w.conv = app.calls[n].conv,
               w.at \in {"resolve", "lookup", "resolve2", "lookup2", "context"}
        PROVE  Steady(app')
    BY <1>1, <2>1, <2>2, SteadyMoves DEF Waits
  <2> QED BY <1>2, <1>3, <2>2, LookupCases
<1>4. CASE ContextGuard(n)
  <2>1. app.calls[n].at \in Binding
    BY <1>4 DEF ContextGuard, Binding, Place, Ensuring
  <2>2. \A a : Rebound(a) => Like(a)
    BY DEF Rebound, Alike, Like
  <2>3. ASSUME NEW a, Like(a), NEW w \in Call, app' = [a EXCEPT !.calls[n] = w], w.conv = app.calls[n].conv,
               w.at = "completion"
        PROVE  Steady(app')
    BY <1>1, <2>1, <2>3, SteadyMoves DEF Waits
  <2>4. ASSUME NEW a, Like(a), app' = Stale(a, n) PROVE Steady(app')
    BY <1>1, <2>4, SteadyEnds DEF Stale
  <2> QED BY <1>1, <1>2, <1>4, <2>2, <2>3, <2>4, ContextCases
<1>5. CASE EnsureStep(n)
  <2>1. PICK ans \in {"ok", "bad"} : app' = EnsureAnswered(app, n, ans)
    BY <1>5 DEF EnsureStep
  <2>2. ASSUME NEW at \in Asking, app' = Go(app, n, at) PROVE Steady(app')
    <3> DEFINE w == [app.calls[n] EXCEPT !.at = at]
    <3>1. w \in Call /\ w.conv = app.calls[n].conv /\ w.at = at
      BY <1>1 DEF Call, Asking, Place
    <3>2. app' = [app EXCEPT !.calls[n] = w]
      BY <2>2 DEF Go
    <3> HIDE DEF w
    <3>3. ~Waits(w) /\ w.at \notin Binding
      BY <3>1 DEF Waits, Binding, Asking, Ensuring
    <3> QED BY <1>1, <3>1, <3>2, <3>3, SteadyMoves
  <2>3. ASSUME app.act = n, app' = Create(app, n) PROVE Steady(app')
    <3>1. /\ app'.calls = [app.calls EXCEPT ![n] = [app.calls[n] EXCEPT !.at = "create"]] /\ app'.act = n
          /\ app'.rows = app.rows /\ app'.latch = app.latch /\ app'.pub.ph = "busy"
      BY <1>1, <2>3 DEF Create, App
    <3>2. app.latch = NoLatch /\ n # 0 /\ app.calls \in [1 .. Slots -> Call]
      BY <1>1, <2>3, NotLatched DEF App
    <3> DEFINE w == [app.calls[n] EXCEPT !.at = "create"]
    <3>3. w.at = "create" /\ ~Waits(w) /\ w.at \notin Binding
      BY <1>1 DEF Call, Waits, Binding, Ensuring
    <3> HIDE DEF w
    <3>4. app'.calls = [app.calls EXCEPT ![n] = w]
      BY <3>1 DEF w
    <3> QED BY <1>1, <3>1, <3>2, <3>3, <3>4 DEF Steady
  <2>4. ASSUME app.act = n, NEW a, NEW w \in Call, w.at = "resolve", Opened(a),
               Missed(a, n, app') \/ Binds(a, n, w, app')
        PROVE  Steady(app')
    <3>1. app.latch = NoLatch /\ ~Waits(w)
      BY <1>1, <2>4, NotLatched DEF Waits
    <3> QED BY <1>1, <2>4, <3>1, SteadyBinds DEF Opened
  <2> QED BY <1>2, <1>5, <2>1, <2>2, <2>3, <2>4, EnsureCases DEF EnsureStep
<1> QED BY <1>3, <1>4, <1>5
----------------------------------------------------------------------------
(***************************************************************************)
(* The invariant is kept                                                   *)
(***************************************************************************)
\* The new version is nobody's.
LEMMA NewVersion ==
  /\ \A c \in Conversations : app.rows[c].ver # FreshVer(app)
  /\ \A n \in 1 .. Slots : app.calls[n].cand # FreshVer(app) /\ app.calls[n].before.ver # FreshVer(app)
  /\ app.latch.w.cand # FreshVer(app) /\ app.latch.w.before.ver # FreshVer(app)
<1>1. app.latch.w \in Held(app) /\ \A n \in 1 .. Slots : app.calls[n] \in Held(app)
  BY DEF Held
<1> QED BY <1>1, Fresh

\* A save is one that its call waits for.
LEMMA SaverWaits ==
  ASSUME TypeOK, NEW i \in DOMAIN saves, saves[i].n # 0
  PROVE  saves[i].n \in 1 .. Slots /\ Waits(app.calls[saves[i].n])
<1> DEFINE T == [n : 0 .. Slots, doc : [Conversations -> Root]]
<1>1. saves \in Seq(T)
  BY DEF TypeOK
<1>2. saves[i] \in T
  <2> HIDE DEF T
  <2> QED BY <1>1
<1>3. saves[i].n \in 1 .. Slots
  BY <1>2
<1> QED BY <1>3 DEF TypeOK, Waits

\* A steady step; somebody else may ask for a save.
LEMMA SteadyKeeps ==
  ASSUME BindInv, SavedInv, TypeOK', Steady(app'),
         saves' = saves \/ \E d : saves' = Append(saves, [n |-> 0, doc |-> d])
  PROVE  SavedInv'
<1>1. /\ app \in App /\ app' \in App /\ saves \in Seq([n : 0 .. Slots, doc : [Conversations -> Root]])
      /\ app.calls \in [1 .. Slots -> Call] /\ app'.act \in 0 .. Slots
  BY DEF BindInv, TypeOK, App
<1>2. \A i \in DOMAIN saves' : saves'[i].n # 0 => i \in DOMAIN saves /\ saves'[i] = saves[i]
  <2>1. ASSUME NEW d, saves' = Append(saves, [n |-> 0, doc |-> d])
        PROVE  \A i \in DOMAIN saves' : saves'[i].n # 0 => i \in DOMAIN saves /\ saves'[i] = saves[i]
    <3> DEFINE e == [n |-> 0, doc |-> d]
    <3>1. e.n = 0 /\ saves' = Append(saves, e)
      BY <2>1
    <3> HIDE DEF e
    <3>2. /\ Len(saves) \in Nat /\ DOMAIN saves = 1 .. Len(saves) /\ DOMAIN saves' = 1 .. Len(saves) + 1
          /\ saves'[Len(saves) + 1] = e /\ \A i \in DOMAIN saves : saves'[i] = saves[i]
      BY <1>1, <3>1
    <3>3. ASSUME NEW i \in DOMAIN saves', saves'[i].n # 0 PROVE i \in DOMAIN saves /\ saves'[i] = saves[i]
      <4>1. i # Len(saves) + 1
        BY <3>1, <3>2, <3>3
      <4>2. i \in DOMAIN saves
        BY <3>2, <4>1
      <4> QED BY <3>2, <4>2
    <3> QED BY <3>3
  <2> QED BY <2>1
<1>3. app'.latch = app.latch
  BY DEF Steady
<1>4. \A m \in 1 .. Slots : Waits(app.calls[m]) \/ Waits(app'.calls[m]) => app'.calls[m] = app.calls[m]
  BY DEF Steady
<1>5. ASSUME NEW w, w.conv \in Conversations, w.cand # FreshVer(app), HoldsBind(w)
      PROVE  app'.rows[w.conv].ver = w.cand => app'.rows[w.conv].bind = w.root
  BY <1>5 DEF Steady, HoldsBind
<1>6. LatchInv'
  <2>1. ASSUME app.latch # NoLatch
        PROVE  /\ app.latch.w.at = "save" /\ app.latch.w.conv \in Conversations
               /\ app'.rows[app.latch.w.conv].ver = app.latch.w.cand => app'.rows[app.latch.w.conv].bind = app.latch.w.root
               /\ \A n \in 1 .. Slots : app'.calls[n].at # "save"
               /\ app'.act # 0 => app'.calls[app'.act].at = "resave"
    <3>1. app.latch.w.at = "save" /\ app.latch.w.conv \in Conversations /\ HoldsBind(app.latch.w)
      BY <2>1 DEF SavedInv, LatchInv
    <3>2. \A n \in 1 .. Slots : app'.calls[n].at # "save"
      BY <1>4, <2>1 DEF SavedInv, LatchInv, Waits
    <3>3. app'.act # 0 => app'.calls[app'.act].at = "resave"
      BY <2>1 DEF SavedInv, LatchInv, Steady
    <3> QED BY <1>5, <3>1, <3>2, <3>3, NewVersion
  <2>2. ASSUME NEW n \in 1 .. Slots, app'.calls[n].at = "resave"
        PROVE  app'.act = n /\ app.latch # NoLatch /\ app.latch.w = [app'.calls[n] EXCEPT !.at = "save"]
    <3>1. app'.calls[n] = app.calls[n]
      BY <1>4, <2>2 DEF Waits
    <3>2. app.act = n /\ app.latch # NoLatch /\ app.latch.w = [app.calls[n] EXCEPT !.at = "save"]
      BY <2>2, <3>1 DEF SavedInv, LatchInv
    <3>3. app'.act = app.act
      BY <3>2 DEF Steady
    <3> QED BY <3>1, <3>2, <3>3
  <2> QED BY <1>3, <2>1, <2>2 DEF LatchInv, HoldsBind
<1>7. QueueInv'
  <2> SUFFICES ASSUME NEW i \in DOMAIN saves', NEW j \in DOMAIN saves', saves'[i].n # 0, app'.act = saves'[i].n, j > i,
                      saves'[j].n # 0
               PROVE  FALSE
    BY DEF QueueInv
  <2>1. i \in DOMAIN saves /\ j \in DOMAIN saves /\ saves'[i] = saves[i] /\ saves'[j] = saves[j]
    BY <1>2
  <2>2. Waits(app.calls[saves[i].n]) /\ saves[i].n \in 1 .. Slots
    BY <2>1, SaverWaits DEF BindInv
  <2>3. app'.act # 0 /\ Waits(app'.calls[app'.act])
    BY <1>4, <2>1, <2>2
  <2>4. app'.act = app.act
    BY <2>3 DEF Steady
  <2> QED BY <2>1, <2>4 DEF SavedInv, QueueInv
<1>8. CandidateInv'
  <2>1. ASSUME NEW n \in 1 .. Slots, Waits(app'.calls[n])
        PROVE  /\ app'.calls[n].conv \in Conversations
               /\ app'.rows[app'.calls[n].conv].ver = app'.calls[n].cand => app'.rows[app'.calls[n].conv].bind = app'.calls[n].root
    <3>1. app'.calls[n] = app.calls[n]
      BY <1>4, <2>1
    <3>2. app.calls[n].conv \in Conversations /\ HoldsBind(app.calls[n]) /\ app.calls[n].cand # FreshVer(app)
      BY <2>1, <3>1, NewVersion DEF SavedInv, CandidateInv
    <3> QED BY <1>5, <3>1, <3>2
  <2>2. ASSUME NEW n \in 1 .. Slots, NEW m \in 1 .. Slots, n # m, Waits(app'.calls[n]), Waits(app'.calls[m]),
               app'.calls[m].conv = app'.calls[n].conv, app'.calls[m].before.ver = app'.calls[n].cand
        PROVE  app'.calls[m].before.bind = app'.calls[n].root
    BY <1>4, <2>2 DEF SavedInv, CandidateInv
  <2>3. ASSUME NEW n \in 1 .. Slots, app'.act = n, app'.calls[n].at \in Binding
        PROVE  /\ app'.pub.conv = app'.calls[n].conv
               /\ Waits(app'.calls[n]) => app'.pub.root = app'.calls[n].root
    BY <2>3 DEF SavedInv, CandidateInv, Steady
  <2>4. ASSUME NEW i \in DOMAIN saves', saves'[i].n # 0
        PROVE  LET w == app'.calls[saves'[i].n]
               IN \/ saves'[i].doc[w.conv] = w.root
                  \/ w.at = "resave" /\ app'.rows[w.conv].ver # w.cand
    <3>1. i \in DOMAIN saves /\ saves'[i] = saves[i]
      BY <1>2, <2>4
    <3>2. Waits(app.calls[saves[i].n]) /\ saves[i].n \in 1 .. Slots
      BY <2>4, <3>1, SaverWaits DEF BindInv
    <3> DEFINE w == app.calls[saves[i].n]
    <3>3. app'.calls[saves'[i].n] = w
      BY <1>4, <3>1, <3>2
    <3>4. w.conv \in Conversations /\ w.cand # FreshVer(app)
      BY <3>2, NewVersion DEF SavedInv, CandidateInv
    <3>5. \/ saves[i].doc[w.conv] = w.root
          \/ w.at = "resave" /\ app.rows[w.conv].ver # w.cand
      BY <2>4, <3>1 DEF SavedInv, CandidateInv
    <3>6. app.rows[w.conv].ver # w.cand => app'.rows[w.conv].ver # w.cand
      BY <3>4 DEF Steady
    <3> QED BY <3>1, <3>3, <3>5, <3>6
  <2> QED BY <2>1, <2>2, <2>3, <2>4 DEF CandidateInv, HoldsBind
<1> QED BY <1>6, <1>7, <1>8 DEF SavedInv

\* The amendment of the store, with its save.
LEMMA AmendKeeps ==
  ASSUME BindInv, SavedInv, TypeOK', NEW n \in 1 .. Slots, NEW w \in Call, Amended(n, w, app'), Saved(n)
  PROVE  SavedInv'
<1> DEFINE u == app.calls[n]
           v == FreshVer(app)
           d == Bindings(app')
<1>1. /\ app \in App /\ app' \in App /\ saves \in Seq([n : 0 .. Slots, doc : [Conversations -> Root]])
      /\ app.calls \in [1 .. Slots -> Call] /\ app.rows \in [Conversations -> RowType] /\ u \in Call
  BY DEF BindInv, TypeOK, App
<1>2. /\ u.at = "completion" /\ app.act = n /\ u.conv \in Conversations
      /\ w = [u EXCEPT !.at = "save", !.cand = v, !.before = app.rows[u.conv]] /\ w.at = "save"
      /\ app'.calls = [app.calls EXCEPT ![n] = w] /\ app'.act = n /\ app'.latch = app.latch
      /\ app'.rows = [app.rows EXCEPT ![u.conv] = Row(v, u.root)]
      /\ app'.pub = [app.pub EXCEPT !.root = u.root, !.ph = "pending"]
  BY DEF Amended, Current, ShellCurrent
<1>3. app.latch = NoLatch /\ ~Waits(u)
  BY <1>2, NotLatched DEF Waits, BindInv, SavedInv
<1>4. w.conv = u.conv /\ w.root = u.root /\ w.cand = v /\ w.before = app.rows[u.conv] /\ Waits(w)
  BY <1>1, <1>2 DEF Call, Waits
<1>5. app'.rows[u.conv].ver = v /\ app'.rows[u.conv].bind = u.root
      /\ \A c \in Conversations : c # u.conv => app'.rows[c] = app.rows[c]
  BY <1>1, <1>2, BlankTypes DEF Row
<1>6. app'.pub.conv = app.pub.conv /\ app'.pub.root = u.root
  BY <1>1, <1>2 DEF App, Publication
<1>7. \A m \in 1 .. Slots : app.calls[m].cand # v /\ app.calls[m].before.ver # v
      /\ \A c \in Conversations : app.rows[c].ver # v
  BY NewVersion
<1>8. /\ Len(saves) \in Nat /\ DOMAIN saves = 1 .. Len(saves) /\ DOMAIN saves' = 1 .. Len(saves) + 1
      /\ saves'[Len(saves) + 1] = [n |-> n, doc |-> d] /\ \A i \in DOMAIN saves : saves'[i] = saves[i]
  BY <1>1 DEF Saved
<1>9. d[u.conv] = u.root
  BY <1>2, <1>5 DEF Bindings
<1>10. \A i \in DOMAIN saves : saves[i].n # n
  BY <1>3, SaverWaits DEF BindInv
<1> HIDE DEF u, v, d
<1>11. \A m \in 1 .. Slots : app'.calls[m].at # "resave"
  <2> SUFFICES ASSUME NEW m \in 1 .. Slots, app'.calls[m].at = "resave" PROVE FALSE
    OBVIOUS
  <2>1. app.calls[m].at = "resave"
    BY <1>1, <1>2
  <2> QED BY <1>3, <2>1 DEF SavedInv, LatchInv
<1>12. LatchInv'
  BY <1>2, <1>3, <1>11 DEF LatchInv
<1>13. QueueInv'
  BY <1>2, <1>8, <1>10 DEF QueueInv
<1>14. ASSUME NEW m \in 1 .. Slots, m # n, Waits(app'.calls[m])
       PROVE  /\ app'.calls[m] = app.calls[m] /\ app.calls[m].conv \in Conversations
              /\ Waits(app.calls[m]) /\ HoldsBind(app.calls[m])
  BY <1>1, <1>2, <1>14 DEF SavedInv, CandidateInv
<1>15. app'.calls[n] = w
  BY <1>1, <1>2
<1>16. CandidateInv'
  <2>1. ASSUME NEW m \in 1 .. Slots, Waits(app'.calls[m])
        PROVE  /\ app'.calls[m].conv \in Conversations
               /\ app'.rows[app'.calls[m].conv].ver = app'.calls[m].cand => app'.rows[app'.calls[m].conv].bind = app'.calls[m].root
    <3>1. CASE m = n
      BY ZenonT(30), <1>2, <1>4, <1>5, <1>15, <3>1
    <3>2. CASE m # n
      BY SMTT(30), <1>5, <1>7, <1>14, <2>1, <3>2 DEF HoldsBind
    <3> QED BY <3>1, <3>2
  <2>2. ASSUME NEW i \in 1 .. Slots, NEW m \in 1 .. Slots, i # m, Waits(app'.calls[i]), Waits(app'.calls[m]),
               app'.calls[m].conv = app'.calls[i].conv, app'.calls[m].before.ver = app'.calls[i].cand
        PROVE  app'.calls[m].before.bind = app'.calls[i].root
    <3>1. CASE i = n
      BY <1>4, <1>7, <1>14, <1>15, <2>2, <3>1
    <3>2. CASE m = n
      <4> DEFINE x == app.calls[i]
      <4>1. app'.calls[i] = x /\ HoldsBind(x) /\ app'.calls[m] = w
        BY <1>14, <1>15, <2>2, <3>2
      <4> HIDE DEF x
      <4>2. u.conv = x.conv /\ app.rows[u.conv].ver = x.cand
        BY <1>4, <2>2, <4>1
      <4>3. app.rows[u.conv].bind = x.root
        BY <4>1, <4>2 DEF HoldsBind
      <4> QED BY <1>4, <4>1, <4>3
    <3>3. CASE i # n /\ m # n
      BY <1>14, <2>2, <3>3 DEF SavedInv, CandidateInv
    <3> QED BY <3>1, <3>2, <3>3
  <2>3. ASSUME NEW m \in 1 .. Slots, app'.act = m
        PROVE  /\ app'.pub.conv = app'.calls[m].conv
               /\ app'.pub.root = app'.calls[m].root
    <3>1. app.pub.conv = u.conv
      <4>1. u.at \in Binding
        BY <1>2 DEF Binding, Place, Ensuring
      <4> QED BY <1>2, <4>1 DEF SavedInv, CandidateInv, u
    <3>2. m = n
      BY <1>2, <2>3
    <3> QED BY <1>4, <1>6, <1>15, <3>1, <3>2
  <2>4. ASSUME NEW i \in DOMAIN saves', saves'[i].n # 0
        PROVE  saves'[i].doc[app'.calls[saves'[i].n].conv] = app'.calls[saves'[i].n].root
    <3>1. CASE i = Len(saves) + 1
      BY <1>4, <1>8, <1>9, <1>15, <3>1
    <3>2. CASE i # Len(saves) + 1
      <4>1. i \in DOMAIN saves /\ saves'[i] = saves[i]
        BY <1>8, <3>2
      <4>2. saves[i].n \in 1 .. Slots /\ Waits(app.calls[saves[i].n]) /\ saves[i].n # n
        BY <1>10, <2>4, <4>1, SaverWaits DEF BindInv
      <4>3. app'.calls[saves[i].n] = app.calls[saves[i].n]
        BY <1>1, <1>2, <4>2
      <4>4. app.calls[saves[i].n].at # "resave"
        BY <1>11, <4>2, <4>3
      <4> QED BY <2>4, <4>1, <4>3, <4>4 DEF SavedInv, CandidateInv
    <3> QED BY <3>1, <3>2
  <2> QED BY <2>1, <2>2, <2>3, <2>4 DEF CandidateInv, HoldsBind
<1> QED BY <1>12, <1>13, <1>16 DEF SavedInv

\* The retry of the latched write, with its save.
LEMMA RetryKeeps ==
  ASSUME BindInv, SavedInv, NEW n \in 1 .. Slots, NEW w \in Call, Retries(n, w, app'), Saved(n)
  PROVE  SavedInv'
<1> DEFINE l == app.latch.w
           d == Bindings(app')
<1>1. /\ app \in App /\ saves \in Seq([n : 0 .. Slots, doc : [Conversations -> Root]])
      /\ app.calls \in [1 .. Slots -> Call] /\ l \in Call
  BY DEF BindInv, TypeOK, App
<1>2. /\ app.latch # NoLatch /\ app.act = 0 /\ app.calls[n] = Idle
      /\ w.at = "resave" /\ w = [l EXCEPT !.at = "resave"]
      /\ app'.calls = [app.calls EXCEPT ![n] = w] /\ app'.act = n /\ app'.rows = app.rows /\ app'.latch = app.latch
      /\ app'.pub.conv = w.conv /\ app'.pub.root = w.root
  BY DEF Retries
<1>3. l.at = "save" /\ l.conv \in Conversations /\ HoldsBind(l)
  BY <1>2 DEF SavedInv, LatchInv
<1>4. w.conv = l.conv /\ w.root = l.root /\ w.cand = l.cand /\ l = [w EXCEPT !.at = "save"] /\ Waits(w)
  BY <1>1, <1>2, <1>3 DEF Call, Waits
<1>5. \A m \in 1 .. Slots : ~Waits(app.calls[m])
  <2> SUFFICES ASSUME NEW m \in 1 .. Slots, Waits(app.calls[m]) PROVE FALSE
    OBVIOUS
  <2>1. app.calls[m].at = "resave"
    BY <1>2 DEF SavedInv, LatchInv, Waits
  <2>2. app.act = m
    BY <2>1 DEF SavedInv, LatchInv
  <2>3. m # 0
    OBVIOUS
  <2> QED BY <1>2, <2>2, <2>3
<1>6. \A i \in DOMAIN saves : saves[i].n = 0
  BY <1>5, SaverWaits DEF BindInv
<1>7. /\ Len(saves) \in Nat /\ DOMAIN saves = 1 .. Len(saves) /\ DOMAIN saves' = 1 .. Len(saves) + 1
      /\ saves'[Len(saves) + 1] = [n |-> n, doc |-> d] /\ \A i \in DOMAIN saves : saves'[i] = saves[i]
  BY <1>1 DEF Saved
<1>8. \A i \in DOMAIN saves' : saves'[i].n # 0 => i = Len(saves) + 1
  <2>1. ASSUME NEW i \in DOMAIN saves', i # Len(saves) + 1 PROVE saves'[i].n = 0
    <3>1. i \in DOMAIN saves
      BY <1>7, <2>1
    <3> QED BY <1>6, <1>7, <3>1
  <2> QED BY <2>1
<1>9. d[w.conv] = app.rows[w.conv].bind
  BY <1>2, <1>3, <1>4 DEF Bindings
<1> HIDE DEF l, d
<1>10. app'.calls[n] = w /\ \A m \in 1 .. Slots : m # n => ~Waits(app'.calls[m])
  BY <1>1, <1>2, <1>5
<1>11. LatchInv'
  <2>1. app'.latch.w = l /\ app'.latch # NoLatch
    BY <1>2 DEF l
  <2>2. \A m \in 1 .. Slots : app'.calls[m].at # "save"
    BY <1>2, <1>10 DEF Waits
  <2>3. app'.act # 0 => app'.calls[app'.act].at = "resave"
    BY <1>2, <1>10
  <2>4. ASSUME NEW m \in 1 .. Slots, app'.calls[m].at = "resave"
        PROVE  app'.act = m /\ app'.latch # NoLatch /\ app'.latch.w = [app'.calls[m] EXCEPT !.at = "save"]
    <3>1. m = n
      BY <1>10, <2>4 DEF Waits
    <3>2. app'.calls[m] = w
      BY <1>10, <3>1
    <3> QED BY <1>2, <1>4, <2>1, <3>1, <3>2
  <2>5. app'.rows[l.conv].ver = l.cand => app'.rows[l.conv].bind = l.root
    BY <1>2, <1>3 DEF HoldsBind
  <2> QED BY <1>3, <2>1, <2>2, <2>3, <2>4, <2>5 DEF LatchInv, HoldsBind
<1>12. QueueInv'
  BY <1>7, <1>8 DEF QueueInv
<1>13. CandidateInv'
  <2>1. ASSUME NEW m \in 1 .. Slots, Waits(app'.calls[m])
        PROVE  /\ app'.calls[m].conv \in Conversations
               /\ app'.rows[app'.calls[m].conv].ver = app'.calls[m].cand => app'.rows[app'.calls[m].conv].bind = app'.calls[m].root
    <3>1. app'.calls[m] = w
      BY <1>10, <2>1
    <3>2. app'.rows[l.conv].ver = l.cand => app'.rows[l.conv].bind = l.root
      BY <1>2, <1>3 DEF HoldsBind
    <3> QED BY <1>3, <1>4, <3>1, <3>2
  <2>2. ASSUME NEW m \in 1 .. Slots, app'.act = m
        PROVE  app'.pub.conv = app'.calls[m].conv /\ app'.pub.root = app'.calls[m].root
    BY <1>2, <1>10, <2>2
  <2>3. ASSUME NEW i \in DOMAIN saves', saves'[i].n # 0
        PROVE  LET v == app'.calls[saves'[i].n]
               IN \/ saves'[i].doc[v.conv] = v.root
                  \/ v.at = "resave" /\ app'.rows[v.conv].ver # v.cand
    <3>1. saves'[i].n = n /\ saves'[i].doc = d
      BY <1>7, <1>8, <2>3
    <3>2. d[w.conv] = w.root \/ app.rows[w.conv].ver # w.cand
      BY <1>3, <1>4, <1>9 DEF HoldsBind
    <3> QED BY <1>2, <1>10, <3>1, <3>2
  <2> QED BY <1>10, <2>1, <2>2, <2>3 DEF CandidateInv, HoldsBind
<1> QED BY <1>11, <1>12, <1>13 DEF SavedInv

\* The answer to the save of a call: the other calls that wait were not the
\* active one when this one was latched.
LEMMA AnswerKeeps ==
  ASSUME BindInv, SavedInv, TypeOK', saves # << >>, saves' = Tail(saves), Head(saves).n # 0,
         NEW a, NEW r, NEW res, app' = Finish(a, Head(saves).n, r), Settled(Head(saves).n, res, a)
  PROVE  SavedInv'
<1> DEFINE n == Head(saves).n
           w == app.calls[n]
<1>1. /\ app \in App /\ saves \in Seq([n : 0 .. Slots, doc : [Conversations -> Root]])
      /\ app.calls \in [1 .. Slots -> Call] /\ app.rows \in [Conversations -> RowType] /\ app.act \in 0 .. Slots
  BY DEF BindInv, TypeOK, App
<1>2. n \in 1 .. Slots /\ 1 \in DOMAIN saves /\ n = saves[1].n /\ Waits(w) /\ w \in Call
  <2>1. n \in 0 .. Slots /\ 1 \in DOMAIN saves /\ n = saves[1].n
    BY OldestSave DEF BindInv
  <2>2. n \in 1 .. Slots
    BY <2>1
  <2> QED BY <1>1, <2>1, <2>2, SaverWaits DEF BindInv
<1>3. /\ \A i \in DOMAIN saves' : /\ i + 1 \in DOMAIN saves /\ saves'[i] = saves[i + 1] /\ i + 1 # 1
                                  /\ i \in Nat
  BY <1>1
<1> HIDE DEF n
<1>4. Ended(a, n, app') /\ Alike(a)
  BY <1>2, FinishEnds DEF Settled, Alike, n
<1>5. /\ app'.calls = [app.calls EXCEPT ![n] = Idle] /\ app'.rows = a.rows /\ app'.latch = a.latch
      /\ app'.act # 0 => app'.act = app.act /\ app'.act # n /\ app'.pub = a.pub
  BY <1>4 DEF Ended, Alike
<1>6. /\ a.rows = app.rows \/ a.rows = [app.rows EXCEPT ![w.conv] = w.before]
      /\ a.pub.conv = app.pub.conv /\ a.pub.root = app.pub.root
      /\ w.at = "resave" /\ a.rows # app.rows => a.latch = NoLatch
      /\ \/ a.latch = app.latch
         \/ a.latch = NoLatch
         \/ w.at = "resave" /\ a.latch = [app.latch EXCEPT !.settled = TRUE]
         \/ /\ w.at = "save" /\ app.act = n /\ a.latch = [w |-> w, settled |-> FALSE]
            /\ a.rows = app.rows
  BY DEF Settled, ShellCurrent, n
<1>7. app.act = n => \A m \in 1 .. Slots : m # n => ~Waits(app.calls[m])
  <2> SUFFICES ASSUME app.act = n, NEW m \in 1 .. Slots, m # n, Waits(app.calls[m]) PROVE FALSE
    OBVIOUS
  <2>1. PICK i \in DOMAIN saves : saves[i].n = m
    BY DEF BindInv, TypeOK, Waits
  <2>2. i > 1
    BY <1>1, <1>2, <2>1
  <2> QED BY <1>2, <2>1, <2>2 DEF SavedInv, QueueInv
<1>8. w.at = "resave" => app.act = n /\ app.latch # NoLatch /\ app.latch.w = [w EXCEPT !.at = "save"]
  BY <1>2 DEF SavedInv, LatchInv
<1>9. w.at = "save" => app.latch = NoLatch
  BY <1>2 DEF SavedInv, LatchInv
<1>10. w.at \in {"save", "resave"}
  BY <1>2 DEF Waits
<1>11. \A m \in 1 .. Slots : app'.calls[m] = IF m = n THEN Idle ELSE app.calls[m]
  BY <1>1, <1>5
<1>12. \A m \in 1 .. Slots : Waits(app'.calls[m]) => m # n /\ app'.calls[m] = app.calls[m]
  BY <1>11, BlankTypes DEF Waits
<1>13. \A m \in 1 .. Slots : m # n => app.calls[m].at # "resave"
  BY <1>7, <1>8, <1>9, <1>10 DEF SavedInv, LatchInv
<1>14. w.conv \in Conversations /\ HoldsBind(w)
  BY <1>2 DEF SavedInv, CandidateInv
<1> HIDE DEF w
<1>15. LatchInv'
  <2>1. \A m \in 1 .. Slots : app'.calls[m].at # "resave"
    BY <1>12, <1>13 DEF Waits
  <2>2. ASSUME app'.latch # NoLatch
        PROVE  /\ app.act = n /\ app'.rows = app.rows
               /\ app'.latch.w.at = "save" /\ app'.latch.w.conv = w.conv
               /\ app'.latch.w.cand = w.cand /\ app'.latch.w.root = w.root
    <3>1. w \in Call
      BY <1>2 DEF w
    <3>2. CASE w.at = "save"
      BY <1>5, <1>6, <1>9, <2>2, <3>2
    <3>3. CASE w.at = "resave"
      <4>1. app.latch.w.at = "save" /\ app.latch.w.conv = w.conv /\ app.latch.w.cand = w.cand /\ app.latch.w.root = w.root
        BY <1>8, <3>1, <3>3 DEF Call
      <4>2. app.act = n /\ a.rows = app.rows
        BY <1>5, <1>6, <1>8, <2>2, <3>3
      <4>3. app'.latch.w = app.latch.w
        BY <1>1, <1>5, <1>6, <2>2, <3>3 DEF App
      <4> QED BY <1>5, <4>1, <4>2, <4>3
    <3> QED BY <1>10, <3>2, <3>3
  <2>3. app'.latch # NoLatch => \A m \in 1 .. Slots : app'.calls[m].at # "save"
    BY <1>7, <1>12, <2>2 DEF Waits
  <2>4. app'.latch # NoLatch => app'.act = 0
    BY <1>5, <2>2
  <2> QED BY <1>14, <2>1, <2>2, <2>3, <2>4 DEF LatchInv, HoldsBind
<1>16. QueueInv'
  <2> SUFFICES ASSUME NEW i \in DOMAIN saves', NEW j \in DOMAIN saves', saves'[i].n # 0, app'.act = saves'[i].n, j > i
               PROVE  saves'[j].n = 0
    BY DEF QueueInv
  <2>1. j + 1 > i + 1
    BY <1>3
  <2>2. app'.act = app.act
    BY <1>5
  <2> QED BY <1>3, <2>1, <2>2 DEF SavedInv, QueueInv
<1>17. CandidateInv'
  <2>1. ASSUME NEW m \in 1 .. Slots, Waits(app'.calls[m])
        PROVE  /\ app'.calls[m].conv \in Conversations
               /\ app'.rows[app'.calls[m].conv].ver = app'.calls[m].cand => app'.rows[app'.calls[m].conv].bind = app'.calls[m].root
    <3> DEFINE v == app.calls[m]
    <3>1. app'.calls[m] = v /\ m # n /\ Waits(v) /\ v.conv \in Conversations /\ HoldsBind(v)
      BY <1>12, <2>1 DEF SavedInv, CandidateInv
    <3>2. w.conv = v.conv /\ w.before.ver = v.cand => w.before.bind = v.root
      BY <1>2, <3>1 DEF SavedInv, CandidateInv, w
    <3>3. app'.rows[v.conv] = app.rows[v.conv] \/ (w.conv = v.conv /\ app'.rows[v.conv] = w.before)
      BY <1>1, <1>5, <1>6, <3>1
    <3> HIDE DEF v
    <3> QED BY <3>1, <3>2, <3>3 DEF HoldsBind
  <2>2. ASSUME NEW i \in 1 .. Slots, NEW m \in 1 .. Slots, i # m, Waits(app'.calls[i]), Waits(app'.calls[m]),
               app'.calls[m].conv = app'.calls[i].conv, app'.calls[m].before.ver = app'.calls[i].cand
        PROVE  app'.calls[m].before.bind = app'.calls[i].root
    <3>1. app'.calls[i] = app.calls[i] /\ app'.calls[m] = app.calls[m]
      BY <1>12, <2>2
    <3>2. /\ Waits(app.calls[i]) /\ Waits(app.calls[m])
          /\ app.calls[m].conv = app.calls[i].conv /\ app.calls[m].before.ver = app.calls[i].cand
      BY <2>2, <3>1
    <3>3. app.calls[m].before.bind = app.calls[i].root
      BY <2>2, <3>2 DEF SavedInv, CandidateInv
    <3> QED BY <3>1, <3>3
  <2>3. ASSUME NEW m \in 1 .. Slots, app'.act = m, app'.calls[m].at \in Binding
        PROVE  /\ app'.pub.conv = app'.calls[m].conv
               /\ Waits(app'.calls[m]) => app'.pub.root = app'.calls[m].root
    <3>1. app.act = m /\ m # n /\ app'.pub = a.pub
      BY <1>5, <2>3
    <3> QED BY <1>6, <1>11, <2>3, <3>1 DEF SavedInv, CandidateInv
  <2>4. ASSUME NEW i \in DOMAIN saves', saves'[i].n # 0
        PROVE  saves'[i].doc[app'.calls[saves'[i].n].conv] = app'.calls[saves'[i].n].root
    <3>1. i + 1 \in DOMAIN saves /\ saves'[i] = saves[i + 1] /\ i + 1 # 1
      BY <1>3
    <3>2. saves[i + 1].n \in 1 .. Slots /\ saves[i + 1].n # n
      BY <1>2, <2>4, <3>1, SaverWaits DEF BindInv, SaveInv
    <3>3. app'.calls[saves[i + 1].n] = app.calls[saves[i + 1].n] /\ app.calls[saves[i + 1].n].at # "resave"
      BY <1>11, <1>13, <3>2
    <3> QED BY <2>4, <3>1, <3>3 DEF SavedInv, CandidateInv
  <2> QED BY <2>1, <2>2, <2>3, <2>4 DEF CandidateInv, HoldsBind
<1> QED BY <1>15, <1>16, <1>17 DEF SavedInv

\* A save of somebody else is answered.
LEMMA OtherAnswerKeeps ==
  ASSUME BindInv, SavedInv, saves # << >>, saves' = Tail(saves), app' = app
  PROVE  SavedInv'
<1>1. \A i \in DOMAIN saves' : i + 1 \in DOMAIN saves /\ saves'[i] = saves[i + 1] /\ i \in Nat
  <2>1. saves \in Seq([n : 0 .. Slots, doc : [Conversations -> Root]])
    BY DEF BindInv, TypeOK
  <2> QED BY <2>1
<1>2. QueueInv'
  <2> SUFFICES ASSUME NEW i \in DOMAIN saves', NEW j \in DOMAIN saves', saves'[i].n # 0, app'.act = saves'[i].n, j > i
               PROVE  saves'[j].n = 0
    BY DEF QueueInv
  <2>1. j + 1 > i + 1
    BY <1>1
  <2> QED BY <1>1, <2>1 DEF SavedInv, QueueInv
<1>3. CandidateInv'
  BY SMTT(30), <1>1 DEF SavedInv, CandidateInv, HoldsBind
<1>4. LatchInv'
  BY DEF SavedInv, LatchInv, HoldsBind
<1> QED BY <1>2, <1>3, <1>4 DEF SavedInv

LEMMA RelaunchKeeps == ASSUME BindInv, Relaunch PROVE SavedInv'
<1>1. /\ app'.act = 0 /\ app'.latch = NoLatch /\ saves' = << >>
      /\ \A n \in 1 .. Slots : app'.calls[n] = Idle
  <2>1. app \in App
    BY DEF BindInv, TypeOK
  <2> QED BY <2>1 DEF Relaunch, App
<1>2. DOMAIN saves' = {}
  BY <1>1
<1>3. \A n \in 1 .. Slots : ~Waits(app'.calls[n]) /\ n # 0 /\ app'.calls[n].at # "resave"
  BY <1>1, BlankTypes DEF Waits
<1> QED BY <1>1, <1>2, <1>3 DEF SavedInv, LatchInv, QueueInv, CandidateInv
----------------------------------------------------------------------------
(***************************************************************************)
(* What is shown as committed is on disk                                   *)
(***************************************************************************)
\* A step is steady, amends the store, retries, answers a save, or is a start.
LEMMA SavedCases ==
  ASSUME BindInv, SavedInv, Next
  PROVE  \/ Steady(app') /\ (saves' = saves \/ \E d : saves' = Append(saves, [n |-> 0, doc |-> d]))
         \/ \E n \in 1 .. Slots, w \in Call : Amended(n, w, app') /\ Saved(n)
         \/ \E n \in 1 .. Slots, w \in Call : Retries(n, w, app') /\ Saved(n)
         \/ SaveAnswer
         \/ Relaunch
<1> DEFINE Calm == Steady(app') /\ (saves' = saves \/ \E d : saves' = Append(saves, [n |-> 0, doc |-> d]))
<1>1. TypeOK /\ EnsureInv /\ LatchInv /\ CandidateInv /\ app \in App
  BY DEF BindInv, SavedInv, TypeOK
<1>2. CASE OpenPicker \/ ClosePicker \/ Rendered \/ \E c \in Conversations : Edit(c) \/ Select(c)
  <2>1. saves' = saves
    BY <1>2 DEF OpenPicker, ClosePicker, Rendered, Edit, Select, Native
  <2> QED BY <1>1, <1>2, <2>1, SteadyUser
<1>3. CASE OtherSave \/ Regrant \/ \E n \in 1 .. Slots : MakeWorkspace(n)
  <2>1. app' = app /\ (saves' = saves \/ \E d : saves' = Append(saves, [n |-> 0, doc |-> d]))
    BY <1>3 DEF OtherSave, Regrant, MakeWorkspace, Saved
  <2>2. Surfaces(app, app) /\ Like(app)
    BY <1>1 DEF Surfaces, Like
  <2>3. Steady(app')
    BY <1>1, <2>1, <2>2, SteadySurfaces
  <2> QED BY <2>1, <2>3
<1>4. ASSUME NEW n \in 1 .. Slots, Pick(n) \/ OpenFiles(n) \/ ChatInProject(n) PROVE Calm
  <2>1. saves' = saves
    BY <1>4 DEF Pick, OpenFiles, ChatInProject, Native
  <2> QED BY <1>1, <1>4, <2>1, SteadyStarts
<1>5. ASSUME NEW n \in 1 .. Slots, LookupAnswered(n) \/ ContextGuard(n) \/ EnsureStep(n) PROVE Calm
  <2>1. saves' = saves
    BY <1>5 DEF LookupAnswered, ContextGuard, EnsureStep, Native
  <2> QED BY <1>1, <1>5, <2>1, SteadyAnswers
<1>6. ASSUME NEW n \in 1 .. Slots, CompletionGuard(n)
      PROVE  Calm \/ \E w \in Call : Amended(n, w, app') /\ Saved(n)
  <2>1. ASSUME NEW res, app' = Finish(app, n, res), saves' = saves PROVE Calm
    <3>1. Like(app) /\ ~Waits(app.calls[n])
      BY <1>1, <1>6 DEF Like, CompletionGuard, Waits
    <3> QED BY <1>1, <2>1, <3>1, SteadyEnds
  <2> QED BY <1>1, <1>6, <2>1, CompletionCases
<1>7. ASSUME NEW n \in 1 .. Slots, Retry(n) PROVE \E w \in Call : Retries(n, w, app') /\ Saved(n)
  BY <1>1, <1>7, RetryRetries DEF Retry
<1> HIDE DEF Calm
<1>8. \/ Calm
      \/ \E n \in 1 .. Slots, w \in Call : Amended(n, w, app') /\ Saved(n)
      \/ \E n \in 1 .. Slots, w \in Call : Retries(n, w, app') /\ Saved(n)
      \/ SaveAnswer
      \/ Relaunch
  BY <1>2, <1>3, <1>4, <1>5, <1>6, <1>7 DEF Next, Calm
<1> QED BY <1>8 DEF Calm

LEMMA SavedStep == ASSUME BindInv, SavedInv, TypeOK', Next PROVE SavedInv'
<1>1. CASE SaveAnswer
  <2>1. saves # << >> /\ saves' = Tail(saves) /\ TypeOK
    BY <1>1 DEF SaveAnswer, BindInv
  <2>2. CASE Head(saves).n = 0
    <3>1. app' = app
      BY <1>1, <2>2 DEF SaveAnswer
    <3> QED BY <2>1, <3>1, OtherAnswerKeeps
  <2>3. CASE Head(saves).n # 0
    <3>1. PICK a, r, res : app' = Finish(a, Head(saves).n, r) /\ Settled(Head(saves).n, res, a)
      BY <1>1, <2>1, <2>3, AnswerCases
    <3> QED BY <2>1, <2>3, <3>1, AnswerKeeps
  <2> QED BY <2>2, <2>3
<1>2. CASE Relaunch
  BY <1>2, RelaunchKeeps
<1>3. CASE \E n \in 1 .. Slots, w \in Call : Amended(n, w, app') /\ Saved(n)
  BY <1>3, AmendKeeps
<1>4. CASE \E n \in 1 .. Slots, w \in Call : Retries(n, w, app') /\ Saved(n)
  BY <1>4, RetryKeeps
<1>5. CASE Steady(app') /\ (saves' = saves \/ \E d : saves' = Append(saves, [n |-> 0, doc |-> d]))
  BY <1>5, SteadyKeeps
<1> QED BY <1>1, <1>2, <1>3, <1>4, <1>5, SavedCases

\* What a step newly shows as committed.
Shows == app'.pub.ph = "committed" /\ app.pub # app'.pub => disk'[app'.pub.conv] = app'.pub.root

LEMMA ShowsSaved == ASSUME BindInv, SavedInv, Next PROVE Shows
<1>1. CASE SaveAnswer
  <2>1. saves # << >> /\ TypeOK
    BY <1>1 DEF SaveAnswer, BindInv
  <2>2. CASE Head(saves).n = 0
    BY <1>1, <2>2 DEF SaveAnswer, Shows
  <2>3. CASE Head(saves).n # 0
    <3> DEFINE n == Head(saves).n
    <3>1. PICK a, r : \E res \in {"committed", "unknown", "not_committed"} :
              /\ app' = Finish(a, n, r) /\ Settled(n, res, a)
              /\ res = "committed" => disk' = Head(saves).doc
      BY <1>1, <2>1, <2>3, AnswerCases
    <3>2. PICK res \in {"committed", "unknown", "not_committed"} :
              /\ app' = Finish(a, n, r) /\ Settled(n, res, a)
              /\ res = "committed" => disk' = Head(saves).doc
      BY <3>1
    <3>3. n \in 1 .. Slots /\ 1 \in DOMAIN saves /\ saves[1] = Head(saves)
      <4>1. n \in 0 .. Slots /\ 1 \in DOMAIN saves /\ saves[1] = Head(saves)
        BY <2>1, OldestSave
      <4> QED BY <2>3, <4>1
    <3>4. Waits(app.calls[n])
      BY <2>1, <3>3, SaverWaits
    <3>5. \/ Head(saves).doc[app.calls[n].conv] = app.calls[n].root
          \/ app.rows[app.calls[n].conv].ver # app.calls[n].cand
      BY <2>3, <3>3 DEF SavedInv, CandidateInv
    <3> HIDE DEF n
    <3>6. Alike(a) /\ app'.pub \in {a.pub, NoPub}
      BY <3>2, <3>3, FinishEnds DEF Settled, Alike, Ended
    <3>7. SUFFICES ASSUME app'.pub.ph = "committed", app.pub # app'.pub
                   PROVE  disk'[app'.pub.conv] = app'.pub.root
      BY DEF Shows
    <3>8. app'.pub = a.pub
      BY <3>6, <3>7, BlankTypes
    <3>9. /\ a.pub.conv = app.pub.conv /\ a.pub.root = app.pub.root /\ res = "committed"
          /\ app.act = n /\ app.rows[app.calls[n].conv].ver = app.calls[n].cand
      BY <3>2, <3>7, <3>8 DEF Settled, ShellCurrent
    <3>10. app.calls[n].at \in Binding
      BY <3>4 DEF Waits, Binding, Place, Ensuring
    <3>11. app.pub.conv = app.calls[n].conv /\ app.pub.root = app.calls[n].root
      BY <3>3, <3>4, <3>9, <3>10 DEF SavedInv, CandidateInv
    <3> QED BY <3>2, <3>5, <3>8, <3>9, <3>11
  <2> QED BY <2>2, <2>3
<1>2. CASE Relaunch
  <2>1. app \in App
    BY DEF BindInv, TypeOK
  <2>2. app'.pub = NoPub
    BY <1>2, <2>1 DEF Relaunch, App
  <2> QED BY <2>2, BlankTypes DEF Shows
<1>3. ASSUME NEW n, NEW w, Amended(n, w, app') PROVE Shows
  <2>1. app.pub \in Publication
    BY DEF BindInv, TypeOK, App
  <2>2. app'.pub.ph = "pending"
    BY <1>3, <2>1 DEF Amended, Publication
  <2> QED BY <2>2 DEF Shows
<1>4. ASSUME NEW n, NEW w, Retries(n, w, app') PROVE Shows
  BY <1>4 DEF Retries, Shows
<1>5. CASE Steady(app')
  BY <1>5 DEF Steady, Shows
<1> QED BY <1>1, <1>2, <1>3, <1>4, <1>5, SavedCases

LEMMA InitSaved == ASSUME Init PROVE SavedInv
<1>1. /\ app.act = 0 /\ app.latch = NoLatch /\ saves = << >>
      /\ \A n \in 1 .. Slots : app.calls[n] = Idle
  BY DEF Init
<1>2. DOMAIN saves = {}
  BY <1>1
<1>3. \A n \in 1 .. Slots : ~Waits(app.calls[n]) /\ n # 0 /\ app.calls[n].at # "resave"
  BY <1>1, BlankTypes DEF Waits
<1> QED BY <1>1, <1>2, <1>3 DEF SavedInv, LatchInv, QueueInv, CandidateInv

LEMMA StutterSaved == ASSUME SavedInv, UNCHANGED vars PROVE SavedInv' /\ Shows
<1>1. app' = app /\ saves' = saves
  BY DEF vars
<1>2. LatchInv'
  BY <1>1 DEF SavedInv, LatchInv, HoldsBind
<1>3. QueueInv'
  BY <1>1 DEF SavedInv, QueueInv
<1>4. CandidateInv'
  BY <1>1 DEF SavedInv, CandidateInv, HoldsBind
<1> QED BY <1>1, <1>2, <1>3, <1>4 DEF SavedInv, Shows

\* What the controller shows as committed, without a conflict, is on disk:
\* whatever was latched, retried, rolled back or answered in between, the save
\* that is answered is the active call's, and its document has its root.
THEOREM WhatIsShownIsSaved == Spec => CommittedIsSaved
<1>1. Init => SavedInv
  BY InitSaved
<1>2. BindInv /\ SavedInv /\ TypeOK' /\ [Next]_vars => SavedInv'
  BY SavedStep, StutterSaved
<1>3. BindInv => TypeOK
  BY DEF BindInv
<1>4. Spec => []SavedInv
  BY <1>1, <1>2, <1>3, SpecInv, PTL DEF Spec
<1>5. BindInv /\ SavedInv /\ [Next]_vars => [Shows]_vars
  BY ShowsSaved
<1>6. [][Shows]_vars => CommittedIsSaved
  BY PTL DEF Shows, CommittedIsSaved
<1> QED BY <1>4, <1>5, <1>6, SpecInv, PTL DEF Spec
=============================================================================
