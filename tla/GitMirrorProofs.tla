--------------------------- MODULE GitMirrorProofs --------------------------
(***************************************************************************)
(* Theorems about GitMirror for any repositories, branches and requests,   *)
(* any limits, and any number of pushes, registry changes and crashes.     *)
(***************************************************************************)
EXTENDS GitMirror, TLAPS

(* The inductive invariant, beyond TypeOK.                                  *)

\* What the requests of each kind have left to do while they do it.
Left(p) ==
  IF p \in Runs THEN {<<"resolve", "checkout">>, <<"checkout">>}
  ELSE IF p \in Pulls THEN {<<"pull", "list", "resolve">>, <<"list", "resolve">>, <<"resolve">>}
  ELSE {<<"resolve", "list">>, <<"list">>}

Shape ==
  \A p \in Requests :
    /\ pc[p] \in {"wait", "use"} \cup Locked => todo[p] \in Left(p)
    /\ pc[p] = "seal" => p \in Runs /\ todo[p] = <<"checkout">>
    /\ pc[p] = "idle" => commit[p] = 0

\* A checkout is of what its run has resolved; one that is writable has been unsealed.
Trees ==
  \A r \in Runs : tree[r] # 0 =>
    /\ pc[r] \in {"seal", "done", "failed"}
    /\ pc[r] # "failed" => tree[r] = commit[r]
    /\ pc[r] = "done" => r \in sealed \/ r \in opened

\* Only a completed mirror has a stamp, or is used.
Completed ==
  /\ stamp # 0 => complete
  /\ \A p \in Requests : pc[p] = "use" => complete

\* The heads of the remotes are commits of their own, and not replaced.
Heads ==
  \A u \in Urls, b \in Branches : remote[u][b] # 0 =>
    /\ UrlOf(remote[u][b]) = u
    /\ remote[u][b] \notin DOMAIN replaced
    /\ \A d \in Branches : remote[u][d] = remote[u][b] => d = b

\* What a clone or fetch was told, by whom and when.
Told ==
  \A p \in Requests : pc[p] \in Locked =>
    /\ \A b \in Branches : snap[p][b] # 0 =>
         /\ UrlOf(snap[p][b]) = spec[p]
         /\ HeadSince(snap[p][b], asked[p])
    /\ now <= asked[p] + MaxFetch
    /\ stamp <= asked[p] /\ start[p] <= asked[p]

\* The branches of the mirror are of the repository of the last contact.
OfContact ==
  ~broken /\ (\A p \in Requests : pc[p] # "fetch")
    => \A b \in Branches : refs[b] # 0 => UrlOf(refs[b]) = contact

\* The branches of the mirror, also those a fetch will leave, were heads at t or later.
Since(t) ==
  /\ \A b \in Branches : refs[b] # 0 => HeadSince(refs[b], t)
  /\ \A q \in Requests : pc[q] \in Locked => asked[q] >= t

\* The oldest head request p may be given.
Oldest(p) == start[p] - (MaxAge + MaxFetch) + 1

\* A pull that has contacted the remote.
Pulled(p) == pc[p] = "use" \/ (pc[p] \in {"wait"} \cup Locked /\ Head(todo[p]) # "pull")

Current ==
  /\ stamp # 0 => \A b \in Branches : refs[b] # 0 => HeadSince(refs[b], stamp - MaxFetch)
  /\ \A p \in Requests :
       /\ pc[p] = "use" => Since(Oldest(p))
       /\ commit[p] # 0 => HeadSince(commit[p], Oldest(p))
  /\ \A p \in Pulls :
       /\ Pulled(p) => Since(start[p])
       /\ commit[p] # 0 => HeadSince(commit[p], start[p])

MirrorInv == TypeOK /\ Shape /\ Trees /\ Completed /\ Heads /\ Told /\ OfContact /\ Current

-----------------------------------------------------------------------------
(* Types.                                                                   *)

LEMMA ConstantTypes ==
  /\ \A m \in Moving : m[1] \in Urls /\ m[2] \in Branches
  /\ \A p \in Requests : Ref[p] \in Branches
  /\ DefaultBranch \in Branches /\ HeadBranch \in Branches
  /\ FirstUrl \in Urls /\ FirstCommits \in Seq(Urls)
  /\ MaxAge \in Nat /\ MaxFetch \in Nat \ {0}
<1> QED
  BY MirrorAssumption

LEMMA ProgramType == \A p \in Requests : Program(p) \in Seq(Calls)
<1>1. \A c, d, e \in Calls : <<c, d>> \in Seq(Calls) /\ <<c, d, e>> \in Seq(Calls)
  OBVIOUS
<1> QED
  BY <1>1 DEF Program, Calls

LEMMA CandidateType ==
  ASSUME NEW p \in Requests, tried[p] \in 0 .. 2
  PROVE  Candidates(p)[tried[p] + 1] \in Branches
<1>1. tried[p] + 1 \in 1 .. 3
  OBVIOUS
<1>2. \A i \in 1 .. 3 : Candidates(p)[i] \in Branches
  BY ConstantTypes DEF Candidates
<1> QED
  BY <1>1, <1>2

LEMMA InitType == Init => TypeOK
<1> SUFFICES ASSUME Init PROVE TypeOK
  OBVIOUS
<1>1. \A u \in Urls : FirstHead(u) \in 0 .. Len(FirstCommits)
  BY ConstantTypes DEF FirstHead
<1>2. WorldOK
  <2>1. remote \in [Urls -> [Branches -> 0 .. Len(commits)]]
    BY <1>1, ConstantTypes DEF Init
  <2>2. replaced \in [DOMAIN replaced -> 0 .. now] /\ DOMAIN replaced \subseteq 1 .. Len(commits)
    BY DEF Init
  <2> QED
    BY <2>1, <2>2, ConstantTypes DEF Init, WorldOK
<1>3. MirrorOK
  <2>1. Len(commits) \in Nat /\ now \in Nat
    BY <1>2 DEF WorldOK
  <2>2. FirstUrl \in Urls
    BY ConstantTypes
  <2>3. NoRefs \in [Branches -> 0 .. Len(commits)] /\ 0 \in 0 .. now
    BY <2>1 DEF NoRefs
  <2> QED
    BY <2>2, <2>3 DEF Init, MirrorOK
<1>4. RequestsOK
  BY ConstantTypes DEF Init, RequestsOK, OneWriter, Locked, Position, NoRefs
<1>5. CheckoutsOK
  BY ConstantTypes DEF Init, CheckoutsOK
<1> QED
  BY <1>2, <1>3, <1>4, <1>5 DEF TypeOK

\* Which steps change what.
LEMMA WorldFrame ==
  [Next]_vars =>
    \/ Tick
    \/ \E u \in Urls : Reload(u)
    \/ \E m \in Moving : Push(m[1], m[2]) \/ DropBranch(m[1], m[2])
    \/ Crash
    \/ UNCHANGED <<world, entry, crashes>>
<1> QED
  BY DEF vars, Next, Ensure, Use, CreateWorktree, Begin, StartClone, StartFetch, UseCopy, Take,
     MoveBranch, GitSucceeds, GitFails, Abandon, ListBranches, RevParse, NoSuchRef, CannotResolve,
     Checkout, CheckoutFails, Seal, Unseal, RemoveTree

LEMMA MirrorFrame ==
  [Next]_vars =>
    \/ \E p \in Requests :
         \/ StartClone(p) \/ StartFetch(p) \/ GitSucceeds(p) \/ GitFails(p)
         \/ \E b \in Branches : MoveBranch(p, b)
    \/ Crash
    \/ UNCHANGED <<mirror, contacts>>
<1> QED
  BY DEF vars, Next, Ensure, Use, CreateWorktree, Tick, Reload, Push, DropBranch, Begin,
     UseCopy, Take, ListBranches, RevParse, NoSuchRef, CannotResolve,
     Checkout, CheckoutFails, Seal, Unseal, RemoveTree

LEMMA RequestsFrame ==
  [Next]_vars =>
    \/ \E p \in Requests :
         \/ Begin(p) \/ StartClone(p) \/ StartFetch(p) \/ UseCopy(p) \/ GitSucceeds(p) \/ GitFails(p)
         \/ Use(p)
    \/ \E r \in Runs : Checkout(r) \/ CheckoutFails(r) \/ Seal(r)
    \/ Crash
    \/ UNCHANGED requests
<1> QED
  BY DEF vars, Next, Ensure, CreateWorktree, Tick, Reload, Push, DropBranch, MoveBranch, Unseal,
     RemoveTree

LEMMA CheckoutsFrame ==
  [Next]_vars =>
    \/ \E r \in Runs : Checkout(r) \/ Seal(r) \/ Unseal(r) \/ RemoveTree(r)
    \/ UNCHANGED checkouts
<1> QED
  BY DEF vars, Next, Ensure, Use, CreateWorktree, Tick, Reload, Push, DropBranch, Begin,
     StartClone, StartFetch, UseCopy, Take, MoveBranch, GitSucceeds, GitFails, Abandon,
     ListBranches, RevParse, NoSuchRef, CannotResolve, CheckoutFails, Crash

LEMMA WorldStep ==
  WorldOK /\ [Next]_vars => WorldOK' /\ now <= now' /\ Len(commits) <= Len(commits)'
<1> SUFFICES ASSUME WorldOK, [Next]_vars
             PROVE  WorldOK' /\ now <= now' /\ Len(commits) <= Len(commits)'
  OBVIOUS
<1> USE DEF WorldOK, world, entry
<1>1. CASE Tick
  BY <1>1 DEF Tick
<1>2. ASSUME NEW u \in Urls, Reload(u) PROVE WorldOK' /\ now <= now' /\ Len(commits) <= Len(commits)'
  BY <1>2 DEF Reload
<1>3. ASSUME NEW m \in Moving, Push(m[1], m[2]) PROVE WorldOK' /\ now <= now' /\ Len(commits) <= Len(commits)'
  <2>1. m[1] \in Urls /\ m[2] \in Branches
    BY ConstantTypes
  <2>2. commits' \in Seq(Urls) /\ Len(commits') = Len(commits) + 1
    BY <1>3, <2>1 DEF Push
  <2>3. remote' \in [Urls -> [Branches -> 0 .. Len(commits')]]
    BY <1>3, <2>1, <2>2 DEF Push
  <2>4. replaced' \in [DOMAIN replaced' -> 0 .. now] /\ DOMAIN replaced' \subseteq 1 .. Len(commits')
    <3>1. 1 .. Len(commits) \subseteq 1 .. Len(commits')
      BY <2>2
    <3>2. Retire(remote[m[1]][m[2]])
      BY <1>3 DEF Push
    <3>3. remote[m[1]][m[2]] \in 0 .. Len(commits)
      BY <2>1
    <3> HIDE <2>2
    <3>4. replaced' \in [DOMAIN replaced' -> 0 .. now] /\ DOMAIN replaced' \subseteq 1 .. Len(commits)
      BY <3>2, <3>3 DEF Retire
    <3> QED
      BY <3>1, <3>4
  <2> QED
    BY <1>3, <2>2, <2>3, <2>4 DEF Push
<1>4. ASSUME NEW m \in Moving, DropBranch(m[1], m[2]) PROVE WorldOK' /\ now <= now' /\ Len(commits) <= Len(commits)'
  <2>1. m[1] \in Urls /\ m[2] \in Branches
    BY ConstantTypes
  <2>2. remote' \in [Urls -> [Branches -> 0 .. Len(commits)]]
    BY <1>4, <2>1 DEF DropBranch
  <2>3. replaced' \in [DOMAIN replaced' -> 0 .. now] /\ DOMAIN replaced' \subseteq 1 .. Len(commits)
    BY <1>4, <2>1 DEF DropBranch, Retire
  <2> QED
    BY <1>4, <2>2, <2>3 DEF DropBranch
<1>5. CASE Crash
  BY <1>5 DEF Crash
<1>6. CASE UNCHANGED <<world, entry, crashes>>
  BY <1>6
<1> QED
  BY <1>1, <1>2, <1>3, <1>4, <1>5, <1>6, WorldFrame

\* What is in a type stays in it while the clock and the commits grow.
LEMMA Wider ==
  ASSUME NEW m \in Nat, NEW n \in Nat, m <= n
  PROVE  0 .. m \subseteq 0 .. n
<1> QED
  OBVIOUS

LEMMA MirrorStep == TypeOK /\ [Next]_vars => MirrorOK'
<1> SUFFICES ASSUME TypeOK, [Next]_vars PROVE MirrorOK'
  OBVIOUS
<1> DEFINE n == Len(commits)
<1>1. /\ WorldOK /\ WorldOK' /\ now <= now' /\ n <= n'
      /\ n \in Nat /\ n' \in Nat /\ now \in Nat /\ now' \in Nat
      /\ 0 .. n \subseteq 0 .. n' /\ 0 .. now \subseteq 0 .. now'
  <2>1. WorldOK /\ WorldOK' /\ now <= now' /\ n <= n'
    BY WorldStep DEF TypeOK
  <2>2. n \in Nat /\ n' \in Nat /\ now \in Nat /\ now' \in Nat
    BY <2>1 DEF WorldOK
  <2> HIDE DEF n
  <2> QED
    BY <2>1, <2>2, Wider
<1>2. /\ there \in BOOLEAN /\ origin \in Urls /\ refs \in [Branches -> 0 .. n] /\ stamp \in 0 .. now
      /\ contact \in Urls /\ broken \in BOOLEAN /\ complete \in BOOLEAN
      /\ \A p \in Requests : spec[p] \in Urls /\ snap[p] \in [Branches -> 0 .. n]
  BY DEF TypeOK, MirrorOK, RequestsOK
<1> HIDE DEF n
<1>3. /\ refs \in [Branches -> 0 .. n'] /\ stamp \in 0 .. now'
      /\ now \in 0 .. now' /\ 0 \in 0 .. now'
      /\ \A p \in Requests : snap[p] \in [Branches -> 0 .. n']
      /\ NoRefs \in [Branches -> 0 .. n']
  BY <1>1, <1>2 DEF NoRefs
<1>4. SUFFICES /\ there' \in BOOLEAN /\ origin' \in Urls /\ refs' \in [Branches -> 0 .. n']
               /\ stamp' \in 0 .. now' /\ contact' \in Urls /\ broken' \in BOOLEAN
               /\ complete' \in BOOLEAN
  BY DEF MirrorOK, n
<1> USE <1>2, <1>3 DEF mirror, contacts
<1>5. CASE \E p \in Requests : StartClone(p)
  BY <1>5 DEF StartClone, Take
<1>6. CASE \E p \in Requests : StartFetch(p)
  BY <1>6 DEF StartFetch, Take, SyncedOrigin
<1>7. CASE \E p \in Requests : GitSucceeds(p)
  BY <1>7 DEF GitSucceeds
<1>8. CASE \E p \in Requests : GitFails(p)
  BY <1>8 DEF GitFails
<1>9. CASE \E p \in Requests : \E b \in Branches : MoveBranch(p, b)
  BY <1>9 DEF MoveBranch
<1>10. CASE Crash
  BY <1>10 DEF Crash
<1>11. CASE UNCHANGED <<mirror, contacts>>
  BY <1>11
<1> QED
  BY <1>5, <1>6, <1>7, <1>8, <1>9, <1>10, <1>11, MirrorFrame

LEMMA CheckoutsStep == TypeOK /\ [Next]_vars => CheckoutsOK'
<1> SUFFICES ASSUME TypeOK, [Next]_vars PROVE CheckoutsOK'
  OBVIOUS
<1> DEFINE n == Len(commits)
<1>1. n \in Nat /\ n' \in Nat /\ 0 .. n \subseteq 0 .. n'
  BY WorldStep, Wider DEF TypeOK, WorldOK
<1>2. /\ tree \in [Runs -> 0 .. n] /\ sealed \subseteq Runs /\ opened \subseteq Runs
      /\ \A r \in Runs : commit[r] \in 0 .. n
  BY DEF TypeOK, CheckoutsOK, RequestsOK, Requests
<1> HIDE DEF n
<1> DEFINE Goal == /\ tree' \in [Runs -> 0 .. n']
                   /\ sealed' \subseteq Runs
                   /\ opened' \subseteq Runs
<1>3. SUFFICES Goal
  BY DEF CheckoutsOK, n
<1> USE <1>1, <1>2 DEF checkouts
<1>4. ASSUME NEW r \in Runs, Checkout(r) PROVE Goal
  BY <1>4 DEF Checkout
<1>5. ASSUME NEW r \in Runs, Seal(r) PROVE Goal
  BY <1>5 DEF Seal
<1>6. ASSUME NEW r \in Runs, Unseal(r) PROVE Goal
  BY <1>6 DEF Unseal
<1>7. ASSUME NEW r \in Runs, RemoveTree(r) PROVE Goal
  BY <1>7 DEF RemoveTree
<1>8. CASE UNCHANGED checkouts
  BY <1>8
<1> QED
  BY <1>4, <1>5, <1>6, <1>7, <1>8, CheckoutsFrame

LEMMA RequestsStep == TypeOK /\ Shape /\ [Next]_vars => RequestsOK'
<1> SUFFICES ASSUME TypeOK, Shape, [Next]_vars PROVE RequestsOK'
  OBVIOUS
<1> DEFINE n == Len(commits)
<1>1. /\ n \in Nat /\ n' \in Nat /\ now \in Nat /\ now' \in Nat
      /\ 0 .. n \subseteq 0 .. n' /\ 0 .. now \subseteq 0 .. now'
  BY WorldStep, Wider DEF TypeOK, WorldOK
<1>2. /\ registry \in Urls /\ remote \in [Urls -> [Branches -> 0 .. n]]
      /\ refs \in [Branches -> 0 .. n]
      /\ NoRefs \in [Branches -> 0 .. n]
  BY <1>1 DEF TypeOK, WorldOK, MirrorOK, NoRefs
<1>3. OneWriter
  BY DEF TypeOK, RequestsOK
<1>4. /\ pc \in [Requests -> Position]
      /\ todo \in [Requests -> Seq(Calls)]
      /\ spec \in [Requests -> Urls]
      /\ snap \in [Requests -> [Branches -> 0 .. n]]
      /\ asked \in [Requests -> 0 .. now]
      /\ tried \in [Requests -> 0 .. 2]
      /\ commit \in [Requests -> 0 .. n]
      /\ start \in [Requests -> 0 .. now]
  BY DEF TypeOK, RequestsOK
<1>5. \A p \in Requests : todo[p] # <<>> => Tail(todo[p]) \in Seq(Calls)
  BY <1>4
<1>6. \A p \in Requests : pc[p] \in {"use", "seal"} => todo[p] # <<>>
  <2>1. \A p \in Requests : <<>> \notin Left(p) /\ <<"checkout">> # <<>>
    BY DEF Left
  <2> QED
    BY <2>1 DEF Shape
<1>7. Runs \subseteq Requests
  BY DEF Requests
<1> DEFINE Typed ==
      /\ pc' \in [Requests -> Position]
      /\ todo' \in [Requests -> Seq(Calls)]
      /\ spec' \in [Requests -> Urls]
      /\ snap' \in [Requests -> [Branches -> 0 .. n]]
      /\ asked' \in [Requests -> 0 .. now]
      /\ tried' \in [Requests -> 0 .. 2]
      /\ commit' \in [Requests -> 0 .. n]
      /\ start' \in [Requests -> 0 .. now]
<1> HIDE DEF n
<1>8. SUFFICES Typed /\ OneWriter'
  BY <1>1 DEF RequestsOK, n
<1> USE <1>1, <1>2, <1>3, <1>4 DEF git, requests, OneWriter, Locked, Position
<1>9. ASSUME NEW p \in Requests, Abandon(p) PROVE Typed /\ OneWriter'
  BY <1>9 DEF Abandon, Answered
<1>10. ASSUME NEW p \in Requests, Begin(p) PROVE Typed /\ OneWriter'
  <2>1. Program(p) \in Seq(Calls)
    BY ProgramType
  <2> QED
    BY <1>10, <2>1 DEF Begin
<1>11. ASSUME NEW p \in Requests, StartClone(p) PROVE Typed /\ OneWriter'
  BY <1>11 DEF StartClone, Take, Ask, LockFree
<1>12. ASSUME NEW p \in Requests, StartFetch(p) PROVE Typed /\ OneWriter'
  BY <1>12 DEF StartFetch, Take, Ask, SyncedOrigin, LockFree
<1>13. ASSUME NEW p \in Requests, UseCopy(p) PROVE Typed /\ OneWriter'
  BY <1>13 DEF UseCopy, Take
<1>14. ASSUME NEW p \in Requests, GitSucceeds(p) PROVE Typed /\ OneWriter'
  <2>1. /\ pc' = [pc EXCEPT ![p] = "use"] /\ UNCHANGED <<todo, spec, tried, commit, start>>
        /\ snap' = [snap EXCEPT ![p] = NoRefs] /\ asked' = [asked EXCEPT ![p] = 0]
    BY <1>14 DEF GitSucceeds, Answered
  <2> QED
    BY <2>1
<1>15. ASSUME NEW p \in Requests, GitFails(p) PROVE Typed /\ OneWriter'
  BY <1>15, <1>9 DEF GitFails
<1>16. ASSUME NEW p \in Requests, ListBranches(p) PROVE Typed /\ OneWriter'
  BY <1>5, <1>6, <1>16 DEF ListBranches, NextCall
<1>17. ASSUME NEW p \in Requests, RevParse(p) PROVE Typed /\ OneWriter'
  <2> DEFINE c == refs[Candidates(p)[tried[p] + 1]]
  <2>1. Candidates(p)[tried[p] + 1] \in Branches
    BY CandidateType
  <2>2. c \in 0 .. n
    BY <2>1
  <2>3. /\ commit' = [commit EXCEPT ![p] = c]
        /\ tried' = [tried EXCEPT ![p] = 0]
        /\ pc[p] = "use" /\ NextCall(p)
        /\ UNCHANGED <<git, start>>
    BY <1>17 DEF RevParse
  <2> HIDE DEF c
  <2> QED
    BY <1>5, <1>6, <2>2, <2>3 DEF NextCall
<1>18. ASSUME NEW p \in Requests, NoSuchRef(p) PROVE Typed /\ OneWriter'
  <2>1. tried[p] < 2 /\ tried' = [tried EXCEPT ![p] = tried[p] + 1]
    BY <1>18 DEF NoSuchRef
  <2>2. UNCHANGED <<pc, todo, spec, git, commit, start>>
    BY <1>18 DEF NoSuchRef
  <2>3. tried[p] + 1 \in 0 .. 2
    <3>1. tried[p] \in 0 .. 2
      OBVIOUS
    <3> QED
      BY <2>1, <3>1
  <2>4. tried' \in [Requests -> 0 .. 2]
    BY <2>1, <2>3
  <2> QED
    BY <2>2, <2>4
<1>19. ASSUME NEW p \in Requests, CannotResolve(p) PROVE Typed /\ OneWriter'
  BY <1>19, <1>9 DEF CannotResolve
<1>20. ASSUME NEW r \in Runs, Checkout(r) PROVE Typed /\ OneWriter'
  BY <1>7, <1>20 DEF Checkout
<1>21. ASSUME NEW r \in Runs, CheckoutFails(r) PROVE Typed /\ OneWriter'
  BY <1>7, <1>21, <1>9 DEF CheckoutFails
<1>22. ASSUME NEW r \in Runs, Seal(r) PROVE Typed /\ OneWriter'
  BY <1>5, <1>6, <1>7, <1>22 DEF Seal, NextCall
<1>23. CASE Crash
  BY <1>23 DEF Crash
<1>24. CASE UNCHANGED requests
  BY <1>24
<1> QED
  BY <1>10, <1>11, <1>12, <1>13, <1>14, <1>15, <1>16, <1>17, <1>18, <1>19, <1>20, <1>21, <1>22,
     <1>23, <1>24, RequestsFrame DEF Use

LEMMA StepType == TypeOK /\ Shape /\ [Next]_vars => TypeOK'
<1> QED
  BY WorldStep, MirrorStep, RequestsStep, CheckoutsStep DEF TypeOK

-----------------------------------------------------------------------------
(* What requests have left to do, and what they use.                        *)

LEMMA LeftTail ==
  ASSUME NEW p \in Requests, NEW t \in Left(p)
  PROVE  t # <<>> /\ (Len(t) # 1 => Tail(t) \in Left(p) /\ Head(Tail(t)) # "pull")
<1>1. \A c, d : Len(<<c>>) = 1 /\ <<c>> # <<>>
                /\ <<c, d>> # <<>> /\ Tail(<<c, d>>) = <<d>> /\ Head(<<d>>) = d
  OBVIOUS
<1>2. \A c, d, e : <<c, d, e>> # <<>> /\ Tail(<<c, d, e>>) = <<d, e>> /\ Head(<<d, e>>) = d
  OBVIOUS
<1>3. CASE p \in Runs
  BY <1>1, <1>3 DEF Left
<1>4. CASE p \notin Runs /\ p \in Pulls
  <2>1. CASE t = <<"pull", "list", "resolve">>
    BY <1>2, <1>4, <2>1 DEF Left
  <2>2. CASE t \in {<<"list", "resolve">>, <<"resolve">>}
    BY <1>1, <1>4, <2>2 DEF Left
  <2> QED
    BY <1>4, <2>1, <2>2 DEF Left
<1>5. CASE p \notin Runs /\ p \notin Pulls
  BY <1>1, <1>5 DEF Left
<1> QED
  BY <1>3, <1>4, <1>5

LEMMA ShapeStep == TypeOK /\ Shape /\ [Next]_vars => Shape'
<1> SUFFICES ASSUME TypeOK, Shape, [Next]_vars, NEW q \in Requests
             PROVE  /\ pc'[q] \in {"wait", "use"} \cup Locked => todo'[q] \in Left(q)
                    /\ pc'[q] = "seal" => q \in Runs /\ todo'[q] = <<"checkout">>
                    /\ pc'[q] = "idle" => commit'[q] = 0
  BY DEF Shape, Left, Locked
<1> DEFINE Goal == /\ pc'[q] \in {"wait", "use"} \cup Locked => todo'[q] \in Left(q)
                   /\ pc'[q] = "seal" => q \in Runs /\ todo'[q] = <<"checkout">>
                   /\ pc'[q] = "idle" => commit'[q] = 0
<1>1. /\ pc \in [Requests -> Position] /\ todo \in [Requests -> Seq(Calls)]
      /\ commit \in [Requests -> 0 .. Len(commits)]
  BY DEF TypeOK, RequestsOK
<1>2. /\ pc[q] \in {"wait", "use"} \cup Locked => todo[q] \in Left(q)
      /\ pc[q] = "seal" => q \in Runs /\ todo[q] = <<"checkout">>
      /\ pc[q] = "idle" => commit[q] = 0
  BY DEF Shape
<1> USE <1>1, <1>2 DEF Locked, git, requests
<1>3. ASSUME NEW p \in Requests, Begin(p) PROVE Goal
  BY <1>3 DEF Begin, Program, Left
<1>4. ASSUME NEW p \in Requests, StartClone(p) PROVE Goal
  BY <1>4 DEF StartClone, Take
<1>5. ASSUME NEW p \in Requests, StartFetch(p) PROVE Goal
  BY <1>5 DEF StartFetch, Take
<1>6. ASSUME NEW p \in Requests, UseCopy(p) PROVE Goal
  BY <1>6 DEF UseCopy, Take
<1>7. ASSUME NEW p \in Requests, GitSucceeds(p) PROVE Goal
  BY <1>7 DEF GitSucceeds
<1>8. ASSUME NEW p \in Requests, GitFails(p) PROVE Goal
  BY <1>8 DEF GitFails, Abandon
<1>9. ASSUME NEW p \in Requests, ListBranches(p) PROVE Goal
  BY <1>9, LeftTail DEF ListBranches, NextCall
<1>10. ASSUME NEW p \in Requests, RevParse(p) PROVE Goal
  BY <1>10, LeftTail DEF RevParse, NextCall
<1>11. ASSUME NEW p \in Requests, NoSuchRef(p) PROVE Goal
  BY <1>11 DEF NoSuchRef
<1>12. ASSUME NEW p \in Requests, CannotResolve(p) PROVE Goal
  BY <1>12 DEF CannotResolve, Abandon
<1>13. ASSUME NEW r \in Runs, Checkout(r) PROVE Goal
  <2>1. r \in Requests /\ (todo[r] \in Left(r) /\ Head(todo[r]) = "checkout" => todo[r] = <<"checkout">>)
    BY DEF Left, Requests
  <2> QED
    BY <1>13, <2>1 DEF Checkout
<1>14. ASSUME NEW r \in Runs, CheckoutFails(r) PROVE Goal
  BY <1>14 DEF CheckoutFails, Abandon, Requests
<1>15. ASSUME NEW r \in Runs, Seal(r) PROVE Goal
  <2>1. r \in Requests /\ pc[r] = "seal" /\ UNCHANGED commit
    BY <1>15 DEF Seal, Requests
  <2>2. todo[r] = <<"checkout">>
    BY <2>1 DEF Shape
  <2>3. pc' = [pc EXCEPT ![r] = "done"] /\ todo' = [todo EXCEPT ![r] = Tail(@)]
    BY <1>15, <2>2 DEF Seal, NextCall
  <2> QED
    BY <2>1, <2>3
<1>16. CASE Crash
  BY <1>16 DEF Crash, Position
<1>17. CASE UNCHANGED requests
  BY <1>17
<1> QED
  BY <1>3, <1>4, <1>5, <1>6, <1>7, <1>8, <1>9, <1>10, <1>11, <1>12, <1>13, <1>14, <1>15, <1>16,
     <1>17, RequestsFrame DEF Use

LEMMA CompletedStep == TypeOK /\ Completed /\ [Next]_vars => Completed'
<1> SUFFICES ASSUME TypeOK, Completed, [Next]_vars PROVE Completed'
  OBVIOUS
<1> USE DEF Completed
<1>1. complete \in BOOLEAN /\ pc \in [Requests -> Position]
  BY DEF TypeOK, MirrorOK, RequestsOK
<1>2. complete => complete'
  BY <1>1, MirrorFrame DEF StartClone, StartFetch, Take, contacts, GitSucceeds, GitFails, MoveBranch, Crash
<1>3. stamp' # 0 => complete'
  BY <1>1, MirrorFrame
     DEF StartClone, StartFetch, Take, mirror, contacts, GitSucceeds, GitFails, MoveBranch, Crash
<1>4. ASSUME NEW q \in Requests, pc'[q] = "use" PROVE complete'
  <2> USE <1>1, <1>4
  <2>1. CASE pc[q] = "use"
    BY <1>2, <2>1
  <2>2. ASSUME NEW p \in Requests, UseCopy(p) PROVE complete'
    BY <1>2, <2>2 DEF UseCopy, Fresh
  <2>3. ASSUME NEW p \in Requests, GitSucceeds(p) PROVE complete'
    BY <2>3 DEF GitSucceeds
  <2> HIDE <1>2
  <2>4. \/ pc[q] = "use" \/ \E p \in Requests : UseCopy(p) \/ GitSucceeds(p)
    BY RequestsFrame
       DEF Begin, StartClone, StartFetch, Take, GitFails, Use, ListBranches, RevParse, NoSuchRef,
       CannotResolve, NextCall, Abandon, Checkout, CheckoutFails, Seal, Crash, requests
  <2> QED
    BY <2>1, <2>2, <2>3, <2>4
<1> QED
  BY <1>3, <1>4

LEMMA TreesStep == TypeOK /\ Shape /\ Trees /\ [Next]_vars => Trees'
<1> SUFFICES ASSUME TypeOK, Shape, Trees, [Next]_vars, NEW q \in Runs, tree'[q] # 0
             PROVE  /\ pc'[q] \in {"seal", "done", "failed"}
                    /\ pc'[q] # "failed" => tree'[q] = commit'[q]
                    /\ pc'[q] = "done" => q \in sealed' \/ q \in opened'
  BY DEF Trees
<1> DEFINE Goal == /\ pc'[q] \in {"seal", "done", "failed"}
                   /\ pc'[q] # "failed" => tree'[q] = commit'[q]
                   /\ pc'[q] = "done" => q \in sealed' \/ q \in opened'
<1>1. /\ pc \in [Requests -> Position] /\ commit \in [Requests -> 0 .. Len(commits)]
      /\ tree \in [Runs -> 0 .. Len(commits)] /\ Runs \subseteq Requests
  BY DEF TypeOK, RequestsOK, CheckoutsOK, Requests
<1> USE <1>1
<1>2. ASSUME NEW r \in Runs, Checkout(r) PROVE Goal
  BY <1>2 DEF Checkout, Trees
<1>3. ASSUME NEW r \in Runs, Seal(r) PROVE Goal
  <2>1. pc[r] = "seal" /\ NextCall(r) /\ UNCHANGED <<tree, commit, opened>>
        /\ sealed' = IF tree[r] = 0 THEN sealed ELSE sealed \cup {r}
    BY <1>3 DEF Seal
  <2>2. todo[r] = <<"checkout">>
    BY <2>1 DEF Shape
  <2>3. pc' = [pc EXCEPT ![r] = "done"]
    BY <2>1, <2>2 DEF NextCall
  <2> QED
    BY <2>1, <2>3 DEF Trees
<1>4. ASSUME NEW r \in Runs, Unseal(r) PROVE Goal
  BY <1>4 DEF Unseal, requests, Trees
<1>5. ASSUME NEW r \in Runs, RemoveTree(r) PROVE Goal
  BY <1>5 DEF RemoveTree, requests, Trees
<1>6. CASE UNCHANGED checkouts
  <2>1. /\ tree[q] # 0 /\ pc[q] \in {"seal", "done", "failed"}
        /\ pc[q] # "failed" => tree[q] = commit[q]
        /\ pc[q] = "done" => q \in sealed \/ q \in opened
        /\ tree'[q] = tree[q] /\ sealed' = sealed /\ opened' = opened
    BY <1>6 DEF checkouts, Trees
  <2>2. CASE \E r \in Runs : Checkout(r) \/ Seal(r)
    BY <1>2, <1>3, <2>2
  <2>3. \/ pc'[q] = pc[q] /\ commit'[q] = commit[q]
        \/ pc'[q] = "failed"
        \/ \E r \in Runs : Checkout(r) \/ Seal(r)
    BY <2>1, RequestsFrame
       DEF Begin, StartClone, StartFetch, UseCopy, Take, GitSucceeds, GitFails, CommandRuns, Locked,
       Use, ListBranches, RevParse, NoSuchRef, CannotResolve, NextCall, Abandon, CheckoutFails, Crash,
       requests
  <2> QED
    BY <2>1, <2>2, <2>3
<1> QED
  BY <1>2, <1>3, <1>4, <1>5, <1>6, CheckoutsFrame

-----------------------------------------------------------------------------
(* What the remotes have and have had.                                      *)

\* A commit stays the commit of its repository.
LEMMA UrlStep ==
  ASSUME WorldOK, [Next]_vars, NEW c \in 1 .. Len(commits)
  PROVE  commits'[c] = UrlOf(c)
<1>1. commits' = commits \/ \E u \in Urls : commits' = Append(commits, u)
  <2>1. \A m \in Moving : m[1] \in Urls
    BY ConstantTypes
  <2> QED
    BY <2>1, WorldFrame DEF Tick, Reload, Push, DropBranch, Crash, world
<1> QED
  BY <1>1 DEF WorldOK, UrlOf

\* After the step: commit c was a head, and so were the branches of the mirror, at t or later.
StillHead(c, t) == c \in DOMAIN replaced' => replaced'[c] >= t

StillSince(t) ==
  /\ \A b \in Branches : refs'[b] # 0 => StillHead(refs'[b], t)
  /\ \A q \in Requests : pc'[q] \in Locked => asked'[q] >= t

\* What was a head at time t or later still was.
LEMMA HeadStep ==
  ASSUME WorldOK, [Next]_vars, NEW c \in Nat, NEW t \in Int, t <= now, HeadSince(c, t)
  PROVE  StillHead(c, t)
<1>1. replaced' = replaced \/ \E d \in Nat : Retire(d)
  <2>1. \A m \in Moving : remote[m[1]][m[2]] \in Nat
    <3>1. \A m \in Moving : m[1] \in Urls /\ m[2] \in Branches
      BY ConstantTypes
    <3>2. \A u \in Urls, b \in Branches : remote[u][b] \in 0 .. Len(commits)
      BY DEF WorldOK
    <3> QED
      BY <3>1, <3>2
  <2> QED
    BY <2>1, WorldFrame DEF Tick, Reload, Push, DropBranch, Crash, world
<1>2. now \in Nat
  BY DEF WorldOK
<1> QED
  BY <1>1, <1>2 DEF Retire, HeadSince, StillHead

LEMMA HeadsInit == Init => Heads
<1> SUFFICES ASSUME Init, NEW u \in Urls, NEW b \in Branches, remote[u][b] # 0
             PROVE  /\ UrlOf(remote[u][b]) = u
                    /\ remote[u][b] \notin DOMAIN replaced
                    /\ \A d \in Branches : remote[u][d] = remote[u][b] => d = b
  BY DEF Heads
<1>1. \A d \in Branches : remote[u][d] # 0 => d = DefaultBranch /\ remote[u][d] = FirstHead(u)
  BY DEF Init
<1>2. FirstHead(u) # 0 => FirstCommits[FirstHead(u)] = u
  BY DEF FirstHead
<1> QED
  BY <1>1, <1>2 DEF Init, UrlOf

LEMMA HeadsStep == TypeOK /\ Heads /\ [Next]_vars => Heads'
<1> SUFFICES ASSUME TypeOK, Heads, [Next]_vars, NEW u \in Urls, NEW b \in Branches, remote'[u][b] # 0
             PROVE  /\ commits'[remote'[u][b]] = u
                    /\ remote'[u][b] \notin DOMAIN replaced'
                    /\ \A d \in Branches : remote'[u][d] = remote'[u][b] => d = b
  BY DEF Heads, UrlOf
<1> DEFINE Goal == /\ commits'[remote'[u][b]] = u
                   /\ remote'[u][b] \notin DOMAIN replaced'
                   /\ \A d \in Branches : remote'[u][d] = remote'[u][b] => d = b
<1>1. /\ commits \in Seq(Urls) /\ remote \in [Urls -> [Branches -> 0 .. Len(commits)]]
      /\ DOMAIN replaced \subseteq 1 .. Len(commits)
      /\ \A v \in Urls, d \in Branches : remote[v][d] # 0 =>
           /\ commits[remote[v][d]] = v
           /\ remote[v][d] \notin DOMAIN replaced
           /\ \A e \in Branches : remote[v][e] = remote[v][d] => e = d
  BY DEF TypeOK, WorldOK, Heads, UrlOf
<1>2. \A m \in Moving : m[1] \in Urls /\ m[2] \in Branches
  BY ConstantTypes
<1>3. ASSUME NEW v \in Urls, NEW d \in Branches, Push(v, d) PROVE Goal
  BY <1>1, <1>3 DEF Push, Retire
<1>4. ASSUME NEW v \in Urls, NEW d \in Branches, DropBranch(v, d) PROVE Goal
  BY <1>1, <1>4 DEF DropBranch, Retire
<1>5. CASE UNCHANGED <<remote, commits, replaced>>
  BY <1>1, <1>5
<1> QED
  BY <1>2, <1>3, <1>4, <1>5, WorldFrame DEF Tick, Reload, Crash, world

\* Only the request that holds the lock is told anything, and only by asking.
LEMMA LockedStep ==
  ASSUME TypeOK, [Next]_vars, NEW q \in Requests, pc'[q] \in Locked
  PROVE  \/ pc[q] \in Locked /\ UNCHANGED <<pc[q], spec[q], snap[q], asked[q], start[q]>>
         \/ StartClone(q) \/ StartFetch(q)
<1>1. /\ pc \in [Requests -> Position]
      /\ spec \in [Requests -> Urls]
      /\ snap \in [Requests -> [Branches -> 0 .. Len(commits)]]
      /\ asked \in [Requests -> 0 .. now]
      /\ start \in [Requests -> 0 .. now]
      /\ Runs \subseteq Requests
  BY DEF TypeOK, RequestsOK, Requests
<1>2. ASSUME NEW p \in Requests, StartClone(p) \/ StartFetch(p), p # q PROVE FALSE
  BY <1>1, <1>2 DEF StartClone, StartFetch, Take, LockFree, Locked
<1> DEFINE Same == pc[q] \in Locked /\ UNCHANGED <<pc[q], spec[q], snap[q], asked[q], start[q]>>
<1> USE <1>1 DEF Locked, git, requests
<1>3. ASSUME NEW p \in Requests, Begin(p) \/ UseCopy(p) PROVE Same
  BY <1>3 DEF Begin, UseCopy, Take
<1>4. ASSUME NEW p \in Requests, GitSucceeds(p) \/ GitFails(p) PROVE Same
  BY <1>4 DEF GitSucceeds, GitFails, Abandon, Answered
<1>5. ASSUME NEW p \in Requests, Use(p) PROVE Same
  BY <1>5 DEF Use, ListBranches, RevParse, NoSuchRef, CannotResolve, NextCall, Abandon, Answered
<1>6. ASSUME NEW r \in Runs, Checkout(r) \/ CheckoutFails(r) \/ Seal(r) PROVE Same
  BY <1>6 DEF Checkout, CheckoutFails, Seal, NextCall, Abandon, Answered
<1>7. CASE UNCHANGED requests
  BY <1>7
<1>8. ~Crash
  BY DEF Crash
<1> HIDE DEF Same
<1> QED
  BY <1>2, <1>3, <1>4, <1>5, <1>6, <1>7, <1>8, RequestsFrame DEF Same

LEMMA ToldStep == TypeOK /\ Heads /\ Told /\ [Next]_vars => Told'
<1> SUFFICES ASSUME TypeOK, Heads, Told, [Next]_vars, NEW q \in Requests, pc'[q] \in Locked
             PROVE  /\ \A b \in Branches : snap'[q][b] # 0 =>
                         /\ commits'[snap'[q][b]] = spec'[q]
                         /\ StillHead(snap'[q][b], asked'[q])
                    /\ now' <= asked'[q] + MaxFetch
                    /\ stamp' <= asked'[q] /\ start'[q] <= asked'[q]
  BY DEF Told, HeadSince, StillHead, Locked, UrlOf
<1> DEFINE Goal == /\ \A b \in Branches : snap'[q][b] # 0 =>
                         /\ commits'[snap'[q][b]] = spec'[q]
                         /\ StillHead(snap'[q][b], asked'[q])
                   /\ now' <= asked'[q] + MaxFetch
                   /\ stamp' <= asked'[q] /\ start'[q] <= asked'[q]
<1>1. /\ pc \in [Requests -> Position]
      /\ spec \in [Requests -> Urls]
      /\ snap \in [Requests -> [Branches -> 0 .. Len(commits)]]
      /\ asked \in [Requests -> 0 .. now]
      /\ start \in [Requests -> 0 .. now]
      /\ now \in Nat /\ stamp \in 0 .. now /\ MaxFetch \in Nat
  BY ConstantTypes DEF TypeOK, WorldOK, MirrorOK, RequestsOK
<1>2. OneWriter /\ WorldOK
  BY DEF TypeOK, RequestsOK
<1>3. CASE pc[q] \in Locked /\ UNCHANGED <<pc[q], spec[q], snap[q], asked[q], start[q]>>
  <2>1. ASSUME NEW b \in Branches, snap'[q][b] # 0
        PROVE  /\ commits'[snap'[q][b]] = spec'[q]
               /\ StillHead(snap'[q][b], asked'[q])
    <3>1. snap'[q][b] = snap[q][b] /\ snap[q][b] \in 1 .. Len(commits) /\ asked'[q] = asked[q]
      BY <1>1, <1>3, <2>1
    <3>2. UrlOf(snap[q][b]) = spec[q] /\ HeadSince(snap[q][b], asked[q])
      BY <1>3, <2>1 DEF Told
    <3>3. commits'[snap[q][b]] = UrlOf(snap[q][b])
      BY <1>2, <3>1, UrlStep
    <3>4. snap[q][b] \in Nat /\ asked[q] \in Int /\ asked[q] <= now
      BY <1>1, <3>1
    <3>5. StillHead(snap[q][b], asked[q])
      BY <1>2, <3>2, <3>4, HeadStep
    <3> QED
      BY <1>3, <3>1, <3>2, <3>3, <3>5 DEF UrlOf, StillHead
  <2>2. now' <= asked[q] + MaxFetch
    <3>1. now' = now \/ Tick
      BY WorldFrame DEF Reload, Push, DropBranch, Crash, world
    <3> QED
      BY <1>1, <1>3, <3>1 DEF Tick, Told
  <2>3. stamp' = stamp \/ stamp' = 0
    <3>1. ASSUME NEW p \in Requests, GitSucceeds(p) PROVE FALSE
      BY <1>1, <1>2, <1>3, <3>1 DEF GitSucceeds, OneWriter, Locked
    <3> QED
      BY <3>1, MirrorFrame DEF StartClone, StartFetch, GitFails, MoveBranch, Crash, mirror
  <2>4. stamp <= asked[q] /\ start[q] <= asked[q] /\ 0 <= asked[q]
    BY <1>1, <1>3 DEF Told
  <2> QED
    BY <1>3, <2>1, <2>2, <2>3, <2>4
<1>4. CASE StartClone(q) \/ StartFetch(q)
  <2>1. \E v \in Urls : spec'[q] = v /\ snap'[q] = remote[v]
    BY <1>1, <1>4 DEF StartClone, StartFetch, Take, Ask, SyncedOrigin
  <2>2. asked'[q] = now /\ start'[q] = start[q] /\ UNCHANGED <<now, commits, replaced>>
    BY <1>1, <1>4 DEF StartClone, StartFetch, Take, Ask, world
  <2>3. stamp' = stamp \/ stamp' = 0
    BY <1>4 DEF StartClone, StartFetch
  <2>4. start[q] <= now
    BY <1>1
  <2> QED
    BY <1>1, <2>1, <2>2, <2>3, <2>4 DEF Heads, UrlOf, StillHead
<1> QED
  BY <1>3, <1>4, LockedStep

LEMMA OfContactStep == TypeOK /\ Told /\ OfContact /\ [Next]_vars => OfContact'
<1> SUFFICES ASSUME TypeOK, Told, OfContact, [Next]_vars,
                    ~broken', \A p \in Requests : pc'[p] # "fetch", NEW b \in Branches, refs'[b] # 0
             PROVE  commits'[refs'[b]] = contact'
  BY DEF OfContact, UrlOf
<1>1. /\ pc \in [Requests -> Position]
      /\ refs \in [Branches -> 0 .. Len(commits)]
      /\ \A p \in Requests : snap[p] \in [Branches -> 0 .. Len(commits)]
      /\ OneWriter /\ WorldOK
  BY DEF TypeOK, MirrorOK, RequestsOK
<1>2. ASSUME NEW p \in Requests, StartClone(p) PROVE FALSE
  BY <1>2 DEF StartClone, NoRefs
<1>3. ASSUME NEW p \in Requests, StartFetch(p) \/ \E d \in Branches : MoveBranch(p, d) PROVE FALSE
  BY <1>1, <1>3 DEF StartFetch, Take, MoveBranch, requests
<1>4. ASSUME NEW p \in Requests, GitSucceeds(p) PROVE commits'[refs'[b]] = contact'
  <2>1. refs'[b] = snap[p][b] /\ snap[p][b] \in 1 .. Len(commits) /\ contact' = spec[p]
    BY <1>1, <1>4 DEF GitSucceeds
  <2>2. commits'[snap[p][b]] = UrlOf(snap[p][b])
    BY <1>1, <2>1, UrlStep
  <2> QED
    BY <1>4, <2>1, <2>2 DEF GitSucceeds, Told, UrlOf
<1>5. CASE refs' = refs /\ contact' = contact /\ ~broken /\ \A p \in Requests : pc[p] # "fetch"
  <2>1. refs[b] \in 1 .. Len(commits) /\ UrlOf(refs[b]) = contact
    BY <1>1, <1>5 DEF OfContact
  <2>2. commits'[refs[b]] = UrlOf(refs[b])
    BY <1>1, <2>1, UrlStep
  <2> QED
    BY <1>5, <2>1, <2>2 DEF UrlOf
<1>6. ASSUME NEW p \in Requests, GitFails(p) PROVE commits'[refs'[b]] = contact'
  <2>1. ~broken /\ pc[p] # "fetch" /\ refs' = refs /\ contact' = contact
    BY <1>6 DEF GitFails
  <2>2. \A r \in Requests : r # p => pc'[r] = pc[r]
    BY <1>1, <1>6 DEF GitFails, Abandon
  <2> QED
    BY <1>5, <2>1, <2>2
<1>7. CASE Crash
  BY <1>5, <1>7 DEF Crash, mirror
<1>8. CASE UNCHANGED <<mirror, contacts>>
  <2>1. \A p \in Requests : pc[p] = "fetch" => pc'[p] = "fetch" \/ GitSucceeds(p) \/ GitFails(p) \/ Crash
    BY <1>1, RequestsFrame
       DEF Begin, StartClone, StartFetch, UseCopy, Take, GitSucceeds, GitFails, Abandon, Use,
       ListBranches, RevParse, NoSuchRef, CannotResolve, NextCall, Checkout, CheckoutFails, Seal,
       requests, Requests
  <2> QED
    BY <1>4, <1>5, <1>6, <1>7, <1>8, <2>1 DEF mirror, contacts
<1> QED
  BY <1>2, <1>3, <1>4, <1>6, <1>7, <1>8, MirrorFrame

-----------------------------------------------------------------------------
(* How old what is used can be.                                             *)

\* A bound on the age of the mirror stays one: what comes in is not older than what the
\* git command was told, and a new command is told what is the case now.
LEMMA SinceStep ==
  ASSUME TypeOK, Told, [Next]_vars, NEW t \in Int, t <= now, Since(t)
  PROVE  StillSince(t)
<1>1. /\ refs \in [Branches -> 0 .. Len(commits)]
      /\ \A p \in Requests : snap[p] \in [Branches -> 0 .. Len(commits)] /\ asked[p] \in 0 .. now
      /\ WorldOK /\ now \in Nat /\ Len(commits) \in Nat
  BY DEF TypeOK, WorldOK, MirrorOK, RequestsOK
<1>2. ASSUME NEW b \in Branches, refs[b] # 0 PROVE StillHead(refs[b], t)
  <2>1. refs[b] \in Nat /\ HeadSince(refs[b], t)
    BY <1>1, <1>2 DEF Since
  <2> QED
    BY <1>1, <2>1, HeadStep
<1>3. ASSUME NEW p \in Requests, pc[p] \in Locked, NEW b \in Branches, snap[p][b] # 0
      PROVE  StillHead(snap[p][b], t)
  <2>1. snap[p][b] \in Nat /\ HeadSince(snap[p][b], asked[p]) /\ asked[p] >= t
    BY <1>1, <1>3 DEF Since, Told
  <2>2. HeadSince(snap[p][b], t)
    BY <1>1, <2>1 DEF HeadSince, TypeOK, WorldOK
  <2> QED
    BY <1>1, <2>1, <2>2, HeadStep
<1>4. ASSUME NEW b \in Branches, refs'[b] # 0 PROVE StillHead(refs'[b], t)
  <2>1. \/ refs'[b] = refs[b]
        \/ \E p \in Requests : pc[p] \in Locked /\ refs'[b] = snap[p][b]
    BY <1>1, <1>4, MirrorFrame
       DEF StartClone, NoRefs, StartFetch, GitSucceeds, GitFails, MoveBranch, Crash, mirror, Locked
  <2> QED
    BY <1>2, <1>3, <1>4, <2>1
<1>5. ASSUME NEW q \in Requests, pc'[q] \in Locked PROVE asked'[q] >= t
  <2>1. (pc[q] \in Locked /\ asked'[q] = asked[q]) \/ asked'[q] = now
    <3>1. CASE StartClone(q) \/ StartFetch(q)
      BY <3>1 DEF StartClone, StartFetch, Ask, TypeOK, RequestsOK
    <3> QED
      BY <1>5, <3>1, LockedStep
  <2> QED
    BY <1>1, <2>1 DEF Since
<1> QED
  BY <1>4, <1>5 DEF StillSince

\* A request comes to use the mirror by finding it fresh or by a git command.
LEMMA UseStep ==
  ASSUME TypeOK, [Next]_vars, NEW q \in Requests, pc'[q] = "use"
  PROVE  \/ pc[q] = "use" /\ UNCHANGED <<pc[q], start[q]>>
         \/ UseCopy(q) \/ GitSucceeds(q)
<1>1. /\ pc \in [Requests -> Position] /\ start \in [Requests -> 0 .. now]
      /\ Runs \subseteq Requests
  BY DEF TypeOK, RequestsOK, Requests
<1> QED
  BY <1>1, RequestsFrame
     DEF Begin, StartClone, StartFetch, UseCopy, Take, GitSucceeds, GitFails, Use, ListBranches, RevParse,
     NoSuchRef, CannotResolve, NextCall, Abandon, Checkout, CheckoutFails, Seal, Crash, requests

\* A pull that has contacted the remote has done so before, or does so now.
LEMMA PulledStep ==
  ASSUME TypeOK, Shape, [Next]_vars, NEW q \in Pulls,
         pc'[q] \in {"wait"} \cup Locked, Head(todo'[q]) # "pull"
  PROVE  Pulled(q) /\ UNCHANGED start[q]
<1>1. /\ pc \in [Requests -> Position] /\ todo \in [Requests -> Seq(Calls)]
      /\ start \in [Requests -> 0 .. now]
      /\ q \in Requests /\ q \notin Runs /\ Runs \subseteq Requests
  BY MirrorAssumption DEF TypeOK, RequestsOK, Requests
<1> DEFINE Goal == Pulled(q) /\ UNCHANGED start[q]
<1> USE <1>1 DEF Pulled, Locked
<1>2. ASSUME NEW p \in Requests, Begin(p) PROVE Goal
  BY <1>2 DEF Begin, Program
<1>3. ASSUME NEW p \in Requests, StartClone(p) \/ StartFetch(p) \/ UseCopy(p) PROVE Goal
  BY <1>3 DEF StartClone, StartFetch, UseCopy, Take
<1>4. ASSUME NEW p \in Requests, GitSucceeds(p) \/ GitFails(p) PROVE Goal
  BY <1>4 DEF GitSucceeds, GitFails, Abandon
<1>5. ASSUME NEW p \in Requests, Use(p) PROVE Goal
  BY <1>5 DEF Use, ListBranches, RevParse, NoSuchRef, CannotResolve, NextCall, Abandon
<1>6. ASSUME NEW r \in Runs, Checkout(r) \/ CheckoutFails(r) \/ Seal(r) PROVE Goal
  BY <1>6 DEF Checkout, CheckoutFails, Seal, NextCall, Abandon
<1>7. CASE UNCHANGED requests
  BY <1>7 DEF requests
<1>8. ~Crash
  BY DEF Crash
<1> HIDE DEF Goal
<1> QED
  BY <1>2, <1>3, <1>4, <1>5, <1>6, <1>7, <1>8, RequestsFrame DEF Goal

\* What a request has resolved it has read in the mirror.
LEMMA CommitStep ==
  ASSUME TypeOK, Shape, [Next]_vars, NEW q \in Requests, commit'[q] # 0
  PROVE  \/ commit[q] # 0 /\ UNCHANGED <<commit[q], start[q]>>
         \/ /\ pc[q] = "use" /\ UNCHANGED <<start[q], refs>>
            /\ \E b \in Branches : refs[b] = commit'[q]
<1>1. /\ pc \in [Requests -> Position] /\ commit \in [Requests -> 0 .. Len(commits)]
      /\ start \in [Requests -> 0 .. now]
      /\ Runs \subseteq Requests
      /\ pc[q] = "idle" => commit[q] = 0
      /\ tried[q] \in 0 .. 2
  BY DEF TypeOK, RequestsOK, Requests, Shape
<1> DEFINE Goal ==
      \/ commit[q] # 0 /\ UNCHANGED <<commit[q], start[q]>>
      \/ /\ pc[q] = "use" /\ UNCHANGED <<start[q], refs>>
         /\ \E b \in Branches : refs[b] = commit'[q]
<1> USE <1>1
<1>2. ASSUME NEW p \in Requests, RevParse(p) PROVE Goal
  <2>1. CASE p = q
    <3>1. Candidates(q)[tried[q] + 1] \in Branches
      BY CandidateType
    <3> QED
      BY <1>2, <2>1, <3>1 DEF RevParse, mirror
  <2>2. CASE p # q
    BY <1>2, <2>2 DEF RevParse
  <2> QED
    BY <2>1, <2>2
<1>3. CASE ~\E p \in Requests : RevParse(p)
  <2>1. commit'[q] = commit[q] /\ start'[q] = start[q]
    BY <1>3, RequestsFrame
       DEF Begin, StartClone, StartFetch, UseCopy, Take, GitSucceeds, GitFails, Use, ListBranches,
       NoSuchRef, CannotResolve, NextCall, Abandon, Checkout, CheckoutFails, Seal, Crash, requests
  <2> QED
    BY <2>1
<1> QED
  BY <1>2, <1>3

\* What a git command has left is not older than its request.
LEMMA SucceedsStep ==
  ASSUME TypeOK, Told, [Next]_vars, NEW q \in Requests, GitSucceeds(q)
  PROVE  StillSince(start[q]) /\ UNCHANGED start[q]
<1>1. /\ pc[q] \in Locked /\ refs' = snap[q] /\ start' = start
      /\ \A p \in Requests : pc'[p] \notin Locked
  BY DEF GitSucceeds, TypeOK, RequestsOK, OneWriter, Locked, Position
<1>2. /\ snap[q] \in [Branches -> 0 .. Len(commits)] /\ start[q] \in Nat /\ asked[q] \in 0 .. now
      /\ now \in Nat /\ WorldOK
  BY DEF TypeOK, RequestsOK, WorldOK
<1>3. ASSUME NEW b \in Branches, snap[q][b] # 0 PROVE StillHead(snap[q][b], start[q])
  <2>1. snap[q][b] \in Nat /\ HeadSince(snap[q][b], asked[q]) /\ start[q] <= asked[q]
    BY <1>1, <1>2, <1>3 DEF Told, WorldOK
  <2>2. HeadSince(snap[q][b], start[q])
    BY <1>2, <2>1 DEF HeadSince, WorldOK
  <2> QED
    BY <1>2, <2>1, <2>2, HeadStep
<1> QED
  BY <1>1, <1>3 DEF StillSince

LEMMA StampStep ==
  ASSUME TypeOK, Told, Current, [Next]_vars, stamp' # 0, NEW b \in Branches, refs'[b] # 0
  PROVE  StillHead(refs'[b], stamp' - MaxFetch)
<1>1. /\ refs \in [Branches -> 0 .. Len(commits)] /\ stamp \in Nat /\ stamp <= now
      /\ \A p \in Requests : snap[p] \in [Branches -> 0 .. Len(commits)] /\ asked[p] \in 0 .. now
      /\ now \in Nat /\ Len(commits) \in Nat /\ WorldOK /\ MaxFetch \in Nat
  <2>1. MaxFetch \in Nat
    BY ConstantTypes
  <2>2. /\ now \in Nat /\ Len(commits) \in Nat /\ WorldOK
        /\ refs \in [Branches -> 0 .. Len(commits)]
        /\ stamp \in 0 .. now
    BY DEF TypeOK, MirrorOK, WorldOK
  <2>3. \A p \in Requests : snap[p] \in [Branches -> 0 .. Len(commits)] /\ asked[p] \in 0 .. now
    BY DEF TypeOK, RequestsOK
  <2> QED
    BY <2>1, <2>2, <2>3
<1>2. CASE stamp' = stamp /\ refs'[b] = refs[b]
  <2>1. HeadSince(refs[b], stamp - MaxFetch) /\ refs[b] \in Nat
    BY <1>1, <1>2 DEF Current
  <2>2. stamp - MaxFetch \in Int /\ stamp - MaxFetch <= now
    BY <1>1
  <2> QED
    BY <1>1, <1>2, <2>1, <2>2, HeadStep
<1>3. ASSUME NEW p \in Requests, pc[p] \in Locked, refs'[b] = snap[p][b], stamp' \in {stamp, now}
      PROVE  StillHead(refs'[b], stamp' - MaxFetch)
  <2>1. /\ HeadSince(snap[p][b], asked[p]) /\ snap[p][b] \in Nat
        /\ stamp <= asked[p] /\ now <= asked[p] + MaxFetch
    BY <1>1, <1>3 DEF Told
  <2> DEFINE t == stamp' - MaxFetch
  <2>2. t \in Int /\ t <= asked[p] /\ t <= now
    <3>1. stamp \in Nat /\ now \in Nat /\ MaxFetch \in Nat /\ asked[p] \in Nat /\ asked[p] <= now
      BY <1>1
    <3>2. stamp' \in Nat /\ stamp' <= asked[p] + MaxFetch
      BY <1>3, <2>1, <3>1
    <3>3. \A s, a, m \in Nat : s <= a + m => s - m \in Int /\ s - m <= a
      OBVIOUS
    <3>4. t \in Int /\ t <= asked[p]
      BY <3>1, <3>2, <3>3
    <3> QED
      BY <3>1, <3>4
  <2> HIDE DEF t
  <2>3. HeadSince(snap[p][b], t)
    <3>1. \A c \in DOMAIN replaced : replaced[c] \in Nat
      BY <1>1 DEF WorldOK
    <3>2. asked[p] \in Nat
      BY <1>1
    <3> QED
      BY <2>1, <2>2, <3>1, <3>2 DEF HeadSince
  <2>4. StillHead(snap[p][b], t)
    BY <1>1, <2>1, <2>2, <2>3, HeadStep
  <2> QED
    BY <1>3, <2>4 DEF t
<1>4. \/ stamp' = stamp /\ refs'[b] = refs[b]
      \/ \E p \in Requests : pc[p] \in Locked /\ refs'[b] = snap[p][b] /\ stamp' \in {stamp, now}
  BY <1>1, MirrorFrame
     DEF StartClone, StartFetch, GitSucceeds, GitFails, MoveBranch, Crash, mirror, Locked
<1> QED
  BY <1>2, <1>3, <1>4

LEMMA CurrentStep == TypeOK /\ Shape /\ Told /\ Current /\ [Next]_vars => Current'
<1> SUFFICES ASSUME TypeOK, Shape, Told, Current, [Next]_vars PROVE Current'
  OBVIOUS
<1>1. /\ now \in Nat /\ stamp \in Nat /\ stamp <= now /\ WorldOK
      /\ \A p \in Requests : start[p] \in Nat /\ start[p] <= now /\ commit[p] \in Nat
      /\ Pulls \subseteq Requests
      /\ refs \in [Branches -> 0 .. Len(commits)]
      /\ MaxAge \in Nat /\ MaxFetch \in Nat /\ MaxFetch > 0
  <2>1. MaxAge \in Nat /\ MaxFetch \in Nat /\ MaxFetch > 0
    BY ConstantTypes
  <2> QED
    BY <2>1 DEF TypeOK, WorldOK, MirrorOK, RequestsOK, Requests
<1>2. \A p \in Requests : Oldest(p) \in Int /\ Oldest(p) <= start[p] /\ Oldest(p) <= now
  BY <1>1 DEF Oldest
<1>3. ASSUME NEW p \in Requests, GitSucceeds(p) PROVE StillSince(start[p]) /\ StillSince(Oldest(p))
  <2>1. StillSince(start[p])
    BY <1>3, SucceedsStep
  <2>2. ASSUME NEW c, StillHead(c, start[p]) PROVE StillHead(c, Oldest(p))
    <3>1. c \in DOMAIN replaced' => replaced'[c] \in Nat
      BY WorldStep, <1>1 DEF WorldOK
    <3> QED
      BY <1>1, <1>2, <2>2, <3>1 DEF StillHead
  <2>3. \A q \in Requests : pc'[q] \notin Locked
    BY <1>3 DEF GitSucceeds, TypeOK, RequestsOK, OneWriter, Locked, Position
  <2> QED
    BY <2>1, <2>2, <2>3 DEF StillSince
<1>4. ASSUME NEW p \in Requests, UseCopy(p) PROVE Since(Oldest(p)) /\ Head(todo[p]) # "pull"
  <2>1. stamp # 0 /\ now - stamp < AgeLimit(Head(todo[p])) /\ LockFree
    BY <1>4 DEF UseCopy, Take, Fresh
  <2>2. Head(todo[p]) # "pull" /\ now - stamp < MaxAge
    BY <1>1, <2>1 DEF AgeLimit
  <2>3. Oldest(p) <= stamp - MaxFetch
    BY <1>1, <2>2 DEF Oldest
  <2>4. ASSUME NEW b \in Branches, refs[b] # 0 PROVE HeadSince(refs[b], Oldest(p))
    <3>1. HeadSince(refs[b], stamp - MaxFetch)
      BY <2>1, <2>4 DEF Current
    <3> QED
      BY <1>1, <1>2, <2>3, <3>1 DEF HeadSince, WorldOK
  <2> QED
    BY <2>1, <2>2, <2>4 DEF Since, LockFree
<1>5. ASSUME NEW p \in Requests, pc'[p] = "use" PROVE StillSince(Oldest(p)) /\ UNCHANGED start[p]
  <2>1. CASE pc[p] = "use" /\ UNCHANGED start[p]
    BY <1>1, <1>2, <2>1, SinceStep DEF Current
  <2>2. CASE UseCopy(p)
    <3>1. UNCHANGED start[p]
      BY <2>2 DEF UseCopy, Take
    <3> QED
      BY <1>1, <1>2, <1>4, <2>2, <3>1, SinceStep
  <2>3. CASE GitSucceeds(p)
    BY <1>3, <2>3, SucceedsStep
  <2> QED
    BY <1>5, <2>1, <2>2, <2>3, UseStep
<1>6. ASSUME NEW p \in Requests, commit'[p] # 0
      PROVE  StillHead(commit'[p], Oldest(p)) /\ UNCHANGED start[p]
             /\ (p \in Pulls => StillHead(commit'[p], start[p]))
  <2>1. CASE commit[p] # 0 /\ UNCHANGED <<commit[p], start[p]>>
    <3>1. HeadSince(commit[p], Oldest(p)) /\ (p \in Pulls => HeadSince(commit[p], start[p]))
      BY <2>1 DEF Current
    <3> QED
      BY <1>1, <1>2, <2>1, <3>1, HeadStep
  <2>2. ASSUME pc[p] = "use", UNCHANGED <<start[p], refs>>, NEW b \in Branches, refs[b] = commit'[p]
        PROVE  StillHead(commit'[p], Oldest(p)) /\ UNCHANGED start[p]
               /\ (p \in Pulls => StillHead(commit'[p], start[p]))
    <3>1. HeadSince(refs[b], Oldest(p)) /\ (p \in Pulls => HeadSince(refs[b], start[p]))
      BY <1>6, <2>2 DEF Current, Since, Pulled
    <3>2. refs[b] \in Nat
      BY <1>1
    <3> QED
      BY <1>1, <1>2, <2>2, <3>1, <3>2, HeadStep
  <2> QED
    BY <1>6, <2>1, <2>2, CommitStep
<1>7. ASSUME NEW p \in Pulls, Pulled(p)' PROVE StillSince(start[p]) /\ UNCHANGED start[p]
  <2>1. p \in Requests
    BY <1>1
  <2>2. ASSUME Pulled(p), UNCHANGED start[p] PROVE StillSince(start[p])
    BY <1>1, <2>1, <2>2, SinceStep DEF Current
  <2>3. CASE pc'[p] # "use"
    BY <1>7, <2>2, <2>3, PulledStep DEF Pulled, Locked
  <2>4. CASE pc'[p] = "use" /\ pc[p] = "use" /\ UNCHANGED start[p]
    BY <2>2, <2>4 DEF Pulled
  <2>5. CASE UseCopy(p)
    <3>1. Pulled(p) /\ UNCHANGED start[p]
      BY <1>4, <2>1, <2>5 DEF UseCopy, Take, Pulled
    <3> QED
      BY <2>2, <3>1
  <2>6. CASE GitSucceeds(p)
    BY <1>3, <2>1, <2>6, SucceedsStep
  <2> QED
    BY <2>1, <2>3, <2>4, <2>5, <2>6, UseStep
<1>8. stamp' # 0 => \A b \in Branches : refs'[b] # 0 => HeadSince(refs[b], stamp - MaxFetch)'
  BY StampStep DEF HeadSince, StillHead
<1>9. \A p \in Requests :
        /\ pc'[p] = "use" => Since(Oldest(p))'
        /\ commit'[p] # 0 => HeadSince(commit[p], Oldest(p))'
  BY <1>5, <1>6 DEF Oldest, Since, StillSince, HeadSince, StillHead, Locked
<1>10. \A p \in Pulls :
        /\ Pulled(p)' => Since(start[p])'
        /\ commit'[p] # 0 => HeadSince(commit[p], start[p])'
  BY <1>1, <1>6, <1>7 DEF Since, StillSince, HeadSince, StillHead, Locked
<1> QED
  BY <1>8, <1>9, <1>10 DEF Current

-----------------------------------------------------------------------------
(* The theorems.                                                            *)

LEMMA InvInit == Init => MirrorInv
<1> SUFFICES ASSUME Init PROVE MirrorInv
  OBVIOUS
<1>1. TypeOK /\ Heads
  BY InitType, HeadsInit
<1>2. \A p \in Requests : pc[p] = "idle" /\ commit[p] = 0
  BY DEF Init
<1>3. Shape
  BY <1>2 DEF Shape, Locked
<1>4. Trees
  BY DEF Init, Trees
<1>5. Completed /\ Told
  BY <1>2 DEF Init, Completed, Told, Locked
<1>6. OfContact /\ Current
  BY <1>2 DEF Init, OfContact, NoRefs, Current, Pulled, Locked, Requests
<1> QED
  BY <1>1, <1>3, <1>4, <1>5, <1>6 DEF MirrorInv

LEMMA InvStep == MirrorInv /\ [Next]_vars => MirrorInv'
<1> QED
  BY StepType, ShapeStep, TreesStep, CompletedStep, HeadsStep, ToldStep, OfContactStep, CurrentStep
     DEF MirrorInv

LEMMA Invariance == Spec => []MirrorInv
<1> QED
  BY InvInit, InvStep, PTL DEF Spec

\* Every variable has its type, and one git command at a time writes the mirror.
THEOREM TypeCorrect == Spec => []TypeOK
<1>1. MirrorInv => TypeOK
  BY DEF MirrorInv
<1> QED
  BY <1>1, Invariance, PTL

\* ensure_mirror() never lets a request use what a killed clone has left.
THEOREM MirrorIsComplete == Spec => []NeverHalfCloned
<1>1. MirrorInv => NeverHalfCloned
  BY DEF MirrorInv, Completed, NeverHalfCloned
<1> QED
  BY <1>1, Invariance, PTL

\* What a run resolves is not older than the age limit and the duration of a fetch.
THEOREM CopiesAreFresh == Spec => []FreshEnough
<1>1. MirrorInv => FreshEnough
  BY DEF MirrorInv, Current, Oldest, FreshEnough
<1> QED
  BY <1>1, Invariance, PTL

\* What "pull from remote" reports is what the remote had after it was asked for.
THEOREM PullsAreCurrent == Spec => []PullIsCurrent
<1>1. MirrorInv => PullIsCurrent
  BY DEF MirrorInv, Current, PullIsCurrent
<1> QED
  BY <1>1, Invariance, PTL

\* _sync_origin() and --prune leave branches of one repository in the mirror.
THEOREM MirrorOfOneRepository == Spec => []OneRepository
<1>1. MirrorInv => OneRepository
  BY DEF MirrorInv, OfContact, OneRepository, LockFree, Locked
<1> QED
  BY <1>1, Invariance, PTL

\* A run analyses the commit it has recorded, in a checkout that is read-only unless a
\* removal has begun to take it away.
THEOREM RunsArePinned == Spec => []PinnedCheckout
<1>1. MirrorInv => PinnedCheckout
  BY DEF MirrorInv, Trees, PinnedCheckout
<1> QED
  BY <1>1, Invariance, PTL
=============================================================================
