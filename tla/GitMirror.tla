----------------------------- MODULE GitMirror ------------------------------
(***************************************************************************)
(* GitService (services/git_service.py) for one registry entry: the bare   *)
(* mirror with its fetch stamp, and the requests that use it.              *)
(*                                                                         *)
(* Every request is one thread: the fetch phase of a run (resolve_ref,     *)
(* then create_worktree), POST fetch (fetch_remote) and POST resolve       *)
(* (RunService.resolve_ref).  Each is a sequence of calls, each of them    *)
(* begins with ensure_mirror(), and only ensure_mirror() and the checkout  *)
(* hold the lock of the repository: revisions are read without it.         *)
(*                                                                         *)
(* git itself is external: it copies what the remote has when it is asked, *)
(* a fetch moves one branch after the other, and a command can fail, hang  *)
(* until its timeout, or be killed at any point.                           *)
(***************************************************************************)
EXTENDS Integers, Sequences, FiniteSets

CONSTANTS
  Urls,
  FirstUrl,       \* the URL of the entry when the service starts
  FirstCommits,   \* the URLs of the commits there are by then, on the default branches
  Branches,
  DefaultBranch,  \* RepoSpec.default_branch
  HeadBranch,     \* the branch HEAD of the remotes names
  Runs, Pulls, Previews,
  Ref,            \* Ref[p]: the branch request p asks for
  MaxAge,         \* MIRROR_MAX_AGE_SECONDS
  MaxFetch,       \* the timeout of a clone or fetch
  Moving,         \* bound: the branches that change, as <<url, branch>>
  MaxTime,        \* bound: the clock
  MaxPushes,      \* bound: commits
  MaxReloads,     \* bound: changes of the registry
  MaxCrashes      \* bound: crashes of the service

Requests == Runs \cup Pulls \cup Previews

ASSUME MirrorAssumption ==
  /\ Runs \cap (Pulls \cup Previews) = {}
  /\ FirstUrl \in Urls
  /\ FirstCommits \in Seq(Urls)
  /\ {DefaultBranch, HeadBranch} \subseteq Branches
  /\ Moving \subseteq Urls \X Branches
  /\ Ref \in [Requests -> Branches]
  /\ \A p \in Pulls : Ref[p] = DefaultBranch
  /\ {MaxAge, MaxTime, MaxPushes, MaxReloads, MaxCrashes} \subseteq Nat
  /\ MaxFetch \in Nat \ {0}

VARIABLES
  now,        \* the clock
  registry,   \* the URL of the entry
  remote,     \* remote[u][b]: the commit of branch b at URL u, 0 for none
  commits,    \* the URL of each commit ever pushed
  there,      \* the mirror has a HEAD
  origin,     \* its origin
  refs,       \* refs[b]: the commit of branch b in the mirror, 0 for none
  stamp,      \* .last_fetch, 0 for none
  pc,         \* pc[p]: where request p is
  todo,       \* todo[p]: the calls p has left, the current one first
  spec,       \* spec[p]: the URL that p's current call has read from the registry
  snap,       \* snap[p]: what the remote advertised to p's git command
  asked,      \* asked[p]: when p's git command was started
  tried,      \* tried[p]: the candidates resolve_ref() has tried
  commit,     \* commit[p]: what p has resolved, 0 for nothing
  tree,       \* tree[r]: the commit checked out for run r, 0 for none
  sealed,     \* the runs whose checkout is read-only
  opened,     \* the runs whose checkout a removal has made writable
  crashes, reloads,
  start,      \* history: start[p]: when p began
  changed,    \* history: when the registry changed last
  replaced,   \* history: replaced[c]: when c ceased to be the head of its branch
  contact,    \* history: the URL of the last contact that succeeded
  broken,     \* history: a fetch failed after it may have moved branches
  complete    \* history: the mirror has been fetched completely

world == <<now, remote, commits, replaced>>
entry == <<registry, reloads, changed>>
mirror == <<there, origin, refs, stamp>>
git == <<snap, asked>>
requests == <<pc, todo, spec, git, tried, commit, start>>
checkouts == <<tree, sealed, opened>>
contacts == <<contact, broken, complete>>
vars == <<world, entry, mirror, requests, checkouts, contacts, crashes>>

-----------------------------------------------------------------------------
Calls == {"pull", "list", "resolve", "checkout"}

\* The calls of _fetch.work, fetch_remote and RunService.resolve_ref.
Program(p) ==
  IF p \in Runs THEN <<"resolve", "checkout">>
  ELSE IF p \in Pulls THEN <<"pull", "list", "resolve">>
  ELSE <<"resolve", "list">>

\* A git command writes the mirror, under the lock.
Locked == {"clone", "fetch"}

LockFree == \A p \in Requests : pc[p] \notin Locked

\* resolve_ref() tries these; a mirror has no refs/remotes, so "origin/..." names nothing.
Candidates(p) == <<Ref[p], DefaultBranch, HeadBranch>>

NoRefs == [b \in Branches |-> 0]

\* Mutant: "max_age_seconds or the default".
AgeLimitMutant(call) == MaxAge

\* max_age_seconds of ensure_mirror(): only "pull from remote" passes one.
AgeLimit(call) == IF call = "pull" THEN 0 ELSE MaxAge

\* Mutant: a mirror without a stamp is new.
FreshMutant(limit) == limit > 0 /\ (stamp # 0 => now - stamp < limit)

\* The mirror is used as it is; without a stamp it is very old.
Fresh(limit) == stamp # 0 /\ now - stamp < limit

\* The repository commit c comes from.
UrlOf(c) == commits[c]

\* Commit c was the head of its branch at time t or later.
HeadSince(c, t) == c \in DOMAIN replaced => replaced[c] >= t

-----------------------------------------------------------------------------
FirstHead(u) ==
  IF \E n \in DOMAIN FirstCommits : FirstCommits[n] = u
  THEN CHOOSE n \in DOMAIN FirstCommits : FirstCommits[n] = u
  ELSE 0

Init ==
  /\ now = 1
  /\ registry = FirstUrl
  /\ remote = [u \in Urls |-> [b \in Branches |-> IF b = DefaultBranch THEN FirstHead(u) ELSE 0]]
  /\ commits = FirstCommits
  /\ there = FALSE
  /\ origin = FirstUrl
  /\ refs = NoRefs
  /\ stamp = 0
  /\ pc = [p \in Requests |-> "idle"]
  /\ todo = [p \in Requests |-> <<>>]
  /\ spec = [p \in Requests |-> FirstUrl]
  /\ snap = [p \in Requests |-> NoRefs]
  /\ asked = [p \in Requests |-> 0]
  /\ tried = [p \in Requests |-> 0]
  /\ commit = [p \in Requests |-> 0]
  /\ tree = [r \in Runs |-> 0]
  /\ sealed = {}
  /\ opened = {}
  /\ crashes = 0
  /\ reloads = 0
  /\ start = [p \in Requests |-> 0]
  /\ changed = 0
  /\ replaced = <<>>
  /\ contact = FirstUrl
  /\ broken = FALSE
  /\ complete = FALSE

-----------------------------------------------------------------------------
(* The remotes, the clock and the registry.                                 *)

\* No clone or fetch outlives its timeout.
Tick ==
  /\ now < MaxTime
  /\ \A p \in Requests : pc[p] \in Locked => now < asked[p] + MaxFetch
  /\ now' = now + 1
  /\ UNCHANGED <<remote, commits, replaced, entry, mirror, requests, checkouts, contacts, crashes>>

\* Commit c is no longer the head of its branch.
Retire(c) ==
  replaced' = IF c = 0 THEN replaced
              ELSE [d \in DOMAIN replaced \cup {c} |-> IF d = c THEN now ELSE replaced[d]]

Push(u, b) ==
  /\ Len(commits) < MaxPushes
  /\ commits' = Append(commits, u)
  /\ remote' = [remote EXCEPT ![u][b] = Len(commits) + 1]
  /\ Retire(remote[u][b])
  /\ UNCHANGED <<now, entry, mirror, requests, checkouts, contacts, crashes>>

\* A host refuses to remove the branch its HEAD names.
DropBranch(u, b) ==
  /\ remote[u][b] # 0
  /\ b # HeadBranch
  /\ remote' = [remote EXCEPT ![u][b] = 0]
  /\ Retire(remote[u][b])
  /\ UNCHANGED <<now, commits, entry, mirror, requests, checkouts, contacts, crashes>>

\* reload_specs() reads another URL for the same repo_key.
Reload(u) ==
  /\ reloads < MaxReloads
  /\ u # registry
  /\ reloads' = reloads + 1
  /\ registry' = u
  /\ changed' = now
  /\ UNCHANGED <<world, mirror, requests, checkouts, contacts, crashes>>

-----------------------------------------------------------------------------
(* ensure_mirror().                                                         *)

\* The call is over: the next one of the request, which begins by reading the
\* specification of the repository, or its end.
NextCall(p) ==
  /\ todo' = [todo EXCEPT ![p] = Tail(@)]
  /\ pc' = [pc EXCEPT ![p] = IF Len(todo[p]) = 1 THEN "done" ELSE "wait"]
  /\ spec' = [spec EXCEPT ![p] = registry]

Begin(p) ==
  /\ pc[p] = "idle"
  /\ pc' = [pc EXCEPT ![p] = "wait"]
  /\ todo' = [todo EXCEPT ![p] = Program(p)]
  /\ spec' = [spec EXCEPT ![p] = registry]
  /\ start' = [start EXCEPT ![p] = now]
  /\ UNCHANGED <<world, entry, mirror, git, tried, commit, checkouts, contacts, crashes>>

\* Mutant: no lock for the repository.
TakeMutant(p, next) ==
  /\ pc[p] = "wait"
  /\ pc' = [pc EXCEPT ![p] = next]
  /\ UNCHANGED <<world, entry, todo, spec, tried, commit, start, checkouts, contacts, crashes>>

\* The lock is granted.
Take(p, next) ==
  /\ pc[p] = "wait"
  /\ LockFree
  /\ pc' = [pc EXCEPT ![p] = next]
  /\ UNCHANGED <<world, entry, todo, spec, tried, commit, start, checkouts, contacts, crashes>>

\* git asks the remote at `url` what it has.
Ask(p, url) ==
  /\ snap' = [snap EXCEPT ![p] = remote[url]]
  /\ asked' = [asked EXCEPT ![p] = now]

Answered(p) ==
  /\ snap' = [snap EXCEPT ![p] = NoRefs]
  /\ asked' = [asked EXCEPT ![p] = 0]

\* A clone writes HEAD and the origin first.
StartClone(p) ==
  /\ ~there
  /\ Take(p, "clone")
  /\ Ask(p, spec[p])
  /\ there' = TRUE
  /\ origin' = spec[p]
  /\ refs' = NoRefs
  /\ stamp' = 0

\* _sync_origin().
SyncedOrigin(p) == spec[p]

StartFetch(p) ==
  /\ there
  /\ pc[p] = "wait"
  /\ ~Fresh(AgeLimit(Head(todo[p])))
  /\ Take(p, "fetch")
  /\ origin' = SyncedOrigin(p)
  /\ Ask(p, origin')
  /\ UNCHANGED <<there, refs, stamp>>

UseCopy(p) ==
  /\ there
  /\ pc[p] = "wait"
  /\ Fresh(AgeLimit(Head(todo[p])))
  /\ Take(p, "use")
  /\ UNCHANGED <<git, mirror>>

\* fetch --prune moves, adds or removes one branch.
MoveBranch(p, b) ==
  /\ pc[p] = "fetch"
  /\ refs[b] # snap[p][b]
  /\ refs' = [refs EXCEPT ![b] = snap[p][b]]
  /\ UNCHANGED <<world, entry, there, origin, stamp, requests, checkouts, contacts, crashes>>

\* git ends: a fetch has moved every branch, a clone writes them at once.  The stamp is
\* written, at best (_touch_fetched), and the lock released.
GitSucceeds(p) ==
  /\ pc[p] \in Locked
  /\ pc[p] = "fetch" => refs = snap[p]
  /\ pc' = [pc EXCEPT ![p] = "use"]
  /\ refs' = snap[p]
  /\ stamp' \in {stamp, now}
  /\ Answered(p)
  /\ contact' = spec[p]
  /\ broken' = FALSE
  /\ complete' = TRUE
  /\ UNCHANGED <<world, entry, there, origin, todo, spec, tried, commit, start, checkouts, crashes>>

\* A clone or fetch runs, or git reads the mirror.
CommandRuns(p) ==
  \/ pc[p] \in Locked
  \/ pc[p] = "use" /\ Head(todo[p]) \in {"list", "resolve"}

\* GitError ends the request, what it has resolved is lost.
Abandon(p) ==
  /\ pc' = [pc EXCEPT ![p] = "failed"]
  /\ todo' = [todo EXCEPT ![p] = <<>>]
  /\ Answered(p)
  /\ tried' = [tried EXCEPT ![p] = 0]
  /\ commit' = [commit EXCEPT ![p] = 0]
  /\ UNCHANGED <<world, entry, spec, start, checkouts, crashes>>

\* Mutant: the stamp is written "finally".
GitFailsStampedMutant(p) ==
  /\ CommandRuns(p)
  /\ Abandon(p)
  /\ stamp' = IF pc[p] = "fetch" THEN now ELSE stamp
  /\ broken' = (broken \/ pc[p] = "fetch")
  /\ UNCHANGED <<there, origin, refs, contact, complete>>

\* The command fails or is killed by its timeout.  A clone that fails removes what it
\* has made, one that is killed does not.
GitFails(p) ==
  /\ CommandRuns(p)
  /\ Abandon(p)
  /\ there' \in IF pc[p] = "clone" THEN BOOLEAN ELSE {there}
  /\ broken' = (broken \/ pc[p] = "fetch")
  /\ UNCHANGED <<origin, refs, stamp, contact, complete>>

-----------------------------------------------------------------------------
(* The calls, after ensure_mirror().                                        *)

\* ensure_mirror() was all, or the names of the branches are read.
ListBranches(p) ==
  /\ pc[p] = "use"
  /\ Head(todo[p]) \in {"pull", "list"}
  /\ NextCall(p)
  /\ UNCHANGED <<world, entry, mirror, git, tried, commit, start, checkouts, contacts, crashes>>

\* One rev-parse of resolve_ref(): the candidate names a commit,
RevParse(p) ==
  /\ pc[p] = "use"
  /\ Head(todo[p]) = "resolve"
  /\ LET c == refs[Candidates(p)[tried[p] + 1]] IN
       /\ c # 0
       /\ commit' = [commit EXCEPT ![p] = c]
  /\ tried' = [tried EXCEPT ![p] = 0]
  /\ NextCall(p)
  /\ UNCHANGED <<world, entry, mirror, git, start, checkouts, contacts, crashes>>

\* or it does not, and the next one is tried,
NoSuchRef(p) ==
  /\ pc[p] = "use"
  /\ Head(todo[p]) = "resolve"
  /\ refs[Candidates(p)[tried[p] + 1]] = 0
  /\ tried[p] < 2
  /\ tried' = [tried EXCEPT ![p] = @ + 1]
  /\ UNCHANGED <<world, entry, mirror, pc, todo, spec, git, commit, start, checkouts, contacts, crashes>>

\* or it was the last one.
CannotResolve(p) ==
  /\ pc[p] = "use"
  /\ Head(todo[p]) = "resolve"
  /\ refs[Candidates(p)[tried[p] + 1]] = 0
  /\ tried[p] = 2
  /\ Abandon(p)
  /\ UNCHANGED <<mirror, contacts>>

\* Mutant: the checkout is of the revision asked for, by name.
CheckoutMutant(p) ==
  /\ pc[p] = "use"
  /\ Head(todo[p]) = "checkout"
  /\ LockFree
  /\ refs[Ref[p]] # 0
  /\ tree' = [tree EXCEPT ![p] = refs[Ref[p]]]
  /\ pc' = [pc EXCEPT ![p] = "seal"]
  /\ UNCHANGED <<world, entry, mirror, todo, spec, git, tried, commit, start, sealed, opened, contacts, crashes>>

\* create_worktree(): git worktree add --detach, or the clone of the mirror.
Checkout(p) ==
  /\ pc[p] = "use"
  /\ Head(todo[p]) = "checkout"
  /\ LockFree
  /\ tree' = [tree EXCEPT ![p] = commit[p]]
  /\ pc' = [pc EXCEPT ![p] = "seal"]
  /\ UNCHANGED <<world, entry, mirror, todo, spec, git, tried, commit, start, sealed, opened, contacts, crashes>>

\* Neither works, or one takes too long; or the walk of seal_worktree() comes to an entry
\* that a removal has taken away.
CheckoutFails(p) ==
  /\ \/ pc[p] = "use" /\ Head(todo[p]) = "checkout" /\ LockFree
     \/ pc[p] = "seal" /\ p \in opened
  /\ Abandon(p)
  /\ UNCHANGED <<mirror, contacts>>

\* seal_worktree(): without the lock, and whether or not the checkout is still there.
Seal(p) ==
  /\ pc[p] = "seal"
  /\ NextCall(p)
  /\ sealed' = IF tree[p] = 0 THEN sealed ELSE sealed \cup {p}
  /\ UNCHANGED <<world, entry, mirror, git, tried, commit, start, tree, opened, contacts, crashes>>

\* gc(), or delete() with purge_files: the checkout is made writable,
Unseal(r) ==
  /\ tree[r] # 0
  /\ sealed' = sealed \ {r}
  /\ opened' = opened \cup {r}
  /\ UNCHANGED <<world, entry, mirror, requests, tree, contacts, crashes>>

\* and removed then, unless it has been sealed meanwhile: rmtree ignores errors.
RemoveTree(r) ==
  /\ tree[r] # 0
  /\ r \in opened \ sealed
  /\ tree' = [tree EXCEPT ![r] = 0]
  /\ UNCHANGED <<world, entry, mirror, requests, sealed, opened, contacts, crashes>>

\* The process dies with its git commands, and starts again.
Crash ==
  /\ crashes < MaxCrashes
  /\ crashes' = crashes + 1
  /\ LET lost == {p \in Requests : pc[p] \notin {"idle", "done"}} IN
       /\ pc' = [p \in Requests |-> IF p \in lost THEN "failed" ELSE pc[p]]
       /\ todo' = [p \in Requests |-> <<>>]
       /\ commit' = [p \in Requests |-> IF p \in lost THEN 0 ELSE commit[p]]
  /\ snap' = [p \in Requests |-> NoRefs]
  /\ asked' = [p \in Requests |-> 0]
  /\ tried' = [p \in Requests |-> 0]
  /\ broken' = (broken \/ \E p \in Requests : pc[p] = "fetch")
  /\ UNCHANGED <<world, entry, mirror, spec, start, checkouts, contact, complete>>

-----------------------------------------------------------------------------
Ensure(p) ==
  \/ StartClone(p)
  \/ StartFetch(p)
  \/ UseCopy(p)
  \/ \E b \in Branches : MoveBranch(p, b)
  \/ GitSucceeds(p)
  \/ GitFails(p)

Use(p) ==
  \/ ListBranches(p)
  \/ RevParse(p)
  \/ NoSuchRef(p)
  \/ CannotResolve(p)

CreateWorktree(r) ==
  \/ Checkout(r)
  \/ CheckoutFails(r)
  \/ Seal(r)
  \/ Unseal(r)
  \/ RemoveTree(r)

Next ==
  \/ Tick
  \/ \E u \in Urls : Reload(u)
  \/ \E m \in Moving : Push(m[1], m[2]) \/ DropBranch(m[1], m[2])
  \/ \E p \in Requests : Begin(p) \/ Ensure(p) \/ Use(p)
  \/ \E r \in Runs : CreateWorktree(r)
  \/ Crash

Spec == Init /\ [][Next]_vars

-----------------------------------------------------------------------------
(* Properties.                                                              *)

Position == {"idle", "wait", "use", "seal", "done", "failed"} \cup Locked

OneWriter == \A p, q \in Requests : pc[p] \in Locked /\ pc[q] \in Locked => p = q

WorldOK ==
  /\ now \in Nat \ {0}
  /\ registry \in Urls
  /\ commits \in Seq(Urls)
  /\ remote \in [Urls -> [Branches -> 0 .. Len(commits)]]
  /\ crashes \in Nat
  /\ reloads \in Nat
  /\ changed \in 0 .. now
  /\ replaced \in [DOMAIN replaced -> 0 .. now]
  /\ DOMAIN replaced \subseteq 1 .. Len(commits)

MirrorOK ==
  /\ there \in BOOLEAN
  /\ origin \in Urls
  /\ refs \in [Branches -> 0 .. Len(commits)]
  /\ stamp \in 0 .. now
  /\ contact \in Urls
  /\ broken \in BOOLEAN
  /\ complete \in BOOLEAN

RequestsOK ==
  /\ OneWriter
  /\ pc \in [Requests -> Position]
  /\ todo \in [Requests -> Seq(Calls)]
  /\ spec \in [Requests -> Urls]
  /\ snap \in [Requests -> [Branches -> 0 .. Len(commits)]]
  /\ asked \in [Requests -> 0 .. now]
  /\ tried \in [Requests -> 0 .. 2]
  /\ commit \in [Requests -> 0 .. Len(commits)]
  /\ start \in [Requests -> 0 .. now]

CheckoutsOK ==
  /\ tree \in [Runs -> 0 .. Len(commits)]
  /\ sealed \in SUBSET Runs
  /\ opened \in SUBSET Runs

\* Every variable has its type, and one git command at a time writes the mirror.
TypeOK == WorldOK /\ MirrorOK /\ RequestsOK /\ CheckoutsOK

\* "Unknown age is reported as very old": what a killed clone leaves is never used
\* before a fetch has completed it.
NeverHalfCloned == \A p \in Requests : pc[p] = "use" => complete

\* "max_age_seconds bounds how old the local copy may be": what a request resolves was
\* the head of its branch less than MaxAge before the request, and the duration of a
\* fetch, because the stamp is written when the fetch has ended.
FreshEnough ==
  \A p \in Requests : commit[p] # 0 => HeadSince(commit[p], start[p] - (MaxAge + MaxFetch) + 1)

\* "The operator asked for the latest": what "pull from remote" reports was the head at
\* the remote after the operator had asked.
PullIsCurrent ==
  \A p \in Pulls : commit[p] # 0 => HeadSince(commit[p], start[p])

\* A contact leaves branches of one repository only, the one it was made for, until one
\* fails half way.
OneRepository ==
  LockFree /\ complete /\ ~broken => \A b \in Branches : refs[b] # 0 => UrlOf(refs[b]) = contact

\* A run's checkout is of the commit it has resolved and recorded, whatever is pushed or
\* fetched meanwhile, and read-only when the analysis begins and afterwards: only a
\* removal makes it writable, and the analysis of a run whose removal has begun can find
\* it writable and still there.
PinnedCheckout ==
  \A r \in Runs : pc[r] = "done" /\ tree[r] # 0 =>
    tree[r] = commit[r] /\ (r \in sealed \/ r \in opened)

\* A registry change must not "silently analyse the wrong repository": a run that begins
\* after it analyses the repository of the registry.
RightRepository ==
  \A r \in Runs : pc[r] = "done" /\ changed < start[r] => UrlOf(commit[r]) = registry
=============================================================================
