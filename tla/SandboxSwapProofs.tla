------------------------- MODULE SandboxSwapProofs -------------------------
(***************************************************************************)
(* SandboxFiles for any number of tasks, names and sizes: the threads of a *)
(* Chat exclude each other, its limits hold, and it implements             *)
(* SandboxStore.                                                           *)
(*                                                                         *)
(* A thread that works has a caller that waits for it, cancelled or not,   *)
(* and who waits has the lock (WaiterHasLock).  What the trees, the        *)
(* backups and the snapshots then hold at each step of the one thread that *)
(* works is the rest of the invariant (IInv).                              *)
(***************************************************************************)
EXTENDS SandboxSwap, FiniteSetTheorems, WellFoundedInduction, TLAPS

-----------------------------------------------------------------------------
(* Sums.  Total folds + over a function; that fold is a recursion on the   *)
(* subsets of its domain.  The facts about it are proved by taking a       *)
(* smallest set for which they would fail.                                 *)

\* Among the subsets of a finite set that are in a family, one is smallest.
LEMMA Smallest ==
    ASSUME NEW S, IsFiniteSet(S), NEW F, F \subseteq SUBSET S, F # {}
    PROVE  \E s \in F : \A u \in F : u \subseteq s => u = s
<1>1. IsWellFoundedOn(StrictSubsetOrdering(S), FiniteSubsetsOf(S))
  BY FS_StrictSubsetOrderingWellFounded
<1>2. F \subseteq FiniteSubsetsOf(S)
  BY FS_FiniteSubsetsOfFinite
<1>3. \E s \in F : \A u \in F : ~(<<u, s>> \in StrictSubsetOrdering(S))
  BY <1>1, <1>2, WFMin, Zenon
<1>4. \A s, u \in F : <<u, s>> \in StrictSubsetOrdering(S) <=> u \subseteq s /\ u # s
  BY DEF StrictSubsetOrdering
<1> QED  BY <1>3, <1>4

\* The recursion behind FoldFunction(+, 0, f), on the subsets of a set.
SumStep(f, g, s) ==
    IF s = {} THEN 0
    ELSE f[CHOOSE x \in s : TRUE] + g[s \ {CHOOSE x \in s : TRUE}]

Sums(f, S) == CHOOSE g : g = [s \in SUBSET S |-> SumStep(f, g, s)]

Sum(f, S) == Sums(f, S)[S]

Solves(g, f, S) == \A s \in SUBSET S : g[s] = SumStep(f, g, s)

\* A step of the recursion goes to a smaller set.
LEMMA SumSteps ==
    ASSUME NEW s, s # {}
    PROVE  \E x \in s : \A f, g : SumStep(f, g, s) = f[x] + g[s \ {x}]
<1>1. (CHOOSE x \in s : TRUE) \in s
  OBVIOUS
<1> QED  BY <1>1 DEF SumStep

\* The recursion determines the function.
LEMMA SumsUnique ==
    ASSUME NEW S, IsFiniteSet(S), NEW f, NEW g, NEW h, Solves(g, f, S), Solves(h, f, S)
    PROVE  \A s \in SUBSET S : g[s] = h[s]
<1> SUFFICES ASSUME {s \in SUBSET S : g[s] # h[s]} # {} PROVE FALSE
  OBVIOUS
<1>0. PICK F : F = {s \in SUBSET S : g[s] # h[s]}
  OBVIOUS
<1>1. PICK s \in F : \A u \in F : u \subseteq s => u = s
  <2>1. F \subseteq SUBSET S /\ F # {}
    BY <1>0
  <2> QED  BY <2>1, Smallest
<1>2. g[s] = SumStep(f, g, s) /\ h[s] = SumStep(f, h, s)
  BY <1>0 DEF Solves
<1>3. CASE s = {}
  BY <1>0, <1>1, <1>2, <1>3 DEF SumStep
<1>4. CASE s # {}
  <2>1. PICK x \in s : \A r : SumStep(f, r, s) = f[x] + r[s \ {x}]
    BY <1>4, SumSteps
  <2>2. s \ {x} \in SUBSET S /\ s \ {x} \subseteq s /\ s \ {x} # s
    BY <1>0
  <2>3. g[s \ {x}] = h[s \ {x}]
    BY <1>0, <1>1, <2>2
  <2> QED  BY <1>0, <1>1, <1>2, <2>1, <2>3
<1> QED  BY <1>3, <1>4

\* It defines one.
LEMMA SumsExist ==
    ASSUME NEW S, IsFiniteSet(S), NEW f
    PROVE  \A u \in SUBSET S : Solves(Sums(f, u), f, u)
<1>0. PICK Bad : Bad = {u \in SUBSET S : ~Solves(Sums(f, u), f, u)}
  OBVIOUS
<1> SUFFICES ASSUME Bad # {} PROVE FALSE
  BY <1>0
<1>1. PICK u \in Bad : \A v \in Bad : v \subseteq u => v = u
  <2>1. Bad \subseteq SUBSET S
    BY <1>0
  <2> QED  BY <2>1, Smallest
<1>2. ASSUME NEW v \in SUBSET u, v # u PROVE Solves(Sums(f, v), f, v)
  BY <1>0, <1>1, <1>2
<1>3. ASSUME NEW v \in SUBSET u, v # u, v # {},
             NEW x \in v, \A r : SumStep(f, r, v) = f[x] + r[v \ {x}]
      PROVE  Sum(f, v) = f[x] + Sum(f, v \ {x})
  <2>1. v \ {x} \in SUBSET u /\ v \ {x} # u
    OBVIOUS
  <2>2. Solves(Sums(f, v), f, v) /\ Solves(Sums(f, v \ {x}), f, v \ {x})
    BY <1>2, <1>3, <2>1
  <2>3. Solves(Sums(f, v), f, v \ {x})
    BY <2>2 DEF Solves
  <2>4. IsFiniteSet(v \ {x})
    BY FS_Subset, <1>0, <1>1
  <2>5. Sums(f, v)[v \ {x}] = Sums(f, v \ {x})[v \ {x}]
    BY <2>2, <2>3, <2>4, SumsUnique
  <2>6. Sums(f, v)[v] = SumStep(f, Sums(f, v), v)
    BY <2>2 DEF Solves
  <2>7. SumStep(f, Sums(f, v), v) = f[x] + Sums(f, v)[v \ {x}]
    BY <1>3
  <2> QED  BY <2>5, <2>6, <2>7 DEF Sum
<1>4. PICK G : G = [s \in SUBSET u |->
                      IF s # u THEN Sum(f, s)
                      ELSE SumStep(f, [v \in SUBSET u |-> Sum(f, v)], u)]
  OBVIOUS
<1>5. ASSUME NEW s \in SUBSET u PROVE G[s] = SumStep(f, G, s)
  <2>1. CASE s = {} /\ s # u
    <3>1. Sums(f, s)[s] = SumStep(f, Sums(f, s), s)
      BY <1>2, <2>1 DEF Solves
    <3> QED  BY <1>4, <2>1, <3>1 DEF Sum, SumStep
  <2>2. CASE s # {} /\ s # u
    <3>1. PICK x \in s : \A r : SumStep(f, r, s) = f[x] + r[s \ {x}]
      BY <2>2, SumSteps
    <3>2. Sum(f, s) = f[x] + Sum(f, s \ {x})
      BY <1>3, <2>2, <3>1
    <3>3. s \ {x} \in SUBSET u /\ s \ {x} # u
      OBVIOUS
    <3>4. G[s \ {x}] = Sum(f, s \ {x}) /\ G[s] = Sum(f, s)
      BY <1>4, <2>2, <3>3
    <3> QED  BY <3>1, <3>2, <3>4
  <2>3. CASE s = u /\ u = {}
    BY <1>4, <2>3 DEF SumStep
  <2>4. CASE s = u /\ u # {}
    <3>1. PICK x \in u : \A r : SumStep(f, r, u) = f[x] + r[u \ {x}]
      BY <2>4, SumSteps
    <3>2. u \ {x} \in SUBSET u /\ u \ {x} # u
      OBVIOUS
    <3>3. G[u \ {x}] = Sum(f, u \ {x})
      BY <1>4, <3>2
    <3>4. PICK H : H = [v \in SUBSET u |-> Sum(f, v)]
      OBVIOUS
    <3>5. G[u] = SumStep(f, H, u)
      BY <1>4, <3>4
    <3>6. H[u \ {x}] = Sum(f, u \ {x})
      BY <3>2, <3>4
    <3> QED  BY <2>4, <3>1, <3>3, <3>5, <3>6
  <2> QED  BY <2>1, <2>2, <2>3, <2>4
<1>6. G = [s \in SUBSET u |-> SumStep(f, G, s)]
  <2>1. G = [s \in SUBSET u |-> G[s]]
    BY <1>4
  <2> QED  BY <1>5, <2>1, Zenon
<1>7. PICK g : g = Sums(f, u)
  OBVIOUS
<1>8. g = [s \in SUBSET u |-> SumStep(f, g, s)]
  BY <1>6, <1>7 DEF Sums
<1>9. Solves(g, f, u)
  BY <1>8 DEF Solves
<1> QED  BY <1>0, <1>1, <1>7, <1>9

LEMMA SumsSolve ==
    ASSUME NEW S, IsFiniteSet(S), NEW f
    PROVE  Solves(Sums(f, S), f, S)
<1>1. S \in SUBSET S
  OBVIOUS
<1> QED  BY <1>1, SumsExist

LEMMA SumOfEmpty ==
    ASSUME NEW f
    PROVE  Sum(f, {}) = 0
<1>1. Solves(Sums(f, {}), f, {})
  BY SumsSolve, FS_EmptySet
<1>2. Sums(f, {})[{}] = SumStep(f, Sums(f, {}), {})
  BY <1>1 DEF Solves
<1> QED  BY <1>2 DEF Sum, SumStep

\* The sum over a set is that over the rest and one element, the same for all.
LEMMA SumOfSet ==
    ASSUME NEW u, IsFiniteSet(u), u # {}
    PROVE  \E x \in u : \A f : Sum(f, u) = f[x] + Sum(f, u \ {x})
<1>1. PICK x \in u : \A f, g : SumStep(f, g, u) = f[x] + g[u \ {x}]
  BY SumSteps
<1>2. PICK v : v = u \ {x}
  OBVIOUS
<1>3. v \in SUBSET u /\ u \in SUBSET u /\ v \in SUBSET v /\ IsFiniteSet(v)
  BY <1>2, FS_Subset
<1>4. ASSUME NEW f PROVE Sum(f, u) = f[x] + Sum(f, v)
  <2>1. Solves(Sums(f, u), f, u) /\ Solves(Sums(f, v), f, v)
    BY <1>3, SumsSolve
  <2>2. Solves(Sums(f, u), f, v)
    BY <1>3, <2>1 DEF Solves
  <2>3. Sums(f, u)[v] = Sums(f, v)[v]
    BY <1>3, <2>1, <2>2, SumsUnique
  <2>4. Sums(f, u)[u] = SumStep(f, Sums(f, u), u)
    BY <1>3, <2>1 DEF Solves
  <2> QED  BY <1>1, <1>2, <2>3, <2>4 DEF Sum
<1> QED  BY <1>2, <1>4

LEMMA SumIsNat ==
    ASSUME NEW S, IsFiniteSet(S), NEW f \in [S -> Nat]
    PROVE  \A u \in SUBSET S : Sum(f, u) \in Nat
<1>0. PICK F : F = {u \in SUBSET S : Sum(f, u) \notin Nat}
  OBVIOUS
<1> SUFFICES ASSUME F # {} PROVE FALSE
  BY <1>0
<1>1. PICK s \in F : \A u \in F : u \subseteq s => u = s
  <2>1. F \subseteq SUBSET S
    BY <1>0
  <2> QED  BY <2>1, Smallest
<1>2. /\ s \in SUBSET S /\ s # {} /\ Sum(f, s) \notin Nat
      /\ IsFiniteSet(s)
  <2>1. Sum(f, {}) = 0
    BY SumOfEmpty
  <2>2. s \in SUBSET S /\ Sum(f, s) \notin Nat
    BY <1>0
  <2>3. s # {}
    BY <2>1, <2>2
  <2>4. IsFiniteSet(s)
    BY <2>2, FS_Subset
  <2> QED  BY <2>2, <2>3, <2>4
<1>3. PICK x \in s : Sum(f, s) = f[x] + Sum(f, s \ {x})
  BY <1>2, SumOfSet
<1>4. Sum(f, s \ {x}) \in Nat
  <2>1. s \ {x} \in SUBSET S /\ s \ {x} \subseteq s /\ s \ {x} # s
    BY <1>2
  <2> QED  BY <1>0, <1>1, <2>1
<1> QED  BY <1>2, <1>3, <1>4

\* A file of size n where there was none adds n to the sum.
LEMMA SumOfUpdate ==
    ASSUME NEW S, IsFiniteSet(S), NEW f \in [S -> Nat], NEW i \in S, NEW n \in Nat,
           f[i] = 0, NEW g, g = [f EXCEPT ![i] = n]
    PROVE  Sum(g, S) = Sum(f, S) + n
<1>0. PICK F : F = {u \in SUBSET S : Sum(g, u) # Sum(f, u) + IF i \in u THEN n ELSE 0}
  OBVIOUS
<1>1. SUFFICES ASSUME F # {} PROVE FALSE
  BY <1>0
<1>2. PICK s \in F : \A u \in F : u \subseteq s => u = s
  <2>1. F \subseteq SUBSET S
    BY <1>0
  <2> QED  BY <1>1, <2>1, Smallest
<1>3. s \in SUBSET S /\ Sum(g, s) # Sum(f, s) + IF i \in s THEN n ELSE 0
  BY <1>0
<1>4. s # {} /\ IsFiniteSet(s)
  <2>1. Sum(f, {}) = 0 /\ Sum(g, {}) = 0
    BY SumOfEmpty
  <2>2. s = {} => Sum(g, s) = Sum(f, s) + 0
    BY <2>1
  <2> QED  BY <1>3, <2>2, FS_Subset
<1>5. PICK x \in s : /\ Sum(f, s) = f[x] + Sum(f, s \ {x})
                     /\ Sum(g, s) = g[x] + Sum(g, s \ {x})
  <2>1. \E x \in s : \A h : Sum(h, s) = h[x] + Sum(h, s \ {x})
    BY <1>4, SumOfSet
  <2> QED  BY <2>1, Zenon
<1>6. PICK v : v = s \ {x}
  OBVIOUS
<1>7. v \in SUBSET S /\ v \subseteq s /\ v # s
  BY <1>3, <1>6
<1>8. Sum(g, v) = Sum(f, v) + IF i \in v THEN n ELSE 0
  BY <1>0, <1>2, <1>7
<1>9. Sum(f, v) \in Nat /\ f[x] \in Nat /\ g[x] = IF x = i THEN n ELSE f[x]
  BY <1>3, <1>7, SumIsNat
<1> QED  BY <1>3, <1>5, <1>6, <1>8, <1>9

LEMMA SumOfNothing ==
    ASSUME NEW S, IsFiniteSet(S), NEW f, f = [i \in S |-> 0]
    PROVE  Sum(f, S) = 0
<1>0. PICK F : F = {u \in SUBSET S : Sum(f, u) # 0}
  OBVIOUS
<1>1. SUFFICES ASSUME F # {} PROVE FALSE
  BY <1>0
<1>2. PICK s \in F : \A u \in F : u \subseteq s => u = s
  <2>1. F \subseteq SUBSET S
    BY <1>0
  <2> QED  BY <1>1, <2>1, Smallest
<1>3. s \in SUBSET S /\ s # {} /\ Sum(f, s) # 0 /\ IsFiniteSet(s)
  BY <1>0, SumOfEmpty, FS_Subset
<1>4. PICK x \in s : Sum(f, s) = f[x] + Sum(f, s \ {x})
  BY <1>3, SumOfSet
<1>5. Sum(f, s \ {x}) = 0
  <2>1. s \ {x} \in SUBSET S /\ s \ {x} \subseteq s /\ s \ {x} # s
    BY <1>3
  <2> QED  BY <1>0, <1>2, <2>1
<1> QED  BY <1>3, <1>4, <1>5

\* What a tree holds in all: a missing directory holds nothing.
LEMMA TotalIsSum ==
    ASSUME NEW tree
    PROVE  Total(tree) = Sum(Contents(tree), DOMAIN Contents(tree))
BY DEF Total, Sum, Sums, SumStep, FoldFunction, FoldFunctionOnSet, MapThenFoldSet
-----------------------------------------------------------------------------
(* The lock. *)

Waits(t) == task[t] \in {"waiting", "cancelled"}
Works(t) == work[t].step # "none"

WaiterHasLock ==
    /\ work = [t \in Tasks |-> work[t]]
    /\ task = [t \in Tasks |-> task[t]]
    /\ \A t \in Tasks : Works(t) => Waits(t)
    /\ \A t \in Tasks : Waits(t) => lock = t

\* A thread replaces its own record only.
LEMMA ThreadIsAlone ==
    ASSUME NEW t \in Tasks, Thread(t)
    PROVE  /\ UNCHANGED loop
           /\ Works(t)
           /\ work' = work \/ \E r : work' = [work EXCEPT ![t] = r]
<1> USE DEF Works, At, Do, Finish, Fail, NextDir
<1>1. CASE Measure(t) BY <1>1 DEF Measure
<1>2. CASE Copy(t) BY <1>2 DEF Copy, loop
<1>3. CASE Publish(t) BY <1>3 DEF Publish
<1>4. CASE Read(t) BY <1>4 DEF Read, loop
<1>5. CASE Seal(t) BY <1>5 DEF Seal, loop
<1>6. CASE Stage(t) BY <1>6 DEF Stage, loop
<1>7. CASE Move(t) BY <1>7 DEF Move
<1>8. CASE Install(t) BY <1>8 DEF Install
<1>9. CASE Remove(t) BY <1>9 DEF Remove
<1>10. CASE Recover(t) BY <1>10 DEF Recover
<1>11. CASE DiscardPart(t) BY <1>11 DEF DiscardPart
<1>12. CASE Discarded(t) BY <1>12 DEF Discarded
<1>13. CASE IoError(t) BY <1>13 DEF IoError, Steps
<1> QED BY <1>1, <1>2, <1>3, <1>4, <1>5, <1>6, <1>7, <1>8, <1>9, <1>10, <1>11,
           <1>12, <1>13 DEF Thread

LEMMA StartIsAlone ==
    ASSUME NEW t \in Tasks, Start(t)
    PROVE  \E r : work' = [work EXCEPT ![t] = r]
BY DEF Start, Begin, Do

LEMMA Step == WaiterHasLock /\ [Next]_vars => WaiterHasLock'
<1> SUFFICES ASSUME WaiterHasLock, [Next]_vars PROVE WaiterHasLock'
    OBVIOUS
<1> USE DEF WaiterHasLock, Works, Waits
<1>1. ASSUME NEW t \in Tasks, Call(t) PROVE WaiterHasLock'
    BY <1>1 DEF Call
<1>2. ASSUME NEW t \in Tasks, Acquire(t) PROVE WaiterHasLock'
    <2>1. PICK r : work' = [work EXCEPT ![t] = r]
        BY <1>2, StartIsAlone DEF Acquire
    <2>2. /\ lock = NoTask /\ lock' = t
          /\ task' = [task EXCEPT ![t] = "waiting"]
        BY <1>2 DEF Acquire
    <2>3. \A v \in Tasks : ~Waits(v) /\ ~Works(v)
        BY <2>2, TaskAssumption
    <2> QED BY <2>1, <2>2, <2>3
<1>3. ASSUME NEW t \in Tasks, Cancel(t) PROVE WaiterHasLock'
    BY <1>3 DEF Cancel
<1>4. ASSUME NEW t \in Tasks, Return(t) PROVE WaiterHasLock'
    <2>1. \A v \in Tasks \ {t} : ~Waits(v) /\ ~Works(v)
        BY <1>4 DEF Return, At
    <2> QED BY <1>4, <2>1 DEF Return, Do, Idle
<1>5. ASSUME NEW t \in Tasks, Thread(t) PROVE WaiterHasLock'
    BY <1>5, ThreadIsAlone DEF loop
<1>6. CASE UNCHANGED vars
    BY <1>6 DEF vars
<1> QED BY <1>1, <1>2, <1>3, <1>4, <1>5, <1>6 DEF Next

\* _mutate: the worker of a cancelled caller is waited for before the lock is
\* given back, so that no two threads ever change one Chat's files together.
THEOREM ThreadsAreExclusive == Spec => []ThreadHasLock
<1>1. Init => WaiterHasLock
    BY DEF Init, WaiterHasLock, Works, Waits, Idle
<1>2. WaiterHasLock => ThreadHasLock
    BY DEF WaiterHasLock, ThreadHasLock, Works
<1> QED BY <1>1, <1>2, Step, PTL DEF Spec
-----------------------------------------------------------------------------
(* Trees. *)

Small(tree) == Total(tree) <= MaxChat /\ \A i \in Slots : Contents(tree)[i] <= MaxFile

LEMMA ContentsFacts ==
    ASSUME NEW tree \in Trees \cup {Gone}
    PROVE  /\ Contents(tree) \in Trees /\ Contents(Contents(tree)) = Contents(tree)
           /\ tree \in Trees => Contents(tree) = tree
           /\ Total(Contents(tree)) = Total(tree)
           /\ Small(Contents(tree)) <=> Small(tree)
<1>1. Nothing \in Trees /\ Gone \notin Trees
  BY TreeAssumption DEF Nothing, Trees
<1>2. /\ Contents(tree) \in Trees /\ Contents(Contents(tree)) = Contents(tree)
      /\ tree \in Trees => Contents(tree) = tree
  BY <1>1 DEF Contents
<1>3. Total(Contents(tree)) = Total(tree)
  BY <1>2, TotalIsSum
<1> QED  BY <1>2, <1>3 DEF Small

LEMMA TotalOfTree ==
    ASSUME NEW tree \in Trees \cup {Gone}
    PROVE  Total(tree) = Sum(Contents(tree), Slots) /\ Total(tree) \in Nat
<1>1. Contents(tree) \in [Slots -> Nat]
  BY ContentsFacts DEF Trees
<1>2. PICK f \in [Slots -> Nat] : f = Contents(tree)
  BY <1>1
<1>3. Total(tree) = Sum(f, Slots)
  BY <1>2, TotalIsSum
<1>4. Slots \in SUBSET Slots /\ IsFiniteSet(Slots)
  BY LimitAssumption
<1>5. Sum(f, Slots) \in Nat
  BY <1>4, SumIsNat
<1> QED  BY <1>2, <1>3, <1>5

\* No directory, no documents.
LEMMA GoneIsSmall == Total(Gone) = 0 /\ Total(Nothing) = 0 /\ Small(Gone) /\ Small(Nothing)
<1>1. Contents(Gone) = Nothing /\ Nothing \in Trees
  BY DEF Contents, Nothing, Trees
<1>2. IsFiniteSet(Slots)
  BY LimitAssumption
<1>3. Sum(Nothing, Slots) = 0
  BY <1>2, SumOfNothing DEF Nothing
<1>4. Total(Gone) = 0
  BY <1>1, <1>3, TotalOfTree
<1>5. Small(Gone)
  BY <1>1, <1>4, LimitAssumption DEF Small, Nothing
<1>6. Total(Nothing) = Total(Gone) /\ (Small(Nothing) <=> Small(Gone))
  BY <1>1, ContentsFacts
<1> QED  BY <1>4, <1>5, <1>6

\* A document that takes the place of none.
LEMMA UploadFits ==
    ASSUME NEW tree \in Trees, NEW i \in Slots, tree[i] = 0, NEW n \in Nat,
           Small(tree), Total(tree) + n <= MaxChat, n <= MaxFile
    PROVE  Small([tree EXCEPT ![i] = n]) /\ [tree EXCEPT ![i] = n] \in Trees
<1>1. PICK g : g = [tree EXCEPT ![i] = n]
  OBVIOUS
<1>2. g \in Trees /\ Contents(g) = g /\ Contents(tree) = tree
  BY <1>1, ContentsFacts DEF Trees
<1>3. IsFiniteSet(Slots) /\ tree \in [Slots -> Nat]
  BY LimitAssumption DEF Trees
<1>4. Sum(g, Slots) = Sum(tree, Slots) + n
  BY <1>1, <1>3, SumOfUpdate
<1>5. Total(g) = Total(tree) + n
  BY <1>2, <1>4, TotalOfTree
<1>6. \A k \in Slots : g[k] <= MaxFile
  BY <1>1, <1>2, <1>3 DEF Small
<1> QED  BY <1>1, <1>2, <1>5, <1>6 DEF Small

\* No document is larger than all of them.
LEMMA PartOfTotal ==
    ASSUME NEW tree \in Trees, NEW i \in Slots
    PROVE  tree[i] <= Total(tree)
<1>1. PICK f, n : f = [tree EXCEPT ![i] = 0] /\ n = tree[i]
  OBVIOUS
<1>2. /\ IsFiniteSet(Slots) /\ Contents(tree) = tree /\ Slots \in SUBSET Slots
      /\ f \in [Slots -> Nat] /\ f[i] = 0 /\ n \in Nat
  BY <1>1, LimitAssumption, ContentsFacts DEF Trees
<1>3. Sum(tree, Slots) = Sum(f, Slots) + n
  <2>1. PICK g : g = [f EXCEPT ![i] = n]
    OBVIOUS
  <2>2. g = tree
    BY <1>1, <2>1 DEF Trees
  <2>3. Sum(g, Slots) = Sum(f, Slots) + n
    BY <1>2, <2>1, SumOfUpdate
  <2> QED  BY <2>2, <2>3
<1>4. Sum(f, Slots) \in Nat
  BY <1>2, SumIsNat
<1>5. Total(tree) = Sum(tree, Slots)
  BY <1>2, TotalOfTree
<1> QED  BY <1>1, <1>2, <1>3, <1>4, <1>5

\* A tree that has lost a document.
LEMMA SmallerFits ==
    ASSUME NEW tree \in Trees, NEW left \in Smaller(tree)
    PROVE  /\ left \in Trees /\ (Small(tree) => Small(left))
           /\ \A i \in Slots : left[i] \in {0, tree[i]}
<1>1. PICK k \in Slots : left = [tree EXCEPT ![k] = 0]
  BY DEF Smaller
<1>2. /\ IsFiniteSet(Slots) /\ Slots \in SUBSET Slots
      /\ left \in [Slots -> Nat] /\ left[k] = 0 /\ tree[k] \in Nat
  BY <1>1, LimitAssumption DEF Trees
<1>3. left \in Trees /\ Contents(left) = left /\ Contents(tree) = tree
  BY <1>2, ContentsFacts DEF Trees
<1>4. \A i \in Slots : left[i] = IF i = k THEN 0 ELSE tree[i]
  BY <1>1 DEF Trees
<1>5. Sum(tree, Slots) = Sum(left, Slots) + tree[k]
  <2>1. PICK n, g : n = tree[k] /\ g = [left EXCEPT ![k] = n]
    OBVIOUS
  <2>2. g = tree
    BY <1>1, <2>1 DEF Trees
  <2>3. Sum(g, Slots) = Sum(left, Slots) + n
    BY <1>2, <2>1, SumOfUpdate
  <2> QED  BY <2>1, <2>2, <2>3
<1>6. Sum(left, Slots) \in Nat
  BY <1>2, SumIsNat
<1>7. Total(tree) = Sum(tree, Slots) /\ Total(left) = Sum(left, Slots)
  BY <1>3, TotalOfTree
<1>8. Small(tree) => Small(left)
  BY <1>2, <1>3, <1>4, <1>5, <1>6, <1>7, LimitAssumption DEF Small
<1> QED  BY <1>3, <1>4, <1>8

\* A snapshot that has lost a document, or its version.
LEMMA LessFits ==
    ASSUME NEW s \in Snapshot, NEW less \in LessOf(s)
    PROVE  /\ less \in Snapshot /\ (Small(s.files) => Small(less.files))
           /\ Store!IsPart(less.files, s.files) /\ Store!IsPart(less.artifacts, s.artifacts)
           /\ less.version <= s.version
<1> USE DEF Store!IsPart
<1>1. s.files \in Trees /\ s.artifacts \in Trees /\ s.version \in 1 .. 2
  BY DEF Snapshot
<1>2. CASE \E tree \in Smaller(s.files) : less = [s EXCEPT !.files = tree]
  <2>1. PICK tree \in Smaller(s.files) : less = [s EXCEPT !.files = tree]
    BY <1>2
  <2>2. tree \in Trees
    BY <1>1, SmallerFits
  <2>3. /\ less \in Snapshot /\ less.files = tree
        /\ less.artifacts = s.artifacts /\ less.version = s.version
    BY <2>1, <2>2 DEF Snapshot
  <2> QED  BY <1>1, <2>3, SmallerFits
<1>3. CASE \E tree \in Smaller(s.artifacts) : less = [s EXCEPT !.artifacts = tree]
  <2>1. PICK tree \in Smaller(s.artifacts) : less = [s EXCEPT !.artifacts = tree]
    BY <1>3
  <2>2. tree \in Trees
    BY <1>1, SmallerFits
  <2>3. /\ less \in Snapshot /\ less.artifacts = tree
        /\ less.files = s.files /\ less.version = s.version
    BY <2>1, <2>2 DEF Snapshot
  <2> QED  BY <1>1, <2>3, SmallerFits
<1>4. CASE less = [s EXCEPT !.version = 1]
  <2>1. /\ less \in Snapshot /\ less.version = 1
        /\ less.files = s.files /\ less.artifacts = s.artifacts
    BY <1>4 DEF Snapshot
  <2> QED  BY <1>1, <2>1
<1> QED  BY <1>2, <1>3, <1>4 DEF LessOf
-----------------------------------------------------------------------------
(* What the thread that works has in hand. *)

Limited(w) ==
    /\ Small(w.source["files"]) /\ Small(w.revisions["files"]) /\ Small(w.backups["files"])

Sized ==
    /\ Small(disk["files"])
    /\ \A s \in snapshots : Small(s.files)
    /\ \A t \in Tasks : Limited(work[t])

\* An upload has found a free name, and measured what is there.
Placed(t) ==
    LET w == work[t] IN
    /\ w.step \in {"copy", "publish"} =>
         /\ disk["files"] # Gone /\ w.slot \in Slots /\ FreeSlot(w.slot)
         /\ w.used = Total(disk["files"])
    /\ w.step = "publish" => w.size \in Sizes

\* A snapshot holds the trees it has read.
Captured(t) ==
    LET w == work[t] IN
    /\ (w.step = "read" /\ w.dir = 2) \/ w.step = "seal" =>
         w.revisions["files"] = Contents(disk["files"])
    /\ w.step = "seal" => w.revisions["artifacts"] = Contents(disk["artifacts"])

Sources ==
    {[files |-> s.files,
      artifacts |-> IF s.version = 2 THEN s.artifacts ELSE Nothing] : s \in snapshots}

\* A restoration has staged the trees of a snapshot and swaps them in turn.
Staged(t) ==
    LET w == work[t] IN
    /\ w.step \in {"stage", "move", "install"} => w.source \in Sources
    /\ w.step = "stage" /\ w.dir = 2 => w.revisions["files"] = w.source["files"]
    /\ w.step \in {"move", "install"} =>
         /\ w.revisions["artifacts"] = w.source["artifacts"]
         /\ IF w.dir = 1
            THEN w.revisions["files"] = w.source["files"] /\ w.installed = {}
            ELSE disk["files"] = w.source["files"] /\ w.installed = {"files"}
         /\ w.moved = (IF w.dir = 1 THEN {} ELSE {"files"})
                        \cup (IF w.step = "install" THEN {Dirs[w.dir]} ELSE {})

NotSwapping(w) == w.moved = {} /\ w.installed = {} /\ w.backups = Nowhere

\* A tree that was moved is in the backups, and nothing but a staged tree is in
\* its place; the rollback goes from the second tree to the first.
Swapped(t) ==
    LET w == work[t] IN
    IF w.step \in {"move", "install", "remove", "recover"}
    THEN /\ w.installed \subseteq w.moved \cap {"files"}
         /\ \A n \in Names : IF n \in w.moved THEN n \in w.installed \/ disk[n] = Gone
                                              ELSE w.backups[n] = Gone
         /\ w.step \in {"remove", "recover"} =>
              w.errors > 0 /\ (w.dir = 1 => "artifacts" \notin w.moved)
         /\ w.step = "recover" /\ Dirs[w.dir] \in w.moved => disk[Dirs[w.dir]] = Gone
    ELSE NotSwapping(w)

Own(t) ==
    /\ work[t].step = "none" => work[t] = Idle
    /\ Placed(t) /\ Captured(t) /\ Staged(t) /\ Swapped(t)

IInv == TypeOK /\ WaiterHasLock /\ Sized /\ \A t \in Tasks : Own(t)

WorkType ==
    [step : Steps \cup {"none", "done"}, dir : 1 .. 2,
     size : Nat, slot : Nat, used : Nat,
     source : Places, revisions : Places, backups : Places,
     moved : SUBSET Names, installed : SUBSET Names,
     errors : 0 .. MaxErrors]

Done == [Idle EXCEPT !.step = "done"]

LEMMA TreeFacts ==
    /\ Nothing \in Trees /\ Gone \notin Trees /\ Old \in Trees /\ Small(Old)
    /\ Nowhere \in Places /\ Nowhere["files"] = Gone /\ Nowhere["artifacts"] = Gone
<1>1. Nothing \in Trees /\ Gone \notin Trees /\ Old \in Trees
  BY TreeAssumption DEF Nothing, Trees
<1>2. Small(Old)
  <2>1. Contents(Old) = Old
    BY <1>1, ContentsFacts
  <2> QED  BY <2>1, TreeAssumption DEF Small
<1> QED  BY <1>1, <1>2 DEF Nowhere, Names, Places

LEMMA IdleFacts ==
    /\ Idle \in WorkType /\ Done \in WorkType
    /\ Limited(Idle) /\ Limited(Done)
    /\ Idle.step = "none" /\ Done.step = "done" /\ NotSwapping(Idle) /\ NotSwapping(Done)
<1>1. 0 \in 0 .. MaxErrors
  BY LimitAssumption
<1>2. Idle \in WorkType /\ Done \in WorkType
  BY <1>1, TreeFacts DEF Idle, Done, WorkType
<1>3. Limited(Idle) /\ Limited(Done)
  BY TreeFacts, GoneIsSmall DEF Idle, Done, Limited
<1> QED  BY <1>2, <1>3 DEF Idle, Done, NotSwapping

\* A task that has nothing in hand.
LEMMA IdleOwn ==
    ASSUME NEW t \in Tasks
    PROVE  work[t] \in {Idle, Done} => Own(t)
BY IdleFacts DEF Own, Placed, Captured, Staged, Swapped, Idle, Done

\* One thread works at a time.
LEMMA OneWorks ==
    ASSUME IInv, NEW t \in Tasks, Works(t)
    PROVE  /\ \A u \in Tasks \ {t} : work[u] = Idle
           /\ work[t] \in WorkType /\ Own(t) /\ Limited(work[t])
           /\ disk \in Places /\ snapshots \subseteq Snapshot
           /\ disk["files"] \in Trees \cup {Gone} /\ disk["artifacts"] \in Trees \cup {Gone}
<1>1. \A u \in Tasks \ {t} : ~Works(u)
  BY DEF IInv, WaiterHasLock
<1>2. \A u \in Tasks \ {t} : work[u] = Idle
  BY <1>1 DEF IInv, Own, Works
<1> QED  BY <1>2 DEF IInv, TypeOK, WorkType, Sized, Snapshot, Places, Names

\* The thread does a step.
LEMMA WorkerStep ==
    ASSUME IInv, NEW t \in Tasks, Works(t), UNCHANGED loop,
           NEW r \in WorkType, r.step # "none", Limited(r), Do(t, r),
           disk' \in Places, Small(disk'["files"]), snapshots' \subseteq Snapshot,
           \A s \in snapshots' : Small(s.files), Own(t)'
    PROVE  IInv'
<1>1. /\ \A u \in Tasks \ {t} : work'[u] = Idle
      /\ work'[t] = r /\ work' \in [Tasks -> WorkType]
      /\ work' = [u \in Tasks |-> work'[u]] /\ task' = [u \in Tasks |-> task'[u]]
  BY OneWorks DEF Do, IInv, TypeOK, WorkType, WaiterHasLock, loop
<1>2. TypeOK'
  <2>1. \A u \in Tasks : work'[u].step # "none" <=> task'[u] \in {"waiting", "cancelled"}
    BY <1>1, IdleFacts, OneWorks DEF IInv, TypeOK, Works, loop
  <2> QED  BY <1>1, <2>1 DEF IInv, TypeOK, WorkType, Snapshot, loop
<1>3. WaiterHasLock'
  BY <1>1, IdleFacts DEF IInv, WaiterHasLock, Works, Waits, loop
<1>4. Sized'
  BY <1>1, IdleFacts DEF Sized
<1>5. \A u \in Tasks : Own(u)'
  <2>1. ASSUME NEW u \in Tasks, u # t PROVE Own(u)'
    <3>1. work'[u] = Idle
      BY <1>1, <2>1
    <3> QED  BY <3>1, IdleFacts DEF Own, Placed, Captured, Staged, Swapped
  <2> QED  BY <2>1
<1> QED  BY <1>2, <1>3, <1>4, <1>5 DEF IInv

\* The thread is done with its operation.
LEMMA FinishStep ==
    ASSUME IInv, NEW t \in Tasks, Works(t), UNCHANGED loop, Finish(t),
           disk' \in Places, Small(disk'["files"]), snapshots' \subseteq Snapshot,
           \A s \in snapshots' : Small(s.files)
    PROVE  IInv'
<1>1. Do(t, Done)
  BY DEF Finish, Done
<1>2. work'[t] = Done
  BY <1>1 DEF Do, IInv, TypeOK
<1>3. Own(t)'
  BY <1>2, IdleFacts DEF Own, Placed, Captured, Staged, Swapped, Done, Idle
<1> QED  BY <1>1, <1>3, IdleFacts, WorkerStep
-----------------------------------------------------------------------------
(* The operations of the thread keep the invariant. *)

\* Where its steps leave everything but its own record alone.
LEMMA QuietStep ==
    ASSUME IInv, NEW t \in Tasks, Works(t), UNCHANGED <<loop, disk, snapshots>>,
           NEW r \in WorkType, r.step # "none", Limited(r), Do(t, r), Own(t)'
    PROVE  IInv'
<1>1. disk' = disk /\ snapshots' = snapshots /\ UNCHANGED loop
  OBVIOUS
<1>2. /\ disk' \in Places /\ Small(disk'["files"]) /\ snapshots' \subseteq Snapshot
      /\ \A s \in snapshots' : Small(s.files)
  BY <1>1, OneWorks DEF IInv, Sized
<1> QED  BY <1>1, <1>2, WorkerStep

LEMMA FailStep ==
    ASSUME IInv, NEW t \in Tasks, Works(t), UNCHANGED <<loop, disk, snapshots>>, Finish(t)
    PROVE  IInv'
<1>1. disk' = disk /\ snapshots' = snapshots /\ UNCHANGED loop
  OBVIOUS
<1>2. /\ disk' \in Places /\ Small(disk'["files"]) /\ snapshots' \subseteq Snapshot
      /\ \A s \in snapshots' : Small(s.files)
  BY <1>1, OneWorks DEF IInv, Sized
<1> QED  BY <1>1, <1>2, FinishStep

\* What its record becomes.
LEMMA NewRecord ==
    ASSUME IInv, NEW t \in Tasks, NEW r, Do(t, r)
    PROVE  work'[t] = r
BY DEF IInv, TypeOK, Do

LEMMA MeasureKeeps ==
    ASSUME IInv, NEW t \in Tasks, Measure(t)
    PROVE  IInv'
<1>1. Works(t) /\ At(t, "measure") /\ UNCHANGED loop
  BY DEF Measure, At, Works
<1>2. /\ work[t] \in WorkType /\ Own(t) /\ Limited(work[t]) /\ disk \in Places
      /\ disk["files"] \in Trees \cup {Gone} /\ snapshots \subseteq Snapshot
      /\ Small(disk["files"]) /\ \A s \in snapshots : Small(s.files)
  BY <1>1, OneWorks DEF IInv, Sized
<1>3. PICK size \in Sizes, i \in Slots :
         /\ FreeSlot(i)
         /\ IF size > MaxFile
            THEN Fail(t)
            ELSE /\ disk' = [disk EXCEPT !["files"] = Contents(@)]
                 /\ IF Total(disk["files"]) + size > MaxChat
                    THEN Finish(t)
                    ELSE Do(t, [work[t] EXCEPT !.step = "copy", !.slot = i,
                                  !.used = Total(disk["files"])])
                 /\ UNCHANGED snapshots
  BY Zenon DEF Measure
<1>4. CASE size > MaxFile
  BY <1>1, <1>3, <1>4, FailStep DEF Fail
<1>5. CASE ~(size > MaxFile)
  <2>1. PICK files : files = Contents(disk["files"])
    OBVIOUS
  <2>2. /\ files \in Trees /\ Small(files) /\ Total(files) = Total(disk["files"])
        /\ files # Gone /\ Contents(files) = files /\ Total(disk["files"]) \in Nat
    BY <1>2, <2>1, ContentsFacts, TotalOfTree, TreeFacts
  <2>3. disk' = [disk EXCEPT !["files"] = files] /\ UNCHANGED snapshots
    BY <1>3, <1>5, <2>1
  <2>4. disk' \in Places /\ disk'["files"] = files
    BY <1>2, <2>2, <2>3 DEF Places, Names
  <2>5. CASE Finish(t)
    BY <1>1, <1>2, <2>2, <2>3, <2>4, <2>5, FinishStep
  <2>6. CASE ~Finish(t)
    <3>1. PICK r : r = [work[t] EXCEPT !.step = "copy", !.slot = i,
                                       !.used = Total(disk["files"])]
      OBVIOUS
    <3>2. Do(t, r) /\ work'[t] = r
      BY <1>3, <1>5, <2>6, <3>1, NewRecord
    <3>3. r \in WorkType /\ r.step = "copy" /\ Limited(r)
      BY <1>2, <2>2, <3>1, LimitAssumption DEF WorkType, Steps, Limited
    <3>4. Placed(t)'
      BY <1>2, <1>3, <2>1, <2>2, <2>4, <3>1, <3>2, <3>3 DEF Placed, FreeSlot, WorkType
    <3>5. Own(t)'
      BY <1>1, <1>2, <3>1, <3>2, <3>3, <3>4
         DEF Own, Captured, Staged, Swapped, NotSwapping, WorkType, At
    <3> QED  BY <1>1, <1>2, <2>2, <2>3, <2>4, <3>2, <3>3, <3>5, WorkerStep
  <2> QED  BY <2>5, <2>6
<1> QED  BY <1>4, <1>5

LEMMA CopyKeeps ==
    ASSUME IInv, NEW t \in Tasks, Copy(t)
    PROVE  IInv'
<1>1. Works(t) /\ At(t, "copy") /\ UNCHANGED <<loop, disk, snapshots>>
  BY DEF Copy, At, Works
<1>2. work[t] \in WorkType /\ Own(t) /\ Limited(work[t])
  BY <1>1, OneWorks
<1>3. PICK size \in Sizes : Do(t, [work[t] EXCEPT !.step = "publish", !.size = size])
  BY Zenon DEF Copy
<1>4. PICK r : r = [work[t] EXCEPT !.step = "publish", !.size = size]
  OBVIOUS
<1>5. r \in WorkType /\ r.step = "publish" /\ Limited(r) /\ work'[t] = r
  BY <1>2, <1>3, <1>4, LimitAssumption, NewRecord DEF WorkType, Steps, Limited
<1>6. Own(t)'
  BY <1>1, <1>2, <1>4, <1>5
     DEF Own, Placed, FreeSlot, Captured, Staged, Swapped, NotSwapping, WorkType, At
<1> QED  BY <1>1, <1>3, <1>4, <1>5, <1>6, QuietStep

\* What an upload publishes fits, although the source may have grown.
LEMMA PublishedFits ==
    ASSUME IInv, NEW t \in Tasks, At(t, "publish"),
           work[t].size <= MaxFile, work[t].used + work[t].size <= MaxChat
    PROVE  /\ disk["files"] \in Trees /\ work[t].slot \in Slots /\ work[t].size \in Sizes
           /\ disk["files"][work[t].slot] = 0
           /\ FreeSlot(work[t].slot) /\ work[t].used = Total(disk["files"])
           /\ Small([disk["files"] EXCEPT ![work[t].slot] = work[t].size])
           /\ [disk["files"] EXCEPT ![work[t].slot] = work[t].size] \in Trees
<1>1. Works(t)
  BY DEF At, Works
<1>2. /\ Own(t) /\ disk["files"] \in Trees \cup {Gone} /\ Small(disk["files"])
  BY <1>1, OneWorks DEF IInv, Sized
<1>3. /\ disk["files"] # Gone /\ work[t].slot \in Slots /\ work[t].size \in Sizes
      /\ FreeSlot(work[t].slot) /\ work[t].used = Total(disk["files"])
  BY <1>2 DEF Own, Placed, At
<1>4. disk["files"] \in Trees /\ disk["files"][work[t].slot] = 0
  BY <1>2, <1>3, ContentsFacts DEF FreeSlot
<1>5. work[t].size \in Nat
  BY <1>3, LimitAssumption
<1> QED  BY <1>2, <1>3, <1>4, <1>5, UploadFits

LEMMA PublishKeeps ==
    ASSUME IInv, NEW t \in Tasks, Publish(t)
    PROVE  IInv'
<1>1. /\ Works(t) /\ At(t, "publish") /\ UNCHANGED loop /\ snapshots' = snapshots
      /\ Finish(t)
  BY DEF Publish, At, Works
<1>2. /\ disk \in Places /\ snapshots \subseteq Snapshot /\ work[t] \in WorkType
      /\ Small(disk["files"]) /\ \A s \in snapshots : Small(s.files)
  BY <1>1, OneWorks DEF IInv, Sized
<1>3. CASE UNCHANGED disk
  BY <1>1, <1>3, FailStep
<1>4. CASE ~UNCHANGED disk
  <2>1. /\ work[t].size <= MaxFile /\ work[t].used + work[t].size <= MaxChat
        /\ disk' = [disk EXCEPT !["files"][work[t].slot] = work[t].size]
    <3>1. work[t].used + work[t].size \in Nat /\ work[t].size \in Nat
      BY <1>2 DEF WorkType
    <3> QED  BY <1>4, <3>1, LimitAssumption DEF Publish
  <2>2. PICK tree : tree = [disk["files"] EXCEPT ![work[t].slot] = work[t].size]
    OBVIOUS
  <2>3. tree \in Trees /\ Small(tree)
    BY <1>1, <2>1, <2>2, PublishedFits
  <2>4. disk' = [disk EXCEPT !["files"] = tree]
    BY <2>1, <2>2
  <2>5. disk' \in Places /\ disk'["files"] = tree
    BY <1>2, <2>3, <2>4 DEF Places, Names
  <2> QED  BY <1>1, <1>2, <2>3, <2>5, FinishStep
<1> QED  BY <1>3, <1>4

\* Nothing else changes in the record.
SameSwap(r, w) ==
    /\ r.source = w.source /\ r.backups = w.backups
    /\ r.moved = w.moved /\ r.installed = w.installed

\* A tree is read or staged.
Revised(w, n, tree) == [w EXCEPT !.revisions[n] = tree]

LEMMA Revise ==
    ASSUME NEW w \in WorkType, Limited(w), NEW n \in Names, NEW tree \in Trees,
           n = "files" => Small(tree)
    PROVE  /\ Revised(w, n, tree) \in WorkType /\ Limited(Revised(w, n, tree))
           /\ SameSwap(Revised(w, n, tree), w)
           /\ Revised(w, n, tree).step = w.step /\ Revised(w, n, tree).dir = w.dir
           /\ Revised(w, n, tree).revisions[n] = tree
           /\ \A m \in Names \ {n} : Revised(w, n, tree).revisions[m] = w.revisions[m]
<1>1. PICK R : R = [w.revisions EXCEPT ![n] = tree]
  OBVIOUS
<1>2. PICK r : r = [w EXCEPT !.revisions = R] /\ r = Revised(w, n, tree)
  BY <1>1 DEF Revised
<1>3. /\ R \in Places /\ R[n] = tree
      /\ \A m \in Names \ {n} : R[m] = w.revisions[m]
  BY <1>1 DEF WorkType, Places
<1>4. Small(R["files"])
  <2>1. CASE n = "files"
    BY <1>3, <2>1
  <2>2. CASE n # "files"
    BY <1>3, <2>2 DEF Limited, Names
  <2> QED  BY <2>1, <2>2
<1>5. r \in WorkType /\ r.revisions = R /\ SameSwap(r, w)
      /\ r.step = w.step /\ r.dir = w.dir
  BY <1>2, <1>3 DEF WorkType, SameSwap
<1>6. Limited(r)
  BY <1>4, <1>5 DEF Limited, SameSwap
<1> QED  BY <1>2, <1>3, <1>5, <1>6

\* The next step of a loop over both directories.
LEMMA DirLoop ==
    ASSUME NEW t, NEW w \in WorkType, Limited(w), NEW step \in Steps, NextDir(t, w, step)
    PROVE  \E r \in WorkType :
             /\ Do(t, r) /\ Limited(r) /\ SameSwap(r, w) /\ r.revisions = w.revisions
             /\ r.step = IF work[t].dir = 1 THEN w.step ELSE step
             /\ r.dir = IF work[t].dir = 1 THEN 2 ELSE 1
<1>1. PICK r : r = IF work[t].dir = 1 THEN [w EXCEPT !.dir = 2]
                                      ELSE [w EXCEPT !.dir = 1, !.step = step]
  OBVIOUS
<1>2. Do(t, r)
  BY <1>1 DEF NextDir
<1>3. /\ r \in WorkType /\ SameSwap(r, w) /\ r.revisions = w.revisions
      /\ r.step = IF work[t].dir = 1 THEN w.step ELSE step
      /\ r.dir = IF work[t].dir = 1 THEN 2 ELSE 1
  <2>1. CASE work[t].dir = 1
    BY <1>1, <2>1 DEF WorkType, SameSwap
  <2>2. CASE work[t].dir # 1
    <3>1. PICK v : v = [w EXCEPT !.dir = 1]
      OBVIOUS
    <3>2. v \in WorkType /\ SameSwap(v, w) /\ v.revisions = w.revisions /\ v.dir = 1
      BY <3>1 DEF WorkType, SameSwap
    <3>3. r = [v EXCEPT !.step = step]
      BY <1>1, <2>2, <3>1
    <3>4. r \in WorkType /\ SameSwap(r, v) /\ r.revisions = v.revisions /\ r.dir = v.dir
          /\ r.step = step
      BY <3>2, <3>3 DEF WorkType, SameSwap
    <3> QED  BY <2>2, <3>2, <3>4 DEF SameSwap
  <2> QED  BY <2>1, <2>2
<1>4. Limited(r)
  BY <1>3 DEF Limited, SameSwap
<1> QED  BY <1>2, <1>3, <1>4

LEMMA DirNames == Dirs[1] = "files" /\ Dirs[2] = "artifacts" /\ Names = {"files", "artifacts"}
BY DEF Dirs, Names

LEMMA ReadKeeps ==
    ASSUME IInv, NEW t \in Tasks, Read(t)
    PROVE  IInv'
<1>1. Works(t) /\ At(t, "read") /\ UNCHANGED <<loop, disk, snapshots>>
  BY DEF Read, At, Works
<1>2. /\ work[t] \in WorkType /\ Own(t) /\ Limited(work[t]) /\ disk \in Places
      /\ Small(disk["files"])
      /\ disk["files"] \in Trees \cup {Gone} /\ disk["artifacts"] \in Trees \cup {Gone}
  BY <1>1, OneWorks DEF IInv, Sized
<1>3. PICK n, tree : n = Dirs[work[t].dir] /\ tree = Contents(disk[n])
  OBVIOUS
<1>4. work[t].dir \in {1, 2}
  BY <1>2 DEF WorkType
<1>5. n \in Names
  BY <1>3, <1>4, DirNames
<1>6. tree \in Trees /\ (n = "files" => Small(tree))
  BY <1>2, <1>3, <1>5, ContentsFacts DEF Names
<1>7. PICK w : w = Revised(work[t], n, tree)
  OBVIOUS
<1>8. NextDir(t, w, "seal")
  BY <1>3, <1>7 DEF Read, Revised
<1>9. /\ w \in WorkType /\ Limited(w) /\ SameSwap(w, work[t])
      /\ w.step = work[t].step /\ w.dir = work[t].dir
      /\ w.revisions[n] = tree
      /\ \A m \in Names \ {n} : w.revisions[m] = work[t].revisions[m]
  BY <1>2, <1>5, <1>6, <1>7, Revise
<1>10. PICK r \in WorkType :
             /\ Do(t, r) /\ Limited(r) /\ SameSwap(r, w) /\ r.revisions = w.revisions
             /\ r.step = IF work[t].dir = 1 THEN w.step ELSE "seal"
             /\ r.dir = IF work[t].dir = 1 THEN 2 ELSE 1
  BY <1>8, <1>9, DirLoop DEF Steps
<1>11. work'[t] = r
  BY <1>10, NewRecord
<1>12. r.step \in {"read", "seal"} /\ NotSwapping(r)
  BY <1>1, <1>2, <1>9, <1>10 DEF At, Own, Swapped, SameSwap, NotSwapping
<1>13. /\ r.revisions["files"] = Contents(disk["files"])
       /\ r.step = "seal" => r.revisions["artifacts"] = Contents(disk["artifacts"])
  <2>1. CASE work[t].dir = 1
    BY <1>1, <1>3, <1>9, <1>10, <2>1, DirNames DEF At
  <2>2. CASE work[t].dir = 2
    <3>1. work[t].revisions["files"] = Contents(disk["files"])
      BY <1>1, <1>2, <2>2 DEF Own, Captured, At
    <3> QED  BY <1>3, <1>9, <1>10, <2>2, <3>1, DirNames
  <2> QED  BY <1>4, <2>1, <2>2
<1>14. Own(t)'
  BY <1>1, <1>11, <1>12, <1>13 DEF Own, Placed, Captured, Staged, Swapped
<1> QED  BY <1>1, <1>10, <1>12, <1>14, QuietStep

\* What a snapshot takes is what the Chat holds.
LEMMA SealedSnapshot ==
    ASSUME IInv, NEW t \in Tasks, Seal(t)
    PROVE  \E s \in Snapshot :
             /\ s = [version |-> 2, files |-> Contents(disk["files"]),
                     artifacts |-> Contents(disk["artifacts"])]
             /\ Small(s.files) /\ snapshots' = snapshots \cup {s}
<1>1. Works(t) /\ At(t, "seal")
  BY DEF Seal, At, Works
<1>2. /\ Own(t) /\ Small(disk["files"])
      /\ disk["files"] \in Trees \cup {Gone} /\ disk["artifacts"] \in Trees \cup {Gone}
  BY <1>1, OneWorks DEF IInv, Sized
<1>3. PICK f, a : f = Contents(disk["files"]) /\ a = Contents(disk["artifacts"])
  OBVIOUS
<1>4. work[t].revisions["files"] = f /\ work[t].revisions["artifacts"] = a
  BY <1>1, <1>2, <1>3 DEF Own, Captured, At
<1>5. f \in Trees /\ a \in Trees /\ Small(f)
  BY <1>2, <1>3, ContentsFacts
<1>6. snapshots' = snapshots \cup {[version |-> 2, files |-> f, artifacts |-> a]}
  BY <1>4 DEF Seal
<1>7. [version |-> 2, files |-> f, artifacts |-> a] \in Snapshot
  BY <1>5 DEF Snapshot
<1> QED  BY <1>3, <1>5, <1>6, <1>7

LEMMA SealKeeps ==
    ASSUME IInv, NEW t \in Tasks, Seal(t)
    PROVE  IInv'
<1>1. Works(t) /\ UNCHANGED loop /\ disk' = disk /\ Finish(t)
  BY DEF Seal, At, Works
<1>2. /\ disk \in Places /\ snapshots \subseteq Snapshot
      /\ Small(disk["files"]) /\ \A s \in snapshots : Small(s.files)
  BY <1>1, OneWorks DEF IInv, Sized
<1>3. PICK s \in Snapshot : Small(s.files) /\ snapshots' = snapshots \cup {s}
  BY SealedSnapshot
<1> QED  BY <1>1, <1>2, <1>3, FinishStep

\* The trees of a snapshot.
LEMMA SourceFacts ==
    ASSUME IInv, NEW source \in Sources
    PROVE  /\ source \in [Names -> Trees] /\ source \in Places /\ Small(source["files"])
           /\ \E s \in snapshots :
                /\ source["files"] = s.files
                /\ source["artifacts"] = IF s.version = 2 THEN s.artifacts ELSE Nothing
<1>1. PICK s \in snapshots :
         source = [files |-> s.files,
                   artifacts |-> IF s.version = 2 THEN s.artifacts ELSE Nothing]
  BY DEF Sources
<1>2. s \in Snapshot /\ Small(s.files) /\ Nothing \in Trees
  BY TreeFacts DEF IInv, TypeOK, Sized, Snapshot
<1>3. PICK f, a : f = s.files /\ a = IF s.version = 2 THEN s.artifacts ELSE Nothing
  OBVIOUS
<1>4. f \in Trees /\ a \in Trees /\ source = [files |-> f, artifacts |-> a]
  BY <1>1, <1>2, <1>3 DEF Snapshot
<1> QED  BY <1>2, <1>3, <1>4 DEF Names, Places

LEMMA StageKeeps ==
    ASSUME IInv, NEW t \in Tasks, Stage(t)
    PROVE  IInv'
<1>1. Works(t) /\ At(t, "stage") /\ UNCHANGED <<loop, disk, snapshots>>
  BY DEF Stage, At, Works
<1>2. work[t] \in WorkType /\ Own(t) /\ Limited(work[t])
  BY <1>1, OneWorks
<1>3. PICK source : source = work[t].source
  OBVIOUS
<1>4. source \in Sources
  BY <1>1, <1>2, <1>3 DEF Own, Staged, At
<1>5. source \in [Names -> Trees] /\ source \in Places /\ Small(source["files"])
  BY <1>4, SourceFacts
<1>6. PICK n, tree : n = Dirs[work[t].dir] /\ tree = source[n]
  OBVIOUS
<1>7. work[t].dir \in {1, 2}
  BY <1>2 DEF WorkType
<1>8. n \in Names
  BY <1>6, <1>7, DirNames
<1>9. tree \in Trees /\ (n = "files" => Small(tree))
  BY <1>5, <1>6, <1>8
<1>10. PICK w : w = Revised(work[t], n, tree)
  OBVIOUS
<1>11. NextDir(t, w, "move")
  BY <1>3, <1>6, <1>10 DEF Stage, Revised
<1>12. /\ w \in WorkType /\ Limited(w) /\ SameSwap(w, work[t])
       /\ w.step = work[t].step /\ w.dir = work[t].dir
       /\ w.revisions[n] = tree
       /\ \A m \in Names \ {n} : w.revisions[m] = work[t].revisions[m]
  BY <1>2, <1>8, <1>9, <1>10, Revise
<1>13. PICK r \in WorkType :
             /\ Do(t, r) /\ Limited(r) /\ SameSwap(r, w) /\ r.revisions = w.revisions
             /\ r.step = IF work[t].dir = 1 THEN w.step ELSE "move"
             /\ r.dir = IF work[t].dir = 1 THEN 2 ELSE 1
  BY <1>11, <1>12, DirLoop DEF Steps
<1>14. work'[t] = r
  BY <1>13, NewRecord
<1>15. /\ r.step \in {"stage", "move"} /\ NotSwapping(r) /\ r.source = source
       /\ r.step = "stage" <=> r.dir = 2
  BY <1>1, <1>2, <1>3, <1>12, <1>13 DEF At, Own, Swapped, SameSwap, NotSwapping
<1>16. /\ r.revisions["files"] = source["files"]
       /\ r.step = "move" => r.revisions["artifacts"] = source["artifacts"]
  <2>1. CASE work[t].dir = 1
    BY <1>1, <1>6, <1>12, <1>13, <2>1, DirNames DEF At
  <2>2. CASE work[t].dir = 2
    <3>1. work[t].revisions["files"] = source["files"]
      BY <1>1, <1>2, <1>3, <2>2 DEF Own, Staged, At
    <3> QED  BY <1>6, <1>12, <1>13, <2>2, <3>1, DirNames
  <2> QED  BY <1>7, <2>1, <2>2
<1>17. Sources' = Sources
  BY <1>1 DEF Sources
<1>18. Staged(t)'
  BY <1>4, <1>13, <1>14, <1>15, <1>16, <1>17 DEF Staged, NotSwapping, WorkType
<1>19. Swapped(t)'
  BY <1>14, <1>15, TreeFacts DEF Swapped, NotSwapping, Names
<1>20. Own(t)'
  BY <1>14, <1>15, <1>18, <1>19 DEF Own, Placed, Captured
<1> QED  BY <1>1, <1>13, <1>15, <1>20, QuietStep

\* Another step of the operation, in either directory.
Goto(w, step, dir) == [w EXCEPT !.step = step, !.dir = dir]

LEMMA GotoFacts ==
    ASSUME NEW w \in WorkType, NEW step \in Steps, NEW dir \in 1 .. 2
    PROVE  LET v == Goto(w, step, dir)
           IN /\ v \in WorkType /\ v.step = step /\ v.dir = dir /\ SameSwap(v, w)
              /\ v.revisions = w.revisions /\ v.errors = w.errors
<1>1. PICK v : v = [w EXCEPT !.step = step]
  OBVIOUS
<1>2. /\ v \in WorkType /\ v.step = step /\ SameSwap(v, w)
      /\ v.revisions = w.revisions /\ v.errors = w.errors
  BY <1>1 DEF WorkType, SameSwap
<1>3. PICK u : u = [v EXCEPT !.dir = dir]
  OBVIOUS
<1>4. /\ u \in WorkType /\ u.step = v.step /\ u.dir = dir /\ SameSwap(u, v)
      /\ u.revisions = v.revisions /\ u.errors = v.errors
  BY <1>2, <1>3 DEF WorkType, SameSwap
<1>5. u = Goto(w, step, dir)
  BY <1>1, <1>3 DEF Goto
<1> QED  BY <1>2, <1>4, <1>5 DEF SameSwap

\* One directory of the Chat changes.
LEMMA DiskChange ==
    ASSUME disk \in Places, NEW n \in Names, NEW tree \in Trees \cup {Gone},
           disk' = [disk EXCEPT ![n] = tree]
    PROVE  disk' \in Places /\ disk'[n] = tree /\ \A m \in Names \ {n} : disk'[m] = disk[m]
BY DEF Places

LEMMA MoveKeeps ==
    ASSUME IInv, NEW t \in Tasks, Move(t)
    PROVE  IInv'
<1>1. Works(t) /\ At(t, "move") /\ UNCHANGED loop /\ snapshots' = snapshots
  BY DEF Move, At, Works
<1>2. /\ work[t] \in WorkType /\ Own(t) /\ Limited(work[t]) /\ disk \in Places
      /\ Small(disk["files"]) /\ snapshots \subseteq Snapshot
      /\ \A s \in snapshots : Small(s.files)
  BY <1>1, OneWorks DEF IInv, Sized
<1>3. PICK n, w : n = Dirs[work[t].dir] /\ w = work[t]
  OBVIOUS
<1>4. n \in Names /\ w \in WorkType /\ (n = "files" <=> w.dir = 1)
  <2>1. w.dir \in {1, 2} /\ w \in WorkType
    BY <1>2, <1>3 DEF WorkType
  <2> QED  BY <1>3, <2>1, DirNames
<1>5. PICK B, M : B = [w.backups EXCEPT ![n] = disk[n]] /\ M = w.moved \cup {n}
  OBVIOUS
<1>6. /\ B \in Places /\ B[n] = disk[n] /\ \A m \in Names \ {n} : B[m] = w.backups[m]
      /\ M \in SUBSET Names
  BY <1>2, <1>4, <1>5 DEF WorkType, Places
<1>7. PICK r : r = [w EXCEPT !.step = "install", !.backups = B, !.moved = M]
  OBVIOUS
<1>8. Do(t, r) /\ disk' = [disk EXCEPT ![n] = Gone]
  BY <1>3, <1>5, <1>7 DEF Move
<1>9. /\ r \in WorkType /\ r.step = "install" /\ r.backups = B /\ r.moved = M
      /\ r.dir = w.dir /\ r.revisions = w.revisions /\ r.source = w.source
      /\ r.installed = w.installed
  BY <1>4, <1>6, <1>7 DEF WorkType, Steps
<1>10. Limited(r)
  <2>1. Small(B["files"])
    BY <1>2, <1>3, <1>4, <1>6 DEF Limited, Names
  <2> QED  BY <1>2, <1>3, <1>9, <2>1 DEF Limited
<1>11. disk' \in Places /\ disk'[n] = Gone /\ \A m \in Names \ {n} : disk'[m] = disk[m]
  BY <1>2, <1>4, <1>8, DiskChange
<1>12. Small(disk'["files"])
  BY <1>2, <1>4, <1>11, GoneIsSmall DEF Names
<1>13. work'[t] = r
  BY <1>8, NewRecord
<1>14. Sources' = Sources
  BY <1>1 DEF Sources
<1>15. Staged(t) /\ Swapped(t) /\ w.step = "move" /\ w.dir \in {1, 2}
  BY <1>1, <1>2, <1>3 DEF Own, At, WorkType
<1>16. Staged(t)'
  BY <1>3, <1>4, <1>5, <1>9, <1>11, <1>13, <1>14, <1>15, DirNames DEF Staged
<1>17. /\ w.installed \subseteq w.moved \cap {"files"}
       /\ \A m \in Names : IF m \in w.moved THEN m \in w.installed \/ disk[m] = Gone
                                            ELSE w.backups[m] = Gone
  BY <1>3, <1>15 DEF Swapped
<1>18. Swapped(t)'
  <2>1. r.installed \subseteq r.moved \cap {"files"}
    BY <1>5, <1>9, <1>17
  <2>2. \A m \in Names : IF m \in r.moved THEN m \in r.installed \/ disk'[m] = Gone
                                            ELSE r.backups[m] = Gone
    BY <1>5, <1>6, <1>9, <1>11, <1>17
  <2> QED  BY <1>9, <1>13, <2>1, <2>2 DEF Swapped
<1>19. Own(t)'
  BY <1>9, <1>13, <1>16, <1>18 DEF Own, Placed, Captured
<1> QED  BY <1>1, <1>2, <1>8, <1>9, <1>10, <1>11, <1>12, <1>19, WorkerStep

\* What a restoration puts in place is the snapshot's, as is what it has put.
LEMMA InstalledTrees ==
    ASSUME IInv, NEW t \in Tasks, At(t, "install")
    PROVE  /\ work[t].source \in Sources /\ work[t].dir \in {1, 2}
           /\ work[t].revisions["artifacts"] = work[t].source["artifacts"]
           /\ work[t].dir = 1 => /\ work[t].revisions["files"] = work[t].source["files"]
                                 /\ work[t].moved = {"files"}
           /\ work[t].dir = 2 => /\ disk["files"] = work[t].source["files"]
                                 /\ work[t].moved = {"files", "artifacts"}
           /\ Small(work[t].source["files"])
           /\ work[t].source["files"] \in Trees /\ work[t].source["artifacts"] \in Trees
<1>1. Works(t)
  BY DEF At, Works
<1>2. work[t] \in WorkType /\ Own(t)
  BY <1>1, OneWorks
<1>3. work[t].source \in Sources /\ work[t].dir \in {1, 2}
  BY <1>2 DEF Own, Staged, At, WorkType
<1>4. PICK source \in Sources : source = work[t].source
  BY <1>3
<1>5. Small(source["files"]) /\ source["files"] \in Trees /\ source["artifacts"] \in Trees
  BY <1>4, SourceFacts DEF Names
<1> QED  BY <1>2, <1>3, <1>4, <1>5, DirNames DEF Own, Staged, At

LEMMA InstallKeeps ==
    ASSUME IInv, NEW t \in Tasks, Install(t)
    PROVE  IInv'
<1>1. Works(t) /\ At(t, "install") /\ UNCHANGED loop /\ snapshots' = snapshots
  BY DEF Install, At, Works
<1>2. /\ work[t] \in WorkType /\ Own(t) /\ Limited(work[t]) /\ disk \in Places
      /\ Small(disk["files"]) /\ snapshots \subseteq Snapshot
      /\ \A s \in snapshots : Small(s.files)
  BY <1>1, OneWorks DEF IInv, Sized
<1>3. PICK w, source : w = work[t] /\ source = work[t].source
  OBVIOUS
<1>4. /\ source \in Sources /\ w.dir \in {1, 2} /\ w \in WorkType
      /\ w.revisions["artifacts"] = source["artifacts"]
      /\ w.dir = 1 => w.revisions["files"] = source["files"] /\ w.moved = {"files"}
      /\ w.dir = 2 => disk["files"] = source["files"] /\ w.moved = {"files", "artifacts"}
      /\ Small(source["files"])
      /\ source["files"] \in Trees /\ source["artifacts"] \in Trees
  BY <1>1, <1>2, <1>3, InstalledTrees
<1>5. CASE w.dir = 1
  <2>1. PICK R : R = [w.revisions EXCEPT !["files"] = Gone]
    OBVIOUS
  <2>2. R \in Places /\ R["files"] = Gone /\ R["artifacts"] = w.revisions["artifacts"]
    BY <1>4, <2>1 DEF WorkType, Places, Names
  <2>0. PICK I \in SUBSET Names : I = {"files"}
    BY DEF Names
  <2>3. PICK r : r = [w EXCEPT !.step = "move", !.dir = 2, !.revisions = R,
                               !.installed = I]
    OBVIOUS
  <2>4. Do(t, r) /\ disk' = [disk EXCEPT !["files"] = source["files"]]
    BY <1>3, <1>4, <1>5, <2>0, <2>1, <2>3, DirNames DEF Install
  <2>5. /\ r \in WorkType /\ r.step = "move" /\ r.dir = 2 /\ r.revisions = R
        /\ r.installed = {"files"} /\ r.source = w.source /\ r.moved = w.moved
        /\ r.backups = w.backups
    <3>1. PICK v : v = Goto(w, "move", 2)
      OBVIOUS
    <3>2. v \in WorkType /\ v.step = "move" /\ v.dir = 2 /\ SameSwap(v, w)
      BY <1>4, <3>1, GotoFacts DEF Steps
    <3>3. r = [v EXCEPT !.revisions = R, !.installed = I]
      BY <2>3, <3>1 DEF Goto
    <3>4. /\ r \in WorkType /\ r.step = v.step /\ r.dir = v.dir /\ r.revisions = R
          /\ r.installed = I /\ r.source = v.source /\ r.moved = v.moved
          /\ r.backups = v.backups
      BY <2>0, <2>2, <3>2, <3>3 DEF WorkType
    <3> QED  BY <2>0, <3>2, <3>4 DEF SameSwap
  <2>6. Limited(r)
    BY <1>2, <1>3, <2>2, <2>5, GoneIsSmall DEF Limited
  <2>7. /\ disk' \in Places /\ disk'["files"] = source["files"]
        /\ disk'["artifacts"] = disk["artifacts"]
    BY <1>2, <1>4, <2>4, DiskChange DEF Names
  <2>8. work'[t] = r
    BY <2>4, NewRecord
  <2>9. Sources' = Sources
    BY <1>1 DEF Sources
  <2>10. Staged(t)'
    BY <1>3, <1>4, <1>5, <2>2, <2>5, <2>7, <2>8, <2>9 DEF Staged
  <2>11. w.backups["artifacts"] = Gone
    BY <1>1, <1>2, <1>3, <1>4, <1>5 DEF Own, Swapped, At, Names
  <2>12. Swapped(t)'
    BY <1>4, <1>5, <2>5, <2>7, <2>8, <2>11 DEF Swapped, Names
  <2>13. Own(t)'
    BY <2>5, <2>8, <2>10, <2>12 DEF Own, Placed, Captured
  <2> QED  BY <1>1, <1>2, <1>4, <2>4, <2>5, <2>6, <2>7, <2>13, WorkerStep
<1>6. CASE w.dir = 2
  <2>1. Finish(t) /\ disk' = [disk EXCEPT !["artifacts"] = source["artifacts"]]
    BY <1>3, <1>4, <1>6, DirNames DEF Install
  <2>2. disk' \in Places /\ disk'["files"] = disk["files"]
    BY <1>2, <1>4, <2>1, DiskChange DEF Names
  <2> QED  BY <1>1, <1>2, <2>1, <2>2, FinishStep
<1> QED  BY <1>4, <1>5, <1>6

LEMMA IoErrorKeeps ==
    ASSUME IInv, NEW t \in Tasks, IoError(t)
    PROVE  IInv'
<1>1. Works(t) /\ UNCHANGED <<loop, disk, snapshots>> /\ work[t].errors < MaxErrors
  BY DEF IoError, Steps, Works
<1>2. work[t] \in WorkType /\ Own(t) /\ Limited(work[t])
  BY <1>1, OneWorks
<1>3. CASE Finish(t)
  BY <1>1, <1>3, FailStep
<1>4. CASE ~Finish(t)
  <2>1. work[t].step \in {"move", "install"}
    BY <1>4 DEF IoError
  <2>2. PICK w : w = work[t]
    OBVIOUS
  <2>0. PICK e : e = w.errors + 1
    OBVIOUS
  <2>3. PICK r : r = [w EXCEPT !.step = "remove", !.dir = 2, !.errors = e]
    OBVIOUS
  <2>4. Do(t, r) /\ work'[t] = r
    <3>1. Do(t, r)
      BY <2>0, <2>1, <2>2, <2>3 DEF IoError
    <3> QED  BY <3>1, NewRecord
  <2>5. e \in 0 .. MaxErrors /\ e > 0
    BY <1>1, <1>2, <2>0, <2>2, LimitAssumption DEF WorkType
  <2>6. /\ r \in WorkType /\ r.step = "remove" /\ r.dir = 2 /\ r.errors > 0
        /\ SameSwap(r, w) /\ r.revisions = w.revisions
    <3>1. PICK v : v = Goto(w, "remove", 2)
      OBVIOUS
    <3>2. /\ v \in WorkType /\ v.step = "remove" /\ v.dir = 2 /\ SameSwap(v, w)
          /\ v.revisions = w.revisions
      BY <1>2, <2>2, <3>1, GotoFacts DEF Steps
    <3>3. r = [v EXCEPT !.errors = e]
      BY <2>3, <3>1 DEF Goto
    <3>4. /\ r \in WorkType /\ r.step = v.step /\ r.dir = v.dir /\ SameSwap(r, v)
          /\ r.revisions = v.revisions /\ r.errors = e
      BY <2>5, <3>2, <3>3 DEF WorkType, SameSwap
    <3> QED  BY <2>5, <3>2, <3>4 DEF SameSwap
  <2>7. Limited(r)
    BY <1>2, <2>2, <2>6 DEF Limited, SameSwap
  <2>8. Swapped(t)'
    BY <1>1, <1>2, <2>1, <2>2, <2>4, <2>6 DEF Own, Swapped, SameSwap
  <2>9. Own(t)'
    BY <2>4, <2>6, <2>8 DEF Own, Placed, Captured, Staged
  <2> QED  BY <1>1, <2>4, <2>6, <2>7, <2>9, QuietStep
<1> QED  BY <1>3, <1>4

LEMMA RemoveKeeps ==
    ASSUME IInv, NEW t \in Tasks, Remove(t)
    PROVE  IInv'
<1>1. Works(t) /\ At(t, "remove") /\ UNCHANGED loop /\ snapshots' = snapshots
  BY DEF Remove, At, Works
<1>2. /\ work[t] \in WorkType /\ Own(t) /\ Limited(work[t]) /\ disk \in Places
      /\ Small(disk["files"]) /\ snapshots \subseteq Snapshot
      /\ \A s \in snapshots : Small(s.files)
  BY <1>1, OneWorks DEF IInv, Sized
<1>3. PICK n, w : n = Dirs[work[t].dir] /\ w = work[t]
  OBVIOUS
<1>4. n \in Names /\ w \in WorkType /\ w.dir \in 1 .. 2
  <2>1. w.dir \in {1, 2} /\ w \in WorkType
    BY <1>2, <1>3 DEF WorkType
  <2> QED  BY <1>3, <2>1, DirNames
<1>5. PICK r : r = [w EXCEPT !.step = "recover"]
  OBVIOUS
<1>6. /\ Do(t, r) /\ work'[t] = r
      /\ disk' = IF n \in w.installed THEN [disk EXCEPT ![n] = Gone] ELSE disk
  BY <1>3, <1>5, NewRecord DEF Remove
<1>7. /\ r \in WorkType /\ r.step = "recover" /\ r.dir = w.dir /\ SameSwap(r, w)
      /\ r.revisions = w.revisions /\ r.errors = w.errors
  BY <1>4, <1>5 DEF WorkType, Steps, SameSwap
<1>8. Limited(r)
  BY <1>2, <1>3, <1>7 DEF Limited, SameSwap
<1>9. /\ disk' \in Places
      /\ \A m \in Names : disk'[m] = IF m = n /\ n \in w.installed THEN Gone ELSE disk[m]
  <2>1. CASE n \in w.installed
    <3>1. disk' = [disk EXCEPT ![n] = Gone]
      BY <1>6, <2>1
    <3>2. disk' \in Places /\ disk'[n] = Gone /\ \A m \in Names \ {n} : disk'[m] = disk[m]
      BY <1>2, <1>4, <3>1, DiskChange
    <3> QED  BY <2>1, <3>2
  <2>2. CASE n \notin w.installed
    BY <1>2, <1>6, <2>2
  <2> QED  BY <2>1, <2>2
<1>10. Small(disk'["files"])
  BY <1>2, <1>9, GoneIsSmall DEF Names
<1>11. /\ w.installed \subseteq w.moved \cap {"files"}
       /\ \A m \in Names : IF m \in w.moved THEN m \in w.installed \/ disk[m] = Gone
                                            ELSE w.backups[m] = Gone
       /\ w.errors > 0 /\ (w.dir = 1 => "artifacts" \notin w.moved)
  BY <1>1, <1>2, <1>3 DEF Own, Swapped, At
<1>12. Swapped(t)'
  <2>1. r.installed \subseteq r.moved \cap {"files"}
    BY <1>7, <1>11 DEF SameSwap
  <2>2. \A m \in Names : IF m \in r.moved THEN m \in r.installed \/ disk'[m] = Gone
                                          ELSE r.backups[m] = Gone
    BY <1>7, <1>9, <1>11 DEF SameSwap
  <2>3. n \in r.moved => disk'[n] = Gone
    BY <1>4, <1>7, <1>9, <1>11 DEF SameSwap
  <2>4. r.errors > 0 /\ (r.dir = 1 => "artifacts" \notin r.moved) /\ n = Dirs[r.dir]
    BY <1>3, <1>7, <1>11 DEF SameSwap
  <2> QED  BY <1>6, <1>7, <2>1, <2>2, <2>3, <2>4 DEF Swapped
<1>13. Own(t)'
  BY <1>6, <1>7, <1>12 DEF Own, Placed, Captured, Staged
<1> QED  BY <1>1, <1>2, <1>6, <1>7, <1>8, <1>9, <1>10, <1>13, WorkerStep

LEMMA RecoverKeeps ==
    ASSUME IInv, NEW t \in Tasks, Recover(t)
    PROVE  IInv'
<1>1. Works(t) /\ At(t, "recover") /\ UNCHANGED loop /\ snapshots' = snapshots
  BY DEF Recover, At, Works
<1>2. /\ work[t] \in WorkType /\ Own(t) /\ Limited(work[t]) /\ disk \in Places
      /\ Small(disk["files"]) /\ snapshots \subseteq Snapshot
      /\ \A s \in snapshots : Small(s.files)
  BY <1>1, OneWorks DEF IInv, Sized
<1>3. PICK n, w, tree : n = Dirs[work[t].dir] /\ w = work[t] /\ tree = work[t].backups[n]
  OBVIOUS
<1>4. /\ n \in Names /\ w \in WorkType /\ w.dir \in {1, 2} /\ (n = "files" <=> w.dir = 1)
      /\ tree \in Trees \cup {Gone} /\ (n = "files" => Small(tree))
  <2>1. w.dir \in {1, 2} /\ w \in WorkType
    BY <1>2, <1>3 DEF WorkType
  <2>2. n \in Names /\ (n = "files" <=> w.dir = 1)
    BY <1>3, <2>1, DirNames
  <2>3. w.backups \in Places
    BY <2>1 DEF WorkType
  <2>4. tree \in Trees \cup {Gone}
    BY <1>3, <2>2, <2>3 DEF Places
  <2> QED  BY <1>2, <1>3, <2>1, <2>2, <2>4 DEF Limited
<1>5. disk' = IF tree # Gone THEN [disk EXCEPT ![n] = tree] ELSE disk
  BY <1>3 DEF Recover
<1>6. /\ disk' \in Places
      /\ \A m \in Names : disk'[m] = IF m = n /\ tree # Gone THEN tree ELSE disk[m]
  <2>1. CASE tree # Gone
    <3>1. disk' = [disk EXCEPT ![n] = tree]
      BY <1>5, <2>1
    <3>2. disk' \in Places /\ disk'[n] = tree /\ \A m \in Names \ {n} : disk'[m] = disk[m]
      BY <1>2, <1>4, <3>1, DiskChange
    <3> QED  BY <2>1, <3>2
  <2>2. CASE tree = Gone
    BY <1>2, <1>5, <2>2
  <2> QED  BY <2>1, <2>2
<1>7. Small(disk'["files"])
  BY <1>2, <1>4, <1>6 DEF Names
<1>8. CASE w.dir = 1
  <2>1. Finish(t)
    BY <1>3, <1>8 DEF Recover
  <2> QED  BY <1>1, <1>2, <1>6, <1>7, <2>1, FinishStep
<1>9. CASE w.dir = 2
  <2>1. n = "artifacts"
    BY <1>4, <1>9, DirNames
  <2>2. PICK B, M : B = [w.backups EXCEPT ![n] = Gone] /\ M = w.moved \ {n}
    OBVIOUS
  <2>3. /\ B \in Places /\ B[n] = Gone /\ \A m \in Names \ {n} : B[m] = w.backups[m]
        /\ M \in SUBSET Names
    BY <1>4, <2>2 DEF WorkType, Places
  <2>0. PICK v : v = Goto(w, "remove", 1)
    OBVIOUS
  <2>4. PICK r : r = [v EXCEPT !.backups = B, !.moved = M]
    OBVIOUS
  <2>5. Do(t, r) /\ work'[t] = r
    <3>1. r = [w EXCEPT !.step = "remove", !.dir = 1, !.backups = B, !.moved = M]
      BY <2>0, <2>4 DEF Goto
    <3>2. Do(t, r)
      BY <1>3, <1>9, <2>2, <3>1 DEF Recover
    <3> QED  BY <3>2, NewRecord
  <2>6. /\ v \in WorkType /\ v.step = "remove" /\ v.dir = 1 /\ SameSwap(v, w)
        /\ v.revisions = w.revisions /\ v.errors = w.errors
    BY <1>4, <2>0, GotoFacts DEF Steps
  <2>7. /\ r \in WorkType /\ r.step = v.step /\ r.dir = v.dir /\ r.backups = B
        /\ r.moved = M /\ r.installed = v.installed /\ r.source = v.source
        /\ r.revisions = v.revisions /\ r.errors = v.errors
    BY <2>3, <2>4, <2>6 DEF WorkType
  <2>8. Limited(r)
    <3>1. B["files"] = w.backups["files"]
      BY <2>1, <2>3 DEF Names
    <3> QED  BY <1>2, <1>3, <2>6, <2>7, <3>1 DEF Limited, SameSwap
  <2>9. /\ w.installed \subseteq w.moved \cap {"files"}
        /\ \A m \in Names : IF m \in w.moved THEN m \in w.installed \/ disk[m] = Gone
                                             ELSE w.backups[m] = Gone
        /\ w.errors > 0
    BY <1>1, <1>2, <1>3 DEF Own, Swapped, At
  <2>10. Swapped(t)'
    <3>1. r.installed \subseteq r.moved \cap {"files"}
      BY <2>1, <2>2, <2>6, <2>7, <2>9 DEF SameSwap
    <3>2. \A m \in Names : IF m \in r.moved THEN m \in r.installed \/ disk'[m] = Gone
                                            ELSE r.backups[m] = Gone
      BY <1>6, <2>2, <2>3, <2>6, <2>7, <2>9 DEF SameSwap
    <3>3. r.errors > 0 /\ "artifacts" \notin r.moved /\ r.step = "remove"
      BY <2>1, <2>2, <2>6, <2>7, <2>9
    <3> QED  BY <2>5, <3>1, <3>2, <3>3 DEF Swapped
  <2>11. Own(t)'
    BY <2>5, <2>6, <2>7, <2>10 DEF Own, Placed, Captured, Staged
  <2> QED  BY <1>1, <1>2, <1>6, <1>7, <2>5, <2>6, <2>7, <2>8, <2>11, WorkerStep
<1> QED  BY <1>4, <1>8, <1>9

LEMMA DiscardPartKeeps ==
    ASSUME IInv, NEW t \in Tasks, DiscardPart(t)
    PROVE  IInv'
<1>1. Works(t) /\ At(t, "discard") /\ UNCHANGED loop /\ work' = work
  BY DEF DiscardPart, At, Works
<1>2. /\ work[t] \in WorkType /\ Own(t) /\ Limited(work[t]) /\ disk \in Places
      /\ Small(disk["files"]) /\ snapshots \subseteq Snapshot
      /\ \A s \in snapshots : Small(s.files)
  BY <1>1, OneWorks DEF IInv, Sized
<1>3. PICK r : r = work[t]
  OBVIOUS
<1>4. Do(t, r)
  <2>1. work = [u \in Tasks |-> work[u]]
    BY DEF IInv, WaiterHasLock
  <2> QED  BY <1>1, <1>3, <2>1 DEF Do
<1>5. r \in WorkType /\ r.step = "discard" /\ Limited(r) /\ work'[t] = r
  BY <1>1, <1>2, <1>3 DEF At
<1>6. /\ disk' \in Places /\ Small(disk'["files"]) /\ snapshots' \subseteq Snapshot
      /\ \A s \in snapshots' : Small(s.files)
  <2>1. ASSUME NEW n \in Names, NEW left, disk' = [disk EXCEPT ![n] = left],
               left = Gone \/ (left \in Smaller(disk[n]) /\ disk[n] # Gone),
               UNCHANGED snapshots
        PROVE  disk' \in Places /\ Small(disk'["files"])
    <3>1. disk[n] \in Trees \cup {Gone}
      BY <1>2 DEF Places
    <3>2. left \in Trees \cup {Gone} /\ (Small(disk[n]) => Small(left))
      BY <2>1, <3>1, SmallerFits, GoneIsSmall
    <3>3. /\ disk' \in Places /\ disk'[n] = left
          /\ \A m \in Names \ {n} : disk'[m] = disk[m]
      BY <1>2, <2>1, <3>2, DiskChange
    <3> QED  BY <1>2, <3>2, <3>3 DEF Names
  <2>2. ASSUME NEW s \in snapshots, NEW less \in LessOf(s),
               snapshots' = (snapshots \ {s}) \cup {less}
        PROVE  snapshots' \subseteq Snapshot /\ \A v \in snapshots' : Small(v.files)
    BY <1>2, <2>2, LessFits
  <2> QED  BY <1>2, <2>1, <2>2 DEF DiscardPart
<1>7. Own(t)'
  BY <1>1, <1>2, <1>3, <1>5 DEF Own, Placed, Captured, Staged, Swapped
<1> QED  BY <1>1, <1>4, <1>5, <1>6, <1>7, WorkerStep

LEMMA ThreadKeeps ==
    ASSUME IInv, NEW t \in Tasks, Thread(t)
    PROVE  IInv'
<1>1. ASSUME Discarded(t) PROVE IInv'
  <2>1. Works(t) /\ UNCHANGED <<loop, disk, snapshots>> /\ Finish(t)
    BY <1>1 DEF Discarded, At, Works
  <2> QED  BY <2>1, FailStep
<1> QED  BY <1>1, MeasureKeeps, CopyKeeps, PublishKeeps, ReadKeeps, SealKeeps, StageKeeps,
            MoveKeeps, InstallKeeps, RemoveKeeps, RecoverKeeps, DiscardPartKeeps,
            IoErrorKeeps DEF Thread
-----------------------------------------------------------------------------
(* The event loop keeps it. *)

\* What a thread starts with.
LEMMA StartRecord ==
    ASSUME IInv, NEW t \in Tasks, Start(t)
    PROVE  \E r \in WorkType :
             /\ Do(t, r) /\ Limited(r) /\ NotSwapping(r) /\ r.dir = 1
             /\ r.step \in {"measure", "discard", "read", "stage"}
             /\ r.step = "stage" => r.source \in Sources
             /\ deleting' = IF r.step = "discard" THEN TRUE ELSE deleting
             /\ r.step # "discard" => ~deleting
<1>1. Idle \in WorkType /\ Limited(Idle) /\ NotSwapping(Idle) /\ Idle.dir = 1
  BY IdleFacts DEF Idle
<1>2. ASSUME NEW step \in {"measure", "discard", "read"}, Do(t, [Idle EXCEPT !.step = step])
      PROVE  \E r \in WorkType :
               /\ Do(t, r) /\ Limited(r) /\ NotSwapping(r) /\ r.dir = 1
               /\ r.step = step
  <2>1. PICK r : r = [Idle EXCEPT !.step = step]
    OBVIOUS
  <2>2. r \in WorkType /\ r.step = step /\ r.dir = Idle.dir /\ SameSwap(r, Idle)
        /\ r.revisions = Idle.revisions
    BY <1>1, <2>1 DEF WorkType, Steps, SameSwap
  <2> QED  BY <1>1, <1>2, <2>1, <2>2 DEF Limited, NotSwapping, SameSwap
<1>3. ASSUME NEW s \in snapshots,
             Do(t, [Idle EXCEPT !.step = "stage",
                      !.source = [files |-> s.files,
                                  artifacts |-> IF s.version = 2 THEN s.artifacts
                                                                 ELSE Nothing]])
      PROVE  \E r \in WorkType :
               /\ Do(t, r) /\ Limited(r) /\ NotSwapping(r) /\ r.dir = 1
               /\ r.step = "stage" /\ r.source \in Sources
  <2>1. PICK source : source = [files |-> s.files,
                                artifacts |-> IF s.version = 2 THEN s.artifacts
                                                               ELSE Nothing]
    OBVIOUS
  <2>2. source \in Sources
    BY <2>1 DEF Sources
  <2>3. source \in Places /\ Small(source["files"])
    BY <2>2, SourceFacts
  <2>4. PICK r : r = [Idle EXCEPT !.step = "stage", !.source = source]
    OBVIOUS
  <2>5. /\ r \in WorkType /\ r.step = "stage" /\ r.dir = Idle.dir /\ r.source = source
        /\ r.backups = Idle.backups /\ r.moved = Idle.moved
        /\ r.installed = Idle.installed /\ r.revisions = Idle.revisions
    BY <1>1, <2>3, <2>4 DEF WorkType, Steps
  <2>6. Do(t, r)
    BY <1>3, <2>1, <2>4
  <2> QED  BY <1>1, <2>2, <2>3, <2>5, <2>6 DEF Limited, NotSwapping
<1>4. CASE ~deleting /\ Begin(t) /\ UNCHANGED deleting
  <2>1. CASE Do(t, [Idle EXCEPT !.step = "measure"])
    BY <1>2, <1>4, <2>1
  <2>2. CASE Do(t, [Idle EXCEPT !.step = "read"])
    BY <1>2, <1>4, <2>2
  <2> QED  BY <1>3, <1>4, <2>1, <2>2, Zenon DEF Begin
<1>5. CASE Do(t, [Idle EXCEPT !.step = "discard"]) /\ deleting' = TRUE
  BY <1>2, <1>5
<1> QED  BY <1>4, <1>5 DEF Start

LEMMA AcquireKeeps ==
    ASSUME IInv, NEW t \in Tasks, Acquire(t)
    PROVE  IInv'
<1>1. PICK r \in WorkType :
             /\ Do(t, r) /\ Limited(r) /\ NotSwapping(r) /\ r.dir = 1
             /\ r.step \in {"measure", "discard", "read", "stage"}
             /\ r.step = "stage" => r.source \in Sources
             /\ deleting' = IF r.step = "discard" THEN TRUE ELSE deleting
  BY StartRecord DEF Acquire
<1>2. /\ lock = NoTask /\ lock' = t /\ task' = [task EXCEPT ![t] = "waiting"]
      /\ UNCHANGED <<disk, snapshots>>
  BY DEF Acquire
<1>3. \A u \in Tasks : ~Waits(u) /\ ~Works(u) /\ work[u] = Idle
  <2>1. \A u \in Tasks : ~Waits(u) /\ ~Works(u)
    BY <1>2, TaskAssumption DEF IInv, WaiterHasLock
  <2> QED  BY <2>1 DEF IInv, Own, Works
<1>4. work'[t] = r /\ \A u \in Tasks \ {t} : work'[u] = Idle
  BY <1>1, <1>3 DEF IInv, TypeOK, Do
<1>5. WaiterHasLock'
  <2>1. WaiterHasLock /\ Next
    BY DEF IInv, Next
  <2> QED  BY <2>1, Step
<1>6. TypeOK'
  <2>1. work' \in [Tasks -> WorkType]
    BY <1>1, <1>3 DEF IInv, TypeOK, WorkType, Do
  <2>2. \A u \in Tasks : work'[u].step # "none" <=> task'[u] \in {"waiting", "cancelled"}
    BY <1>1, <1>2, <1>3, <1>4, IdleFacts DEF IInv, TypeOK, Waits
  <2>3. /\ lock' \in Tasks \cup {NoTask}
        /\ task' \in [Tasks -> {"idle", "queued", "waiting", "cancelled"}]
        /\ disk' \in Places
        /\ snapshots' \subseteq Snapshot /\ deleting' \in BOOLEAN
    BY <1>1, <1>2 DEF IInv, TypeOK
  <2> QED  BY <2>1, <2>2, <2>3 DEF TypeOK, WorkType
<1>7. Sized'
  BY <1>1, <1>2, <1>4, IdleFacts DEF IInv, Sized
<1>8. ASSUME NEW u \in Tasks PROVE Own(u)'
  <2>1. CASE u = t
    <3>1. Sources' = Sources
      BY <1>2 DEF Sources
    <3> QED  BY <1>1, <1>4, <2>1, <3>1 DEF Own, Placed, Captured, Staged, Swapped
  <2>2. CASE u # t
    <3>1. work'[u] = Idle
      BY <1>4, <2>2
    <3> QED  BY <3>1, IdleFacts DEF Own, Placed, Captured, Staged, Swapped
  <2> QED  BY <2>1, <2>2
<1> QED  BY <1>5, <1>6, <1>7, <1>8 DEF IInv

\* A step that leaves the trees and the threads alone.
LEMMA CallerStep ==
    ASSUME IInv, Next, UNCHANGED <<work, disk, snapshots, deleting>>,
           NEW t \in Tasks, NEW place \in {"idle", "queued", "cancelled"},
           task' = [task EXCEPT ![t] = place], UNCHANGED lock,
           Works(t) <=> place = "cancelled"
    PROVE  IInv'
<1>1. WaiterHasLock'
  BY Step DEF IInv
<1>2. TypeOK'
  <2>1. \A u \in Tasks : work'[u].step # "none" <=> task'[u] \in {"waiting", "cancelled"}
    BY DEF IInv, TypeOK, Works
  <2> QED  BY <2>1 DEF IInv, TypeOK
<1>3. Sized'
  BY DEF IInv, Sized
<1>4. ASSUME NEW u \in Tasks PROVE Own(u)'
  BY DEF IInv, Own, Placed, FreeSlot, Captured, Staged, Sources, Swapped
<1> QED  BY <1>1, <1>2, <1>3, <1>4 DEF IInv

LEMMA ReturnKeeps ==
    ASSUME IInv, NEW t \in Tasks, Return(t)
    PROVE  IInv'
<1>1. /\ Works(t) /\ Do(t, Idle) /\ task' = [task EXCEPT ![t] = "idle"]
      /\ lock' = NoTask /\ UNCHANGED <<disk, snapshots, deleting>>
  BY DEF Return, At, Works
<1>2. \A u \in Tasks \ {t} : work[u] = Idle
  BY <1>1, OneWorks
<1>3. \A u \in Tasks : work'[u] = Idle
  BY <1>1, <1>2 DEF IInv, TypeOK, Do
<1>4. WaiterHasLock'
  <2>1. WaiterHasLock /\ Next
    BY DEF IInv, Next
  <2> QED  BY <2>1, Step
<1>5. TypeOK'
  <2>1. work' \in [Tasks -> WorkType]
    BY <1>1, IdleFacts DEF IInv, TypeOK, WorkType, Do
  <2>2. \A u \in Tasks : work'[u].step # "none" <=> task'[u] \in {"waiting", "cancelled"}
    BY <1>1, <1>2, <1>3, IdleFacts DEF IInv, TypeOK
  <2>3. /\ lock' \in Tasks \cup {NoTask}
        /\ task' \in [Tasks -> {"idle", "queued", "waiting", "cancelled"}]
        /\ disk' \in Places
        /\ snapshots' \subseteq Snapshot /\ deleting' \in BOOLEAN
    BY <1>1 DEF IInv, TypeOK
  <2> QED  BY <2>1, <2>2, <2>3 DEF TypeOK, WorkType
<1>6. Sized'
  BY <1>1, <1>3, IdleFacts DEF IInv, Sized
<1>7. ASSUME NEW u \in Tasks PROVE Own(u)'
  BY <1>3, IdleFacts DEF Own, Placed, Captured, Staged, Swapped
<1> QED  BY <1>4, <1>5, <1>6, <1>7 DEF IInv

LEMMA IInvHolds == Init => IInv
<1> SUFFICES ASSUME Init PROVE IInv
  OBVIOUS
<1>1. work = [t \in Tasks |-> Idle] /\ \A t \in Tasks : work[t] = Idle
  BY DEF Init
<1>2. /\ disk \in Places /\ disk["files"] = Gone
      /\ disk["artifacts"] \in {Gone, Old}
  BY TreeFacts DEF Init, Nowhere, Names, Places
<1>3. snapshots \subseteq Snapshot /\ \A s \in snapshots : Small(s.files)
  BY TreeFacts DEF Init, Snapshot
<1>4. TypeOK
  BY <1>1, <1>2, <1>3, IdleFacts DEF Init, TypeOK, WorkType, Snapshot
<1>5. WaiterHasLock
  BY <1>1, IdleFacts DEF Init, WaiterHasLock, Works, Waits
<1>6. Sized
  BY <1>1, <1>2, <1>3, IdleFacts, GoneIsSmall DEF Sized
<1> QED  BY <1>1, <1>4, <1>5, <1>6, IdleOwn DEF IInv

LEMMA IInvKept == IInv /\ [Next]_vars => IInv'
<1> SUFFICES ASSUME IInv, [Next]_vars PROVE IInv'
  OBVIOUS
<1>1. ASSUME NEW t \in Tasks, Call(t) PROVE IInv'
  <2>1. ~Works(t)
    BY <1>1 DEF Call, IInv, TypeOK, Works
  <2> QED  BY <1>1, <2>1, CallerStep DEF Call, Next
<1>2. ASSUME NEW t \in Tasks, Cancel(t) PROVE IInv'
  <2>1. Works(t) <=> task[t] = "waiting"
    BY <1>2 DEF Cancel, IInv, TypeOK, Works
  <2>2. Next
    BY <1>2 DEF Next
  <2> QED  BY <1>2, <2>1, <2>2, CallerStep DEF Cancel
<1>3. CASE UNCHANGED vars
  BY <1>3 DEF vars, IInv, TypeOK, WaiterHasLock, Waits, Works, Sized, Own, Placed,
              FreeSlot, Captured, Staged, Sources, Swapped
<1> QED  BY <1>1, <1>2, <1>3, AcquireKeeps, ReturnKeeps, ThreadKeeps DEF Next

\* The invariant.
THEOREM SwapInductive == Spec => []IInv
BY IInvHolds, IInvKept, PTL DEF Spec

\* SandboxFiles: what a thread has in hand is always what its step expects.
THEOREM SandboxTypeCorrect == Spec => []TypeOK
<1>1. IInv => TypeOK
  BY DEF IInv
<1> QED  BY <1>1, SwapInductive, PTL

\* The documents of a Chat and each of them stay within their limits: also
\* when a source grows while it is copied, when an older snapshot is restored,
\* and when a restoration that failed half-way is taken back.
THEOREM LimitsAreKept == Spec => []QuotaKept
<1>1. IInv => QuotaKept
  BY DEF IInv, Sized, Small, QuotaKept
<1> QED  BY <1>1, SwapInductive, PTL
-----------------------------------------------------------------------------
(* No thread works at anything but the deletion once that has begun.        *)

DeletionIsLast ==
    \A t \in Tasks :
        /\ work[t].step = "discard" => deleting
        /\ work[t].step \in Steps \ {"discard"} => ~deleting

\* A thread stays with what it was started for.
LEMMA SameErrand ==
    ASSUME IInv, NEW t \in Tasks, Thread(t)
    PROVE  /\ work[t].step \in Steps
           /\ work'[t].step # "done" =>
                work'[t].step # "none" /\ (work'[t].step = "discard" <=> work[t].step = "discard")
<1>1. Works(t) /\ work[t] \in WorkType
  BY ThreadIsAlone, OneWorks
<1>2. ASSUME Finish(t) PROVE work'[t].step = "done"
  BY <1>2, IdleFacts DEF Finish, Do, Done, IInv, TypeOK
<1>3. ASSUME NEW r, Do(t, r) PROVE work'[t] = r
  BY <1>3, NewRecord
<1>4. PICK w : w = work[t] /\ w \in WorkType
  BY <1>1
<1>5. ASSUME NEW n, NEW tree, NEW step, NextDir(t, [w EXCEPT !.revisions[n] = tree], step)
      PROVE  work'[t].step \in {w.step, step}
  <2>1. PICK R : R = [w.revisions EXCEPT ![n] = tree]
    OBVIOUS
  <2>2. PICK v : v = [w EXCEPT !.revisions = R]
    OBVIOUS
  <2>3. PICK r : r = IF w.dir = 1 THEN [v EXCEPT !.dir = 2]
                                  ELSE [v EXCEPT !.dir = 1, !.step = step]
    OBVIOUS
  <2>4. Do(t, r)
    BY <1>4, <1>5, <2>1, <2>2, <2>3 DEF NextDir
  <2>5. v.step = w.step /\ DOMAIN v = DOMAIN w /\ "step" \in DOMAIN w
    BY <1>4, <2>2 DEF WorkType
  <2>6. r.step \in {w.step, step}
    BY <2>3, <2>5
  <2> QED  BY <1>3, <2>4, <2>6
<1>6. CASE Measure(t)
  <2>1. PICK i, used : Finish(t) \/ Do(t, [w EXCEPT !.step = "copy", !.slot = i, !.used = used])
    BY <1>4, <1>6, Zenon DEF Measure, Fail
  <2>2. ASSUME Do(t, [w EXCEPT !.step = "copy", !.slot = i, !.used = used])
        PROVE  work'[t].step = "copy"
    BY <1>3, <1>4, <2>2 DEF WorkType
  <2> QED  BY <1>2, <1>4, <1>6, <2>1, <2>2 DEF Measure, At, Steps
<1>7. CASE Copy(t)
  <2>1. PICK size : Do(t, [w EXCEPT !.step = "publish", !.size = size])
    BY <1>4, <1>7, Zenon DEF Copy
  <2>2. work'[t].step = "publish"
    BY <1>3, <1>4, <2>1 DEF WorkType
  <2> QED  BY <1>4, <1>7, <2>2 DEF Copy, At, Steps
<1>8. CASE Read(t)
  <2>1. PICK n, tree : NextDir(t, [w EXCEPT !.revisions[n] = tree], "seal")
    BY <1>4, <1>8, Zenon DEF Read
  <2>2. work'[t].step \in {w.step, "seal"}
    BY <1>5, <2>1
  <2> QED  BY <1>4, <1>8, <2>2 DEF Read, At, Steps
<1>9. CASE Stage(t)
  <2>1. PICK n, tree : NextDir(t, [w EXCEPT !.revisions[n] = tree], "move")
    BY <1>4, <1>9, Zenon DEF Stage
  <2>2. work'[t].step \in {w.step, "move"}
    BY <1>5, <2>1
  <2> QED  BY <1>4, <1>9, <2>2 DEF Stage, At, Steps
<1>10. CASE Publish(t) \/ Seal(t) \/ Discarded(t)
  BY <1>2, <1>10 DEF Publish, Seal, Discarded, At, Steps
<1>11. CASE Move(t)
  <2>1. PICK B, M : Do(t, [w EXCEPT !.step = "install", !.backups = B, !.moved = M])
    BY <1>4, <1>11 DEF Move
  <2>2. work'[t].step = "install"
    BY <1>3, <1>4, <2>1 DEF WorkType
  <2> QED  BY <1>4, <1>11, <2>2 DEF Move, At, Steps
<1>12. CASE Install(t)
  <2>1. CASE w.dir = 1
    <3>1. PICK R, I : Do(t, [w EXCEPT !.step = "move", !.dir = 2, !.revisions = R,
                                      !.installed = I])
      BY <1>4, <1>12, <2>1 DEF Install
    <3>2. work'[t].step = "move"
      BY <1>3, <1>4, <3>1 DEF WorkType
    <3> QED  BY <1>4, <1>12, <3>2 DEF Install, At, Steps
  <2>2. CASE w.dir # 1
    BY <1>2, <1>4, <1>12, <2>2 DEF Install, At, Steps
  <2> QED  BY <2>1, <2>2
<1>13. CASE Remove(t)
  <2>1. work'[t].step = "recover"
    BY <1>3, <1>4, <1>13 DEF Remove, WorkType
  <2> QED  BY <1>4, <1>13, <2>1 DEF Remove, At, Steps
<1>14. CASE Recover(t)
  <2>1. CASE w.dir = 2
    <3>1. PICK B, M : Do(t, [w EXCEPT !.step = "remove", !.dir = 1, !.backups = B, !.moved = M])
      BY <1>4, <1>14, <2>1 DEF Recover
    <3>2. work'[t].step = "remove"
      BY <1>3, <1>4, <3>1 DEF WorkType
    <3> QED  BY <1>4, <1>14, <3>2 DEF Recover, At, Steps
  <2>2. CASE w.dir # 2
    BY <1>2, <1>4, <1>14, <2>2 DEF Recover, At, Steps
  <2> QED  BY <2>1, <2>2
<1>15. CASE DiscardPart(t)
  BY <1>15 DEF DiscardPart, At, Steps
<1>16. CASE IoError(t)
  <2>1. CASE w.step \in {"move", "install"}
    <3>1. PICK e : Do(t, [w EXCEPT !.step = "remove", !.dir = 2, !.errors = e])
      BY <1>4, <1>16, <2>1 DEF IoError
    <3>2. work'[t].step = "remove"
      BY <1>3, <1>4, <3>1 DEF WorkType
    <3> QED  BY <1>4, <2>1, <3>2 DEF Steps
  <2>2. CASE w.step \notin {"move", "install"}
    BY <1>2, <1>4, <1>16, <2>2 DEF IoError
  <2> QED  BY <2>1, <2>2
<1> QED  BY <1>6, <1>7, <1>8, <1>9, <1>10, <1>11, <1>12, <1>13, <1>14, <1>15, <1>16 DEF Thread

LEMMA DeletionStaysLast == IInv /\ DeletionIsLast /\ [Next]_vars => DeletionIsLast'
<1> SUFFICES ASSUME IInv, DeletionIsLast, [Next]_vars PROVE DeletionIsLast'
  OBVIOUS
<1> USE DEF DeletionIsLast
<1>1. ASSUME NEW t \in Tasks, Call(t) \/ Cancel(t) PROVE DeletionIsLast'
  BY <1>1 DEF Call, Cancel
<1>2. ASSUME NEW t \in Tasks, Acquire(t) PROVE DeletionIsLast'
  <2>1. PICK r \in WorkType :
               /\ Do(t, r)
               /\ deleting' = IF r.step = "discard" THEN TRUE ELSE deleting
               /\ r.step # "discard" => ~deleting
    BY <1>2, StartRecord DEF Acquire
  <2>2. \A u \in Tasks : work[u].step = "none"
    BY <1>2, TaskAssumption DEF Acquire, IInv, WaiterHasLock, Works
  <2>3. work'[t] = r /\ \A u \in Tasks \ {t} : work'[u].step = "none"
    BY <2>1, <2>2 DEF IInv, TypeOK, Do
  <2> QED  BY <2>1, <2>3 DEF Steps
<1>3. ASSUME NEW t \in Tasks, Return(t) PROVE DeletionIsLast'
  BY <1>3, IdleFacts DEF Return, Do, IInv, TypeOK, Steps
<1>4. ASSUME NEW t \in Tasks, Thread(t) PROVE DeletionIsLast'
  <2>1. /\ UNCHANGED deleting
        /\ work' = work \/ \E r : work' = [work EXCEPT ![t] = r]
    BY <1>4, ThreadIsAlone DEF loop
  <2>2. \A u \in Tasks \ {t} : work'[u] = work[u]
    BY <2>1 DEF IInv, TypeOK
  <2> QED  BY <1>4, <2>1, <2>2, SameErrand DEF Steps
<1>5. CASE UNCHANGED vars
  BY <1>5 DEF vars
<1> QED  BY <1>1, <1>2, <1>3, <1>4, <1>5 DEF Next

-----------------------------------------------------------------------------
(* SandboxSwap implements SandboxStore.  The store sees the trees that      *)
(* count; a step of the thread that works is one of the store's, or it      *)
(* leaves what counts as it is.                                             *)

CountedIn(W, d, n) ==
    LET swapping == {t \in Tasks : n \in W[t].moved}
    IN Contents(IF swapping = {} THEN d[n]
                ELSE W[CHOOSE t \in swapping : TRUE].backups[n])

\* What counts under the record w, where the disk has the tree.
Now(w, tree, n) == Contents(IF n \in w.moved THEN w.backups[n] ELSE tree)

LEMMA CountedWhileSwapping ==
    ASSUME NEW W, NEW d, NEW n, NEW t \in Tasks, \A u \in Tasks \ {t} : W[u].moved = {}
    PROVE  CountedIn(W, d, n) = Now(W[t], d[n], n)
<1>1. PICK S : S = {u \in Tasks : n \in W[u].moved}
  OBVIOUS
<1>2. CASE n \in W[t].moved
  <2>1. S = {t}
    BY <1>1, <1>2
  <2>2. (CHOOSE u \in S : TRUE) = t
    BY <2>1
  <2> QED  BY <1>1, <1>2, <2>1, <2>2 DEF CountedIn, Now
<1>3. CASE n \notin W[t].moved
  <2>1. S = {}
    BY <1>1, <1>3
  <2> QED  BY <1>1, <1>3, <2>1 DEF CountedIn, Now
<1> QED  BY <1>2, <1>3

LEMMA CountedAtRest ==
    ASSUME NEW W, NEW d, NEW n, \A u \in Tasks : W[u].moved = {}
    PROVE  CountedIn(W, d, n) = Contents(d[n])
<1>1. {u \in Tasks : n \in W[u].moved} = {}
  OBVIOUS
<1> QED  BY <1>1 DEF CountedIn

LEMMA CountedAgain ==
    /\ \A n : Counted(n) = CountedIn(work, disk, n)
    /\ Counted("files")' = CountedIn(work', disk', "files")
    /\ Counted("artifacts")' = CountedIn(work', disk', "artifacts")
BY DEF Counted, CountedIn

\* What counts before and after a step of a thread.
LEMMA ThreadCounts ==
    ASSUME IInv, NEW t \in Tasks, Thread(t)
    PROVE  /\ \A n : Counted(n) = Now(work[t], disk[n], n)
           /\ Counted("files")' = Now(work'[t], disk'["files"], "files")
           /\ Counted("artifacts")' = Now(work'[t], disk'["artifacts"], "artifacts")
<1>1. \A u \in Tasks \ {t} : work[u] = Idle
  BY ThreadIsAlone, OneWorks
<1>2. \A u \in Tasks \ {t} : work'[u] = Idle
  BY <1>1, ThreadIsAlone DEF IInv, TypeOK
<1>3. Idle.moved = {}
  BY DEF Idle
<1>4. \A n : CountedIn(work, disk, n) = Now(work[t], disk[n], n)
  BY <1>1, <1>3, CountedWhileSwapping
<1>5. PICK W, d : W = work' /\ d = disk'
  OBVIOUS
<1>6. \A n : CountedIn(W, d, n) = Now(W[t], d[n], n)
  BY <1>2, <1>3, <1>5, CountedWhileSwapping
<1> QED  BY <1>4, <1>5, <1>6, CountedAgain

Unseen == UNCHANGED <<Counted("files"), Counted("artifacts"), snapshots, deleting>>

\* A thread that has swapped nothing, and swaps nothing.
LEMMA PlainStep ==
    ASSUME IInv, NEW t \in Tasks, Thread(t), NotSwapping(work[t]), work'[t].moved = {}
    PROVE  /\ \A n : Counted(n) = Contents(disk[n])
           /\ Counted("files")' = Contents(disk'["files"])
           /\ Counted("artifacts")' = Contents(disk'["artifacts"])
BY ThreadCounts DEF Now, NotSwapping

LEMMA FinishedRecord ==
    ASSUME IInv, NEW t \in Tasks, Finish(t)
    PROVE  work'[t] = Done /\ work'[t].moved = {}
<1>1. work'[t] = Done
  BY DEF Finish, Do, Done, IInv, TypeOK
<1> QED  BY <1>1, IdleFacts DEF NotSwapping

\* Away from the swap, nothing is moved.
LEMMA PlainRecord ==
    ASSUME IInv, NEW t \in Tasks, Works(t),
           work[t].step \notin {"move", "install", "remove", "recover"}
    PROVE  NotSwapping(work[t])
BY OneWorks DEF Own, Swapped

LEMMA StoreTotal ==
    ASSUME NEW tree \in Trees
    PROVE  Store!Total(tree) = Total(tree)
<1>1. Contents(tree) = tree
  BY ContentsFacts
<1>2. Total(tree) = Sum(tree, DOMAIN tree)
  BY <1>1, TotalIsSum
<1>3. Store!Total(tree) = Sum(tree, DOMAIN tree)
  BY DEF Store!Total, Sum, Sums, SumStep, Store!FoldFunction, Store!FoldFunctionOnSet,
         Store!MapThenFoldSet
<1> QED  BY <1>2, <1>3

\* A file is added to what counts, or the upload was given up.
LEMMA PublishIsUpload ==
    ASSUME IInv, DeletionIsLast, NEW t \in Tasks, Publish(t)
    PROVE  Unseen \/ \E size \in 1 .. MaxFile : Store!Upload(size)
<1>1. /\ At(t, "publish") /\ Works(t) /\ Thread(t) /\ Finish(t) /\ snapshots' = snapshots
      /\ ~deleting /\ UNCHANGED deleting
  BY DEF Publish, At, Works, Thread, DeletionIsLast, Steps, loop
<1>2. NotSwapping(work[t]) /\ work'[t].moved = {}
  BY <1>1, PlainRecord, FinishedRecord DEF At
<1>3. /\ \A n : Counted(n) = Contents(disk[n])
      /\ Counted("files")' = Contents(disk'["files"])
      /\ Counted("artifacts")' = Contents(disk'["artifacts"])
  BY <1>1, <1>2, PlainStep
<1>4. CASE UNCHANGED disk
  BY <1>1, <1>3, <1>4 DEF Unseen
<1>5. CASE ~UNCHANGED disk
  <2>1. work[t].used \in Nat /\ work[t].size \in Nat
    BY <1>1, OneWorks DEF WorkType
  <2>2. /\ work[t].size <= MaxFile /\ work[t].used + work[t].size <= MaxChat
        /\ disk' = [disk EXCEPT !["files"][work[t].slot] = work[t].size]
    BY <1>5, <2>1, LimitAssumption DEF Publish
  <2>3. PICK tree, i, size, new :
           /\ tree = disk["files"] /\ i = work[t].slot /\ size = work[t].size
           /\ new = [tree EXCEPT ![i] = size]
    OBVIOUS
  <2>4. /\ tree \in Trees /\ i \in Slots /\ size \in Sizes /\ FreeSlot(i)
        /\ work[t].used = Total(tree) /\ new \in Trees
    BY <1>1, <2>2, <2>3, PublishedFits
  <2>5. disk \in Places /\ disk' = [disk EXCEPT !["files"] = new]
    BY <1>1, <2>2, <2>3, OneWorks
  <2>6. disk'["files"] = new /\ disk'["artifacts"] = disk["artifacts"]
    BY <2>4, <2>5, DiskChange DEF Names
  <2>7. Counted("files") = tree /\ Counted("files")' = new
    BY <1>3, <2>3, <2>4, <2>6, ContentsFacts
  <2>8. Counted("artifacts")' = Counted("artifacts")
    BY <1>3, <2>6
  <2>9. Store!Total(tree) = Total(tree)
    BY <2>4, StoreTotal
  <2>10. tree[i] = 0 /\ \A j \in Slots : j < i => tree[j] # 0
    BY <2>3, <2>4, ContentsFacts DEF FreeSlot
  <2>11. size \in 1 .. MaxFile /\ Total(tree) + size <= MaxChat
    BY <2>2, <2>3, <2>4, LimitAssumption
  <2>12. Store!Upload(size)
    BY <1>1, <2>3, <2>4, <2>7, <2>8, <2>9, <2>10, <2>11 DEF Store!Upload
  <2> QED  BY <2>11, <2>12
<1> QED  BY <1>4, <1>5

LEMMA SealIsSnapshot ==
    ASSUME IInv, DeletionIsLast, NEW t \in Tasks, Seal(t)
    PROVE  Store!TakeSnapshot
<1>1. /\ At(t, "seal") /\ Works(t) /\ Thread(t) /\ Finish(t) /\ disk' = disk
      /\ ~deleting /\ UNCHANGED deleting
  BY DEF Seal, At, Works, Thread, DeletionIsLast, Steps, loop
<1>2. NotSwapping(work[t]) /\ work'[t].moved = {}
  BY <1>1, PlainRecord, FinishedRecord DEF At
<1>3. /\ \A n : Counted(n) = Contents(disk[n])
      /\ Counted("files")' = Contents(disk'["files"])
      /\ Counted("artifacts")' = Contents(disk'["artifacts"])
  BY <1>1, <1>2, PlainStep
<1>4. snapshots' = snapshots \cup
          {[version |-> 2, files |-> Counted("files"), artifacts |-> Counted("artifacts")]}
  BY <1>3, SealedSnapshot
<1>5. /\ Counted("files")' = Counted("files")
      /\ Counted("artifacts")' = Counted("artifacts")
  BY <1>1, <1>3
<1> QED  BY <1>1, <1>4, <1>5 DEF Store!TakeSnapshot

\* With the second tree the restoration has happened.
LEMMA InstallIsRestore ==
    ASSUME IInv, DeletionIsLast, NEW t \in Tasks, Install(t)
    PROVE  Unseen \/ \E s \in snapshots : Store!Restore(s)
<1>1. /\ At(t, "install") /\ Works(t) /\ Thread(t) /\ snapshots' = snapshots
      /\ ~deleting /\ UNCHANGED deleting
  BY DEF Install, At, Works, Thread, DeletionIsLast, Steps, loop
<1>2. /\ work[t] \in WorkType /\ disk \in Places
  BY <1>1, OneWorks
<1>3. PICK w, source : w = work[t] /\ source = work[t].source
  OBVIOUS
<1>4. /\ source \in Sources /\ w.dir \in {1, 2} /\ w \in WorkType
      /\ w.revisions["artifacts"] = source["artifacts"]
      /\ w.dir = 1 => w.revisions["files"] = source["files"] /\ w.moved = {"files"}
      /\ w.dir = 2 => disk["files"] = source["files"] /\ w.moved = {"files", "artifacts"}
      /\ source["files"] \in Trees /\ source["artifacts"] \in Trees
  BY <1>1, <1>2, <1>3, InstalledTrees
<1>5. CASE w.dir = 1
  <2>1. disk' = [disk EXCEPT !["files"] = source["files"]]
    BY <1>3, <1>4, <1>5, DirNames DEF Install
  <2>2. disk'["artifacts"] = disk["artifacts"]
    BY <1>2, <1>4, <2>1, DiskChange DEF Names
  <2>3. work'[t].moved = w.moved /\ work'[t].backups = w.backups
    <3>1. PICK r : r = [w EXCEPT !.step = "move", !.dir = 2,
                          !.revisions["files"] = Gone, !.installed = {"files"}]
      OBVIOUS
    <3>2. Do(t, r)
      BY <1>3, <1>5, <3>1, DirNames DEF Install
    <3>3. r.moved = w.moved /\ r.backups = w.backups
      BY <1>4, <3>1 DEF WorkType
    <3> QED  BY <3>2, <3>3, NewRecord
  <2> QED  BY <1>1, <1>3, <1>4, <1>5, <2>2, <2>3, ThreadCounts DEF Unseen, Now
<1>6. CASE w.dir = 2
  <2>1. Finish(t) /\ disk' = [disk EXCEPT !["artifacts"] = source["artifacts"]]
    BY <1>3, <1>4, <1>6, DirNames DEF Install
  <2>2. disk'["files"] = source["files"] /\ disk'["artifacts"] = source["artifacts"]
    BY <1>2, <1>4, <1>6, <2>1, DiskChange DEF Names
  <2>3. work'[t].moved = {}
    BY <2>1, FinishedRecord
  <2>4. /\ Counted("files")' = Contents(source["files"])
        /\ Counted("artifacts")' = Contents(source["artifacts"])
    BY <1>1, <2>2, <2>3, ThreadCounts DEF Now
  <2>5. /\ Counted("files")' = source["files"]
        /\ Counted("artifacts")' = source["artifacts"]
    BY <1>4, <2>4, ContentsFacts
  <2>6. PICK s \in snapshots :
               /\ source["files"] = s.files
               /\ source["artifacts"] = IF s.version = 2 THEN s.artifacts ELSE Nothing
    BY <1>4, SourceFacts
  <2>7. Store!Nothing = Nothing
    BY DEF Store!Nothing, Nothing
  <2>8. Store!Restore(s)
    BY <1>1, <2>5, <2>6, <2>7 DEF Store!Restore
  <2> QED  BY <2>6, <2>8
<1> QED  BY <1>4, <1>5, <1>6

\* A deletion removes one part after the other.
LEMMA PartIsDiscarded ==
    ASSUME IInv, DeletionIsLast, NEW t \in Tasks, DiscardPart(t)
    PROVE  Store!Discard
<1>1. At(t, "discard") /\ Works(t) /\ Thread(t) /\ work' = work
  BY DEF DiscardPart, At, Works, Thread
<1>2. NotSwapping(work[t]) /\ work'[t].moved = {} /\ deleting' = TRUE
  BY <1>1, PlainRecord DEF At, NotSwapping, DeletionIsLast, DiscardPart, loop
<1>3. /\ \A n : Counted(n) = Contents(disk[n])
      /\ Counted("files")' = Contents(disk'["files"])
      /\ Counted("artifacts")' = Contents(disk'["artifacts"])
  BY <1>1, <1>2, PlainStep
<1>4. disk \in Places /\ snapshots \subseteq Snapshot
  BY <1>1, OneWorks
<1> DEFINE Same(tree) == Store!IsPart(tree, tree)
<1>5. \A tree : Same(tree)
  BY DEF Store!IsPart
<1>6. ASSUME NEW n \in Names, NEW left, disk' = [disk EXCEPT ![n] = left],
             left = Gone \/ (left \in Smaller(disk[n]) /\ disk[n] # Gone),
             snapshots' = snapshots
      PROVE  Store!Discard
  <2>1. disk[n] \in Trees \cup {Gone}
    BY <1>4 DEF Places
  <2>2. left \in Trees \cup {Gone} /\ Store!IsPart(Contents(left), Contents(disk[n]))
    <3>1. CASE left = Gone
      BY <3>1 DEF Contents, Nothing, Store!IsPart
    <3>2. CASE left \in Smaller(disk[n]) /\ disk[n] # Gone
      <4>1. disk[n] \in Trees /\ left \in Trees /\ Store!IsPart(left, disk[n])
        BY <2>1, <3>2, SmallerFits DEF Store!IsPart
      <4> QED  BY <4>1, ContentsFacts
    <3> QED  BY <1>6, <3>1, <3>2
  <2>3. disk'[n] = left /\ \A m \in Names \ {n} : disk'[m] = disk[m]
    BY <1>4, <1>6, <2>2, DiskChange
  <2>4. ASSUME NEW m \in Names PROVE Store!IsPart(Contents(disk'[m]), Contents(disk[m]))
    BY <1>5, <2>2, <2>3
  <2>5. /\ Store!IsPart(Counted("files")', Counted("files"))
        /\ Store!IsPart(Counted("artifacts")', Counted("artifacts"))
    BY <1>3, <2>4 DEF Names
  <2>6. \A s \in snapshots : s.version <= s.version
    BY <1>4 DEF Snapshot
  <2> QED  BY <1>2, <1>5, <1>6, <2>5, <2>6 DEF Store!Discard
<1>7. ASSUME NEW s \in snapshots, disk' = disk, snapshots' \subseteq snapshots \cup LessOf(s)
      PROVE  Store!Discard
  <2>1. /\ Store!IsPart(Counted("files")', Counted("files"))
        /\ Store!IsPart(Counted("artifacts")', Counted("artifacts"))
    BY <1>3, <1>5, <1>7
  <2>2. ASSUME NEW left \in snapshots'
        PROVE  \E v \in snapshots :
                 /\ Store!IsPart(left.files, v.files)
                 /\ Store!IsPart(left.artifacts, v.artifacts)
                 /\ left.version <= v.version
    <3>1. CASE left \in snapshots
      <4>1. left.version <= left.version
        BY <1>4, <3>1 DEF Snapshot
      <4> QED  BY <1>5, <3>1, <4>1
    <3>2. CASE left \in LessOf(s)
      BY <1>4, <3>2, LessFits
    <3> QED  BY <1>7, <3>1, <3>2
  <2> QED  BY <1>2, <2>1, <2>2 DEF Store!Discard
<1>8. CASE \E n \in Names :
             /\ disk[n] # Gone
             /\ \E left \in IF disk[n] = Nothing THEN {Gone} ELSE Smaller(disk[n]) :
                  disk' = [disk EXCEPT ![n] = left]
             /\ UNCHANGED snapshots
  BY <1>6, <1>8
<1>9. CASE \E s \in snapshots :
             /\ \/ \E less \in LessOf(s) : snapshots' = (snapshots \ {s}) \cup {less}
                \/ LessOf(s) = {} /\ snapshots' = snapshots \ {s}
             /\ UNCHANGED disk
  BY <1>7, <1>9
<1> QED  BY <1>8, <1>9 DEF DiscardPart

\* An upload that goes on, and whatever ends without having swapped anything.
LEMMA MeasureIsUnseen ==
    ASSUME IInv, NEW t \in Tasks, Measure(t)
    PROVE  Unseen
<1>1. At(t, "measure") /\ Works(t) /\ Thread(t)
  <2>1. At(t, "measure") /\ Works(t)
    BY DEF Measure, At, Works
  <2> QED  BY <2>1 DEF Thread
<1>2. NotSwapping(work[t]) /\ work[t] \in WorkType /\ disk \in Places
      /\ disk["files"] \in Trees \cup {Gone}
  BY <1>1, PlainRecord, OneWorks DEF At
<1>3. PICK size \in Sizes, i \in Slots :
         /\ FreeSlot(i)
         /\ IF size > MaxFile
            THEN Fail(t)
            ELSE /\ disk' = [disk EXCEPT !["files"] = Contents(@)]
                 /\ IF Total(disk["files"]) + size > MaxChat
                    THEN Finish(t)
                    ELSE Do(t, [work[t] EXCEPT !.step = "copy", !.slot = i,
                                  !.used = Total(disk["files"])])
                 /\ UNCHANGED snapshots
  BY Zenon DEF Measure
<1>4. work'[t].moved = {}
  <2>1. CASE Finish(t)
    BY <2>1, FinishedRecord
  <2>2. CASE ~Finish(t)
    <3>1. PICK r : r = [work[t] EXCEPT !.step = "copy", !.slot = i,
                                       !.used = Total(disk["files"])]
      OBVIOUS
    <3>2. Do(t, r)
      BY <1>3, <2>2, <3>1 DEF Fail
    <3>3. r.moved = {}
      BY <1>2, <3>1 DEF WorkType, NotSwapping
    <3> QED  BY <3>2, <3>3, NewRecord
  <2> QED  BY <2>1, <2>2
<1>5. snapshots' = snapshots /\ (disk' = disk \/ disk' = [disk EXCEPT !["files"] = Contents(@)])
  BY <1>3 DEF Fail
<1>6. PICK tree : tree = Contents(disk["files"])
  OBVIOUS
<1>7. tree \in Trees /\ Contents(tree) = tree
  BY <1>2, <1>6, ContentsFacts
<1>8. /\ Contents(disk'["files"]) = Contents(disk["files"])
      /\ Contents(disk'["artifacts"]) = Contents(disk["artifacts"])
  <2>1. CASE disk' = disk
    BY <2>1
  <2>2. CASE disk' = [disk EXCEPT !["files"] = tree]
    <3>1. disk'["files"] = tree /\ disk'["artifacts"] = disk["artifacts"]
      BY <1>2, <1>7, <2>2, DiskChange DEF Names
    <3> QED  BY <1>6, <1>7, <3>1
  <2> QED  BY <1>5, <1>6, <2>1, <2>2
<1>9. /\ Counted("files")' = Counted("files")
      /\ Counted("artifacts")' = Counted("artifacts")
  BY <1>1, <1>2, <1>4, <1>8, PlainStep
<1> QED  BY <1>1, <1>5, <1>9, ThreadIsAlone DEF Unseen, loop

LEMMA QuietIsUnseen ==
    ASSUME IInv, NEW t \in Tasks, Thread(t), UNCHANGED <<disk, snapshots>>,
           \/ work'[t].moved = work[t].moved /\ work'[t].backups = work[t].backups
           \/ NotSwapping(work[t]) /\ work'[t].moved = {}
    PROVE  Unseen
<1>1. /\ Counted("files")' = Counted("files")
      /\ Counted("artifacts")' = Counted("artifacts")
  BY ThreadCounts DEF Now, NotSwapping
<1> QED  BY <1>1, ThreadIsAlone DEF Unseen, loop

\* The loops that read and stage.
LEMMA LoopIsUnseen ==
    ASSUME IInv, NEW t \in Tasks, Read(t) \/ Stage(t)
    PROVE  Unseen
<1>1. Works(t) /\ Thread(t) /\ UNCHANGED <<disk, snapshots>>
  BY DEF Read, Stage, At, Works, Thread
<1>2. PICK n, tree, step :
         NextDir(t, [work[t] EXCEPT !.revisions[n] = tree], step)
  BY Zenon DEF Read, Stage
<1>3. PICK w : w = [work[t] EXCEPT !.revisions[n] = tree]
  OBVIOUS
<1>4. PICK r : r = IF work[t].dir = 1 THEN [w EXCEPT !.dir = 2]
                                      ELSE [w EXCEPT !.dir = 1, !.step = step]
  OBVIOUS
<1>5. Do(t, r)
  BY <1>2, <1>3, <1>4 DEF NextDir
<1>6. work[t] \in WorkType
  BY <1>1, OneWorks
<1>7. w.moved = work[t].moved /\ w.backups = work[t].backups
  BY <1>3, <1>6 DEF WorkType
<1>8. r.moved = w.moved /\ r.backups = w.backups
  <2>1. w = [k \in DOMAIN work[t] |-> w[k]] /\ DOMAIN w = DOMAIN work[t]
    BY <1>3
  <2>2. "moved" \in DOMAIN w /\ "backups" \in DOMAIN w
    BY <1>6, <2>1 DEF WorkType
  <2> QED  BY <1>4, <2>1, <2>2
<1> QED  BY <1>1, <1>5, <1>7, <1>8, NewRecord, QuietIsUnseen

\* A tree that is moved away still counts, in the backups.
LEMMA MoveIsUnseen ==
    ASSUME IInv, NEW t \in Tasks, Move(t)
    PROVE  Unseen
<1>1. /\ At(t, "move") /\ Works(t) /\ Thread(t) /\ snapshots' = snapshots
  BY DEF Move, At, Works, Thread
<1>2. work[t] \in WorkType /\ Own(t) /\ disk \in Places
  BY <1>1, OneWorks
<1>3. PICK n, w : n = Dirs[work[t].dir] /\ w = work[t]
  OBVIOUS
<1>4. n \in Names /\ n \notin w.moved /\ w \in WorkType
  <2>1. w.dir \in {1, 2} /\ w.moved = IF w.dir = 1 THEN {} ELSE {"files"}
    BY <1>1, <1>2, <1>3 DEF Own, Staged, At, WorkType
  <2> QED  BY <1>2, <1>3, <2>1, DirNames
<1>5. PICK B, M : B = [w.backups EXCEPT ![n] = disk[n]] /\ M = w.moved \cup {n}
  OBVIOUS
<1>6. B[n] = disk[n] /\ \A m \in Names \ {n} : B[m] = w.backups[m]
  BY <1>4, <1>5 DEF WorkType, Places
<1>7. PICK r : r = [w EXCEPT !.step = "install", !.backups = B, !.moved = M]
  OBVIOUS
<1>8. Do(t, r) /\ disk' = [disk EXCEPT ![n] = Gone]
  BY <1>3, <1>5, <1>7 DEF Move
<1>9. work'[t] = r /\ r.backups = B /\ r.moved = M
  BY <1>4, <1>7, <1>8, NewRecord DEF WorkType
<1>10. \A m \in Names \ {n} : disk'[m] = disk[m]
  BY <1>2, <1>4, <1>8, DiskChange
<1>11. ASSUME NEW m \in Names PROVE Now(work'[t], disk'[m], m) = Now(w, disk[m], m)
  <2>1. CASE m = n
    BY <1>4, <1>5, <1>6, <1>9, <2>1 DEF Now
  <2>2. CASE m # n
    BY <1>5, <1>6, <1>9, <1>10, <2>2 DEF Now
  <2> QED  BY <2>1, <2>2
<1> QED  BY <1>1, <1>3, <1>11, ThreadCounts, ThreadIsAlone DEF Unseen, Names, loop

\* What is removed had not counted yet ...
LEMMA RemoveIsUnseen ==
    ASSUME IInv, NEW t \in Tasks, Remove(t)
    PROVE  Unseen
<1>1. /\ At(t, "remove") /\ Works(t) /\ Thread(t) /\ snapshots' = snapshots
  BY DEF Remove, At, Works, Thread
<1>2. work[t] \in WorkType /\ Own(t) /\ disk \in Places
  BY <1>1, OneWorks
<1>3. PICK n, w : n = Dirs[work[t].dir] /\ w = work[t]
  OBVIOUS
<1>4. w \in WorkType /\ w.installed \subseteq w.moved /\ w.moved \subseteq Names
  BY <1>1, <1>2, <1>3 DEF Own, Swapped, At, WorkType
<1>5. PICK r : r = [w EXCEPT !.step = "recover"]
  OBVIOUS
<1>6. /\ Do(t, r)
      /\ disk' = IF n \in w.installed THEN [disk EXCEPT ![n] = Gone] ELSE disk
  BY <1>3, <1>5 DEF Remove
<1>7. work'[t] = r /\ r.moved = w.moved /\ r.backups = w.backups
  BY <1>4, <1>5, <1>6, NewRecord DEF WorkType
<1>8. \A m \in Names : m \in w.installed \/ disk'[m] = disk[m]
  <2>1. CASE n \in w.installed
    <3>1. disk' = [disk EXCEPT ![n] = Gone] /\ n \in Names
      BY <1>4, <1>6, <2>1
    <3>2. \A m \in Names \ {n} : disk'[m] = disk[m]
      BY <1>2, <3>1, DiskChange
    <3> QED  BY <2>1, <3>2
  <2>2. CASE n \notin w.installed
    BY <1>6, <2>2
  <2> QED  BY <2>1, <2>2
<1>9. ASSUME NEW m \in Names PROVE Now(work'[t], disk'[m], m) = Now(w, disk[m], m)
  BY <1>4, <1>7, <1>8 DEF Now
<1> QED  BY <1>1, <1>3, <1>9, ThreadCounts, ThreadIsAlone DEF Unseen, Names, loop

\* ... and what is put back is what counted all along.
LEMMA RecoverIsUnseen ==
    ASSUME IInv, NEW t \in Tasks, Recover(t)
    PROVE  Unseen
<1>1. /\ At(t, "recover") /\ Works(t) /\ Thread(t) /\ snapshots' = snapshots
  BY DEF Recover, At, Works, Thread
<1>2. work[t] \in WorkType /\ Own(t) /\ disk \in Places
  BY <1>1, OneWorks
<1>3. PICK n, w, tree : n = Dirs[work[t].dir] /\ w = work[t] /\ tree = work[t].backups[n]
  OBVIOUS
<1>4. /\ n \in Names /\ w \in WorkType /\ w.dir \in {1, 2} /\ (n = "files" <=> w.dir = 1)
      /\ tree \in Trees \cup {Gone}
  <2>1. w.dir \in {1, 2} /\ w \in WorkType
    BY <1>2, <1>3 DEF WorkType
  <2>2. n \in Names /\ (n = "files" <=> w.dir = 1)
    BY <1>3, <2>1, DirNames
  <2>3. w.backups \in Places
    BY <2>1 DEF WorkType
  <2> QED  BY <1>3, <2>1, <2>2, <2>3 DEF Places
<1>5. /\ n \in w.moved => disk[n] = Gone
      /\ n \notin w.moved => tree = Gone
      /\ w.dir = 1 => "artifacts" \notin w.moved
  BY <1>1, <1>2, <1>3, <1>4 DEF Own, Swapped, At
<1>6. disk' = IF tree # Gone THEN [disk EXCEPT ![n] = tree] ELSE disk
  BY <1>3 DEF Recover
<1>7. \A m \in Names : disk'[m] = IF m = n /\ tree # Gone THEN tree ELSE disk[m]
  <2>1. CASE tree # Gone
    <3>1. disk' = [disk EXCEPT ![n] = tree]
      BY <1>6, <2>1
    <3>2. disk'[n] = tree /\ \A m \in Names \ {n} : disk'[m] = disk[m]
      BY <1>2, <1>4, <3>1, DiskChange
    <3> QED  BY <2>1, <3>2
  <2>2. CASE tree = Gone
    BY <1>6, <2>2
  <2> QED  BY <2>1, <2>2
<1>8. Contents(disk'[n]) = Now(w, disk[n], n)
  BY <1>3, <1>4, <1>5, <1>7 DEF Now
<1>9. /\ n \notin work'[t].moved
      /\ \A m \in Names \ {n} : Now(work'[t], disk[m], m) = Now(w, disk[m], m)
  <2>1. CASE w.dir = 1
    <3>1. work'[t].moved = {}
      BY <1>3, <2>1, FinishedRecord DEF Recover
    <3>2. \A m \in Names \ {n} : m \notin w.moved
      BY <1>4, <1>5, <2>1 DEF Names
    <3> QED  BY <3>1, <3>2 DEF Now
  <2>2. CASE w.dir = 2
    <3>1. PICK B, M : B = [w.backups EXCEPT ![n] = Gone] /\ M = w.moved \ {n}
      OBVIOUS
    <3>2. \A m \in Names \ {n} : B[m] = w.backups[m]
      BY <1>4, <3>1 DEF WorkType, Places
    <3>3. PICK r : r = [w EXCEPT !.step = "remove", !.dir = 1, !.backups = B, !.moved = M]
      OBVIOUS
    <3>4. Do(t, r)
      BY <1>3, <2>2, <3>1, <3>3 DEF Recover
    <3>5. work'[t].moved = M /\ work'[t].backups = B
      BY <1>4, <3>3, <3>4, NewRecord DEF WorkType
    <3> QED  BY <3>1, <3>2, <3>5 DEF Now
  <2> QED  BY <1>4, <2>1, <2>2
<1>10. ASSUME NEW m \in Names PROVE Now(work'[t], disk'[m], m) = Now(w, disk[m], m)
  <2>1. CASE m = n
    BY <1>8, <1>9, <2>1 DEF Now
  <2>2. CASE m # n
    BY <1>7, <1>9, <2>2
  <2> QED  BY <2>1, <2>2
<1> QED  BY <1>1, <1>3, <1>10, ThreadCounts, ThreadIsAlone DEF Unseen, Names, loop

\* A first error begins the rollback; there is none in it.
LEMMA IoErrorIsUnseen ==
    ASSUME IInv, MaxErrors <= 1, NEW t \in Tasks, IoError(t)
    PROVE  Unseen
<1>1. Works(t) /\ Thread(t) /\ UNCHANGED <<disk, snapshots>> /\ work[t].errors < MaxErrors
  BY DEF IoError, Steps, Works, Thread
<1>2. work[t] \in WorkType /\ Own(t)
  BY <1>1, OneWorks
<1>3. CASE work[t].step \in {"move", "install"}
  <2>1. PICK w, e : w = work[t] /\ e = work[t].errors + 1
    OBVIOUS
  <2>2. PICK r : r = [w EXCEPT !.step = "remove", !.dir = 2, !.errors = e]
    OBVIOUS
  <2>3. Do(t, r)
    BY <1>3, <2>1, <2>2 DEF IoError
  <2>4. r.moved = w.moved /\ r.backups = w.backups
    BY <1>2, <2>1, <2>2 DEF WorkType
  <2> QED  BY <1>1, <2>1, <2>3, <2>4, NewRecord, QuietIsUnseen
<1>4. CASE work[t].step \in {"remove", "recover"}
  <2>1. work[t].errors > 0 /\ work[t].errors \in Nat
    BY <1>2, <1>4, LimitAssumption DEF Own, Swapped, WorkType
  <2> QED  BY <1>1, <2>1, LimitAssumption
<1>5. CASE work[t].step \notin {"move", "install", "remove", "recover"}
  <2>1. Finish(t)
    BY <1>5 DEF IoError
  <2> QED  BY <1>1, <1>5, <2>1, PlainRecord, FinishedRecord, QuietIsUnseen
<1> QED  BY <1>3, <1>4, <1>5

\* A thread's step is one of the store's.
LEMMA ThreadRefines ==
    ASSUME IInv, DeletionIsLast, MaxErrors <= 1, NEW t \in Tasks, Thread(t)
    PROVE  [Store!StoreNext]_(Store!store)
<1>1. Unseen => [Store!StoreNext]_(Store!store)
  BY DEF Unseen, Store!store
<1>2. CASE Copy(t)
  <2>1. At(t, "copy") /\ Works(t) /\ UNCHANGED <<disk, snapshots>>
    BY <1>2 DEF Copy, At, Works
  <2>2. PICK size : Do(t, [work[t] EXCEPT !.step = "publish", !.size = size])
    BY <1>2, Zenon DEF Copy
  <2>3. PICK r : r = [work[t] EXCEPT !.step = "publish", !.size = size]
    OBVIOUS
  <2>4. work[t] \in WorkType
    BY <2>1, OneWorks
  <2>5. r.moved = work[t].moved /\ r.backups = work[t].backups
    BY <2>3, <2>4 DEF WorkType
  <2>6. Unseen
    BY <2>1, <2>2, <2>3, <2>5, NewRecord, QuietIsUnseen
  <2> QED  BY <1>1, <2>6
<1>3. CASE Discarded(t)
  <2>1. /\ At(t, "discard") /\ Works(t) /\ UNCHANGED <<disk, snapshots>> /\ Finish(t)
    BY <1>3 DEF Discarded, At, Works
  <2>2. Unseen
    BY <2>1, PlainRecord, FinishedRecord, QuietIsUnseen DEF At
  <2> QED  BY <1>1, <2>2
<1>4. CASE Publish(t)
  BY <1>1, <1>4, PublishIsUpload DEF Store!StoreNext
<1>5. CASE Seal(t)
  BY <1>5, SealIsSnapshot DEF Store!StoreNext
<1>6. CASE Install(t)
  BY <1>1, <1>6, InstallIsRestore DEF Store!StoreNext
<1>7. CASE DiscardPart(t)
  BY <1>7, PartIsDiscarded DEF Store!StoreNext
<1> QED  BY <1>1, <1>2, <1>3, <1>4, <1>5, <1>6, <1>7, MeasureIsUnseen, LoopIsUnseen,
            MoveIsUnseen, RemoveIsUnseen, RecoverIsUnseen, IoErrorIsUnseen DEF Thread

\* On the event loop, nothing that counts changes but that a deletion begins.
LEMMA CallersAreUnseen ==
    ASSUME IInv, NEW t \in Tasks, Call(t) \/ Acquire(t) \/ Cancel(t) \/ Return(t)
    PROVE  /\ UNCHANGED <<Counted("files"), Counted("artifacts"), snapshots>>
           /\ deleting' \in {deleting, TRUE}
<1>1. CASE Call(t) \/ Cancel(t)
  <2>1. work' = work /\ disk' = disk /\ snapshots' = snapshots
    BY <1>1 DEF Call, Cancel
  <2> QED  BY <1>1, <2>1, CountedAgain DEF Call, Cancel
<1>2. CASE Acquire(t) \/ Return(t)
  <2>1. disk' = disk /\ snapshots' = snapshots
    BY <1>2 DEF Acquire, Return
  <2>2. \A u \in Tasks : work[u].moved = {} /\ work'[u].moved = {}
    <3>1. CASE Acquire(t)
      <4>1. PICK r \in WorkType : Do(t, r) /\ NotSwapping(r)
        BY <3>1, StartRecord DEF Acquire
      <4>2. \A u \in Tasks : work[u] = Idle
        <5>1. \A u \in Tasks : ~Works(u)
          BY <3>1, TaskAssumption DEF IInv, WaiterHasLock, Acquire
        <5> QED  BY <5>1 DEF IInv, Own, Works
      <4>3. work'[t] = r /\ \A u \in Tasks \ {t} : work'[u] = Idle
        BY <4>1, <4>2 DEF IInv, TypeOK, Do
      <4> QED  BY <4>1, <4>2, <4>3, IdleFacts DEF NotSwapping
    <3>2. CASE Return(t)
      <4>1. At(t, "done") /\ Works(t) /\ Do(t, Idle)
        BY <3>2 DEF Return, At, Works
      <4>2. NotSwapping(work[t]) /\ \A u \in Tasks \ {t} : work[u] = Idle
        BY <4>1, PlainRecord, OneWorks DEF At
      <4>3. \A u \in Tasks : work'[u] = Idle
        BY <4>1, <4>2 DEF IInv, TypeOK, Do
      <4> QED  BY <4>2, <4>3, IdleFacts DEF NotSwapping
    <3> QED  BY <1>2, <3>1, <3>2
  <2>3. \A n : CountedIn(work, disk, n) = Contents(disk[n])
    BY <2>2, CountedAtRest
  <2>4. PICK W : W = work'
    OBVIOUS
  <2>5. \A n : CountedIn(W, disk, n) = Contents(disk[n])
    BY <2>2, <2>4, CountedAtRest
  <2>6. deleting' \in {deleting, TRUE}
    BY <1>2 DEF Acquire, Start, Return
  <2> QED  BY <2>1, <2>3, <2>4, <2>5, <2>6, CountedAgain
<1> QED  BY <1>1, <1>2

LEMMA CallersRefine ==
    ASSUME IInv, NEW t \in Tasks, Call(t) \/ Acquire(t) \/ Cancel(t) \/ Return(t)
    PROVE  [Store!StoreNext]_(Store!store)
<1>1. CASE deleting' = deleting
  BY <1>1, CallersAreUnseen DEF Store!store
<1>2. CASE deleting' = TRUE
  <2>1. \A s \in snapshots : s.version <= s.version
    BY DEF IInv, TypeOK, Snapshot
  <2>2. Store!Discard
    BY <1>2, <2>1, CallersAreUnseen DEF Store!Discard, Store!IsPart
  <2> QED  BY <2>2 DEF Store!StoreNext
<1> QED  BY <1>1, <1>2, CallersAreUnseen

LEMMA StoreStarts == Init => Store!StoreInit
<1> SUFFICES ASSUME Init PROVE Store!StoreInit
  OBVIOUS
<1>1. \A t \in Tasks : work[t].moved = {}
  BY DEF Init, Idle
<1>2. \A n : Counted(n) = Contents(disk[n])
  BY <1>1, CountedAtRest, CountedAgain
<1>3. /\ disk["files"] = Gone /\ disk["artifacts"] \in {Gone, Old}
  BY DEF Init, Nowhere, Names
<1>4. Contents(Gone) = Nothing /\ Contents(Old) = Old /\ Store!Nothing = Nothing
  <2>1. Contents(Old) = Old
    BY TreeFacts, ContentsFacts
  <2> QED  BY <2>1 DEF Contents, Store!Nothing, Nothing
<1>5. Nothing \in [Slots -> 0 .. MaxChat]
  BY LimitAssumption DEF Nothing
<1>6. Old \in [Slots -> 0 .. MaxChat]
  <2>1. Total(Old) \in Nat
    BY TreeFacts, TotalOfTree
  <2>2. ASSUME NEW i \in Slots PROVE Old[i] \in 0 .. MaxChat
    <3>1. Old[i] <= Total(Old) /\ Old[i] \in Nat
      BY TreeFacts, PartOfTotal DEF Trees
    <3> QED  BY <2>1, <3>1, TreeAssumption, LimitAssumption
  <2> QED  BY <2>2, TreeFacts DEF Trees
<1>7. deleting = FALSE /\ \A s \in snapshots : s.version = 1
  BY DEF Init
<1> QED  BY <1>2, <1>3, <1>4, <1>5, <1>6, <1>7 DEF Store!StoreInit

\* SandboxFiles keeps what SandboxStore promises: a restoration takes effect
\* as a whole or not at all, an upload never takes the place of another, a
\* snapshot is what the Chat was at one time, and an error or a cancellation in
\* between leaves no trace; a deletion may stop anywhere, with any part left,
\* and nothing else is done after it.  A second error, in the rollback of the
\* first, is excluded: nothing is tried again there, and backups may be lost.
THEOREM StoreIsKept ==
    ASSUME MaxErrors <= 1
    PROVE  Spec => ImplementsStore
<1>1. Init => Store!StoreInit /\ DeletionIsLast
  BY StoreStarts, IdleFacts DEF Init, DeletionIsLast, Steps
<1>2. IInv /\ DeletionIsLast /\ [Next]_vars => [Store!StoreNext]_(Store!store)
  <2> SUFFICES ASSUME IInv, DeletionIsLast, [Next]_vars
               PROVE  [Store!StoreNext]_(Store!store)
    OBVIOUS
  <2>1. CASE Next
    BY <2>1, CallersRefine, ThreadRefines DEF Next
  <2>2. CASE UNCHANGED vars
    <3>1. work' = work /\ disk' = disk /\ snapshots' = snapshots /\ deleting' = deleting
      BY <2>2 DEF vars
    <3> QED  BY <3>1, CountedAgain DEF Store!store
  <2> QED  BY <2>1, <2>2
<1> QED  BY <1>1, <1>2, SwapInductive, DeletionStaysLast, PTL
         DEF Spec, ImplementsStore, Store!StoreSpec
=============================================================================
