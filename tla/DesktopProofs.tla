---------------------------- MODULE DesktopProofs ----------------------------
(***************************************************************************)
(* Proofs about the components of the desktop application, each for any    *)
(* number of its windows, sessions, tabs, keys and requests.               *)
(***************************************************************************)
EXTENDS MCDesktop, FiniteSetTheorems, WellFoundedInduction, TLAPS

(* Induction over the naturals. *)

\* A set of natural numbers that is not empty has a least element.
LEMMA LeastNumber ==
    ASSUME NEW T \in SUBSET Nat, T # {} PROVE \E n \in T : \A m \in T : n <= m
<1>1. PICK n \in T : \A m \in T : ~(<<m, n>> \in OpToRel(<, Nat))
  BY NatLessThanWellFounded, WFMin
<1>2. \A m \in T : m \in Nat /\ n \in Nat /\ ~(m < n)
  BY <1>1 DEF OpToRel
<1>3. \A m \in T : n <= m
  BY <1>2
<1> QED
  BY <1>3

\* What holds of 0 and is kept from n to n + 1 holds of every natural number, stated of sets:
\* a set, unlike an operator, can be given to a lemma.
LEMMA Induction ==
    ASSUME NEW S, 0 \in S, \A n \in Nat : n \in S => n + 1 \in S PROVE Nat \subseteq S
<1> DEFINE T == Nat \ S
<1>1. SUFFICES ASSUME T # {} PROVE FALSE
  OBVIOUS
<1>2. PICK n \in T : \A m \in T : n <= m
  BY <1>1, LeastNumber
<1>3. n # 0 /\ n - 1 \in Nat /\ n - 1 \notin T
  BY <1>2
<1> QED
  BY <1>2, <1>3

\* A function that is defined from its value for the number before exists.
Recursive(g, S, x, n, F) == g \in [0..n -> S] /\ g[0] = x /\ \A i \in 1..n : g[i] = F[i][g[i - 1]]

LEMMA Recursion ==
    ASSUME NEW S, NEW x \in S, NEW n \in Nat, NEW F \in [1..n -> [S -> S]]
    PROVE  \E g : Recursive(g, S, x, n, F)
<1> DEFINE N == {k \in Nat : k <= n => \E g : Recursive(g, S, x, k, F)}
<1>1. 0 \in N
  <2>1. Recursive([i \in 0..0 |-> x], S, x, 0, F)
    BY DEF Recursive
  <2> QED
    BY <2>1
<1>2. ASSUME NEW k \in Nat, k \in N PROVE k + 1 \in N
  <2>1. SUFFICES ASSUME k + 1 <= n PROVE \E g : Recursive(g, S, x, k + 1, F)
    OBVIOUS
  <2>2. PICK g : Recursive(g, S, x, k, F)
    BY <1>2, <2>1
  <2>3. g \in [0..k -> S] /\ g[0] = x /\ \A i \in 1..k : g[i] = F[i][g[i - 1]]
    BY <2>2 DEF Recursive
  <2> DEFINE v == F[k + 1][g[k]]
             h == [i \in 0..k + 1 |-> IF i <= k THEN g[i] ELSE v]
  <2>4. v \in S
    BY <2>1, <2>3
  <2> HIDE DEF v
  <2>5. /\ h \in [0..k + 1 -> S] /\ h[k + 1] = v
        /\ \A i \in 0..k : h[i] = g[i]
    BY <2>3, <2>4
  <2> HIDE DEF h
  <2>6. ASSUME NEW i \in 1..k + 1 PROVE h[i] = F[i][h[i - 1]]
    <3>1. CASE i = k + 1
      <4>1. i - 1 = k /\ k \in 0..k
        BY <3>1
      <4> QED
        BY <2>5, <3>1, <4>1 DEF v
    <3>2. CASE i # k + 1
      <4>1. i \in 1..k /\ i \in 0..k /\ i - 1 \in 0..k
        BY <3>2
      <4> QED
        BY <2>3, <2>5, <4>1
    <3> QED
      BY <3>1, <3>2
  <2>7. Recursive(h, S, x, k + 1, F)
    BY <2>3, <2>5, <2>6 DEF Recursive
  <2> QED
    BY <2>7
<1>3. Nat \subseteq N
  <2> HIDE DEF N
  <2> QED
    BY <1>1, <1>2, Induction
<1> QED
  BY <1>3

-----------------------------------------------------------------------------
(* Sequences. *)

\* The range of a sequence, and what it is to be injective, by its indices.
LEMMA InRange ==
    ASSUME NEW T, NEW seq \in Seq(T)
    PROVE  \A i \in 1..Len(seq) : seq[i] \in Range(seq)
  BY DEF Range

LEMMA OfRange ==
    ASSUME NEW T, NEW seq \in Seq(T)
    PROVE  \A x \in Range(seq) : \E i \in 1..Len(seq) : seq[i] = x
  BY DEF Range

LEMMA RangeTyped ==
    ASSUME NEW T, NEW seq \in Seq(T) PROVE Range(seq) \subseteq T
  BY DEF Range

LEMMA EmptyRange ==
    ASSUME NEW T, NEW seq \in Seq(T), Range(seq) = {} PROVE seq = <<>>
<1>1. \A i \in 1..Len(seq) : seq[i] \in Range(seq)
  BY InRange
<1>2. Len(seq) = 0
  BY <1>1
<1> QED
  BY <1>2

LEMMA InjectiveAt ==
    ASSUME NEW T, NEW seq \in Seq(T), IsInjective(seq)
    PROVE  \A i, j \in 1..Len(seq) : seq[i] = seq[j] => i = j
  BY DEF IsInjective

LEMMA InjectiveFrom ==
    ASSUME NEW T, NEW seq \in Seq(T), \A i, j \in 1..Len(seq) : seq[i] = seq[j] => i = j
    PROVE  IsInjective(seq)
  BY DEF IsInjective

\* Two sequences put together.
LEMMA ConcatKeeps ==
    ASSUME NEW T, NEW s \in Seq(T), NEW t \in Seq(T)
    PROVE  /\ s \o t \in Seq(T)
           /\ Range(s \o t) = Range(s) \cup Range(t)
           /\ IsInjective(s) /\ IsInjective(t) /\ Range(s) \cap Range(t) = {} => IsInjective(s \o t)
<1> DEFINE r == s \o t
<1>1. /\ r \in Seq(T) /\ Len(r) = Len(s) + Len(t) /\ Len(s) \in Nat /\ Len(t) \in Nat
      /\ \A i \in 1..Len(s) : r[i] = s[i]
      /\ \A i \in 1..Len(t) : r[Len(s) + i] = t[i]
  OBVIOUS
<1> HIDE DEF r
<1>2. \A i \in 1..Len(r) : i \in 1..Len(s) \/ (i - Len(s) \in 1..Len(t) /\ r[i] = t[i - Len(s)])
  <2> SUFFICES ASSUME NEW i \in 1..Len(r), i \notin 1..Len(s)
               PROVE  i - Len(s) \in 1..Len(t) /\ r[i] = t[i - Len(s)]
    OBVIOUS
  <2>1. i - Len(s) \in 1..Len(t) /\ Len(s) + (i - Len(s)) = i
    BY <1>1
  <2> QED
    BY <1>1, <2>1
<1>3. \A i \in 1..Len(s) : i \in 1..Len(r)
  BY <1>1
<1>4. \A i \in 1..Len(t) : Len(s) + i \in 1..Len(r)
  BY <1>1
<1>5. ASSUME NEW x \in Range(r) PROVE x \in Range(s) \cup Range(t)
  <2>1. PICK i \in 1..Len(r) : r[i] = x
    BY <1>1, <1>5, OfRange
  <2>2. CASE i \in 1..Len(s)
    <3>1. s[i] = x
      BY <1>1, <2>1, <2>2
    <3> QED
      BY <2>2, <3>1, InRange
  <2>3. CASE i - Len(s) \in 1..Len(t) /\ r[i] = t[i - Len(s)]
    BY <2>1, <2>3, InRange
  <2> QED
    BY <1>2, <2>2, <2>3
<1>6. ASSUME NEW x \in Range(s) PROVE x \in Range(r)
  <2>1. PICK i \in 1..Len(s) : s[i] = x
    BY <1>6, OfRange
  <2>2. i \in 1..Len(r) /\ r[i] = x
    BY <1>1, <1>3, <2>1
  <2> QED
    BY <1>1, <2>2, InRange
<1>7. ASSUME NEW x \in Range(t) PROVE x \in Range(r)
  <2>1. PICK i \in 1..Len(t) : t[i] = x
    BY <1>7, OfRange
  <2>2. Len(s) + i \in 1..Len(r) /\ r[Len(s) + i] = x
    BY <1>1, <1>4, <2>1
  <2> QED
    BY <1>1, <2>2, InRange
<1>8. ASSUME IsInjective(s), IsInjective(t), Range(s) \cap Range(t) = {},
             NEW i \in 1..Len(r), NEW j \in 1..Len(r), r[i] = r[j]
      PROVE  i = j
  <2>1. \A k \in 1..Len(r) : k \in 1..Len(s) => r[k] \in Range(s) /\ r[k] = s[k]
    BY <1>1, InRange
  <2>2. \A k \in 1..Len(r) : k \notin 1..Len(s) => r[k] \in Range(t) /\ k - Len(s) \in 1..Len(t) /\ r[k] = t[k - Len(s)]
    BY <1>2, InRange
  <2>3. \A k, l \in 1..Len(s) : s[k] = s[l] => k = l
    BY <1>8, InjectiveAt
  <2>4. \A k, l \in 1..Len(t) : t[k] = t[l] => k = l
    BY <1>8, InjectiveAt
  <2>5. CASE i \in 1..Len(s) /\ j \in 1..Len(s)
    BY <1>8, <2>1, <2>3, <2>5
  <2>6. CASE i \notin 1..Len(s) /\ j \notin 1..Len(s)
    <3>1. i - Len(s) = j - Len(s)
      BY <1>8, <2>2, <2>4, <2>6
    <3> QED
      BY <1>1, <3>1
  <2> QED
    BY <1>8, <2>1, <2>2, <2>5, <2>6
<1>9. IsInjective(s) /\ IsInjective(t) /\ Range(s) \cap Range(t) = {} => IsInjective(r)
  BY <1>1, <1>8, InjectiveFrom
<1>10. r \in Seq(T) /\ Range(r) = Range(s) \cup Range(t)
  BY <1>1, <1>5, <1>6, <1>7
<1> QED
  BY <1>9, <1>10 DEF r

LEMMA OneElement ==
    ASSUME NEW T, NEW x \in T
    PROVE  <<x>> \in Seq(T) /\ Range(<<x>>) = {x} /\ IsInjective(<<x>>) /\ <<x>> # <<>>
<1>1. <<x>> \in Seq(T) /\ Len(<<x>>) = 1 /\ <<x>>[1] = x /\ <<x>> # <<>>
  OBVIOUS
<1> DEFINE s == <<x>>
<1> HIDE DEF s
<1>2. s \in Seq(T) /\ Len(s) = 1 /\ s[1] = x /\ s # <<>>
  BY <1>1 DEF s
<1>3. x \in Range(s) /\ \A y \in Range(s) : y = x
  BY <1>2, InRange, OfRange
<1>4. IsInjective(s)
  BY <1>2, InjectiveFrom
<1> QED
  BY <1>2, <1>3, <1>4 DEF s

\* Append, as two sequences put together.
LEMMA AppendKeeps ==
    ASSUME NEW T, NEW s \in Seq(T), NEW x \in T
    PROVE  /\ Append(s, x) \in Seq(T) /\ Append(s, x) # <<>>
           /\ Range(Append(s, x)) = Range(s) \cup {x}
           /\ IsInjective(s) /\ x \notin Range(s) => IsInjective(Append(s, x))
           /\ IsInjective(Append(s, x)) => x \notin Range(s)
<1>1. Append(s, x) = s \o <<x>> /\ Append(s, x) # <<>> /\ Append(s, x) \in Seq(T)
  OBVIOUS
<1>2. /\ Range(Append(s, x)) = Range(s) \cup {x}
      /\ IsInjective(s) /\ x \notin Range(s) => IsInjective(Append(s, x))
  <2> DEFINE t == <<x>>
  <2>1. t \in Seq(T) /\ Range(t) = {x} /\ IsInjective(t)
    BY OneElement
  <2>2. Append(s, x) = s \o t
    BY <1>1
  <2> HIDE DEF t
  <2>3. Range(s \o t) = Range(s) \cup Range(t)
    BY <2>1, ConcatKeeps
  <2>4. IsInjective(s) /\ Range(s) \cap Range(t) = {} => IsInjective(s \o t)
    BY <2>1, ConcatKeeps
  <2> QED
    BY <2>1, <2>2, <2>3, <2>4
<1>3. ASSUME IsInjective(Append(s, x)), x \in Range(s) PROVE FALSE
  <2>1. PICK i \in 1..Len(s) : s[i] = x
    BY <1>3, OfRange
  <2> DEFINE r == Append(s, x)
  <2>2. r \in Seq(T) /\ i \in 1..Len(r) /\ Len(s) + 1 \in 1..Len(r) /\ r[i] = x /\ r[Len(s) + 1] = x /\ i # Len(s) + 1
    BY <2>1
  <2> HIDE DEF r
  <2>3. IsInjective(r)
    BY <1>3 DEF r
  <2> QED
    BY <2>2, <2>3, InjectiveAt
<1> QED
  BY <1>1, <1>2, <1>3

\* A set that is listed: each element once.
LEMMA SetToSeqLists ==
    ASSUME NEW T, NEW S \in SUBSET T, IsFiniteSet(S)
    PROVE  SetToSeq(S) \in Seq(T) /\ Range(SetToSeq(S)) \subseteq S /\ IsInjective(SetToSeq(S))
<1> DEFINE n == Cardinality(S)
<1>1. n \in Nat /\ ExistsBijection(1..n, S)
  BY FS_CardinalityType
<1>2. PICK f \in [1..n -> S] : IsInjective(f)
  BY <1>1 DEF ExistsBijection, Bijection, Injection, IsInjective
<1>3. SetToSeq(S) \in [1..n -> S] /\ IsInjective(SetToSeq(S))
  BY <1>2, Zenon DEF SetToSeq
<1> DEFINE s == SetToSeq(S)
<1> HIDE DEF s, n
<1>4. s \in [1..n -> S] /\ IsInjective(s) /\ n \in Nat
  BY <1>1, <1>3 DEF s, n
<1>5. s \in Seq(S)
  BY <1>4
<1>6. s \in Seq(T) /\ Range(s) \subseteq S
  BY <1>4, <1>5 DEF Range
<1> QED
  BY <1>4, <1>6 DEF s

-----------------------------------------------------------------------------
(* LocalShells. *)

KillBusy == {"locked", "flag", "state", "kill", "wait", "stopped"}
Stopping == {"flag", "state", "kill", "wait", "stopped"}
KillRecord == [stage : KillBusy \cup {"done"}, target : LocalIds \cup {NoOne}, todo : SUBSET LocalIds,
               all : BOOLEAN, ended : SUBSET LocalIds, failed : SUBSET LocalIds]

ShellsTyped ==
    /\ process \in [LocalIds -> {"none", "alive", "exited", "reaped"}]
    /\ child \in [LocalIds -> BOOLEAN]
    /\ shellState \in [LocalIds -> {"starting", "running", "stopped"}]
    /\ monitor \in [LocalIds -> {"off", "polling", "marking", "ended"}]
    /\ mapped \in SUBSET LocalIds /\ unlisted \in SUBSET LocalIds
    /\ holder \in Killers \cup {NoOne}
    /\ killer \in [Killers -> KillRecord \cup {NoKill}]

\* A session is known after its process, and only a process that runs or has ended is held.
Born ==
    /\ \A s \in mapped \cup unlisted : process[s] # "none"
    /\ \A s \in LocalIds : child[s] => process[s] \in {"alive", "exited"}

\* What a kill r of k has done and has still to do.
Fits(k, r) ==
    /\ r.stage \in KillBusy => holder = k
    /\ r.stage \in Stopping => r.target \in LocalIds /\ process[r.target] # "none"
    /\ r.stage \in {"kill", "wait", "stopped"} => shellState[r.target] # "running"
    /\ r.stage = "stopped" => r.target \in r.ended \cup r.failed
    /\ r.stage = "locked" => r.target \in r.ended \cup r.failed \cup {NoOne}
    /\ r.stage \in KillBusy =>
         /\ \A s \in r.todo : process[s] # "none"
         /\ r.all => mapped \subseteq r.todo \cup r.ended \cup r.failed \cup {r.target}
    /\ \A s \in r.ended : process[s] = "reaped" /\ ~child[s]
KillsFit == \A k \in Killers : killer[k] # NoKill => Fits(k, killer[k])

ShellsInv == ShellsTyped /\ Born /\ KillsFit /\ NobodyStaysUnwatched /\ EndIsShown /\ NoStrayProcess

-----------------------------------------------------------------------------
LEMMA ShellsInvInit == ShellsInit => ShellsInv
  <1> SUFFICES ASSUME ShellsInit PROVE ShellsInv
    OBVIOUS
  <1>1. ShellsTyped
    BY DEF ShellsInit, ShellsTyped
  <1>2. Born /\ NobodyStaysUnwatched /\ EndIsShown /\ NoStrayProcess
    BY DEF ShellsInit, Born, NobodyStaysUnwatched, EndIsShown, NoStrayProcess
  <1>3. KillsFit
    BY DEF ShellsInit, KillsFit
  <1>4. QED
    BY <1>1, <1>2, <1>3 DEF ShellsInv

\* What the sessions themselves may do while the kills stand still.
LEMMA KillsStillFit ==
    ASSUME ShellsInv, UNCHANGED <<killer, holder>>,
           mapped' = mapped \/ holder = NoOne,
           \A s \in LocalIds : process[s] # "none" =>
               /\ process'[s] # "none"
               /\ shellState[s] # "running" => shellState'[s] # "running"
               /\ process[s] = "reaped" => process'[s] = "reaped"
               /\ ~child[s] => ~child'[s]
    PROVE  KillsFit'
  <1> SUFFICES ASSUME NEW k \in Killers, killer[k] # NoKill PROVE Fits(k, killer[k])'
    BY DEF KillsFit
  <1> DEFINE r == killer[k]
  <1>1. r \in KillRecord /\ Fits(k, r)
    BY DEF ShellsInv, ShellsTyped, KillsFit
  <1>2. killer'[k] = r /\ holder' = holder
    OBVIOUS
  <1>3. r.stage \in KillBusy => mapped' = mapped
    BY <1>1, ShellsAssumption DEF Fits
  <1>4. \A s \in r.todo \cup r.ended : s \in LocalIds
    BY <1>1 DEF KillRecord
  <1>5. QED
    BY <1>1, <1>2, <1>3, <1>4 DEF Fits, Stopping, KillBusy

LEMMA SpawnKeeps ==
    ASSUME ShellsInv, NEW s \in LocalIds, NEW what, SpawnProcess(s, what)
    PROVE  ShellsInv'
  <1>1. ShellsTyped'
    BY DEF ShellsInv, ShellsTyped, SpawnProcess
  <1>2. Born'
    BY DEF ShellsInv, ShellsTyped, Born, SpawnProcess
  <1>3. KillsFit'
    BY KillsStillFit DEF SpawnProcess, ShellsInv, ShellsTyped
  <1>4. NobodyStaysUnwatched' /\ EndIsShown'
    BY DEF ShellsInv, ShellsTyped, NobodyStaysUnwatched, EndIsShown, SpawnProcess
  <1>5. NoStrayProcess'
    BY DEF ShellsInv, ShellsTyped, NoStrayProcess, SpawnProcess
  <1>6. QED
    BY <1>1, <1>2, <1>3, <1>4, <1>5 DEF ShellsInv

LEMMA SessionKeeps ==
    ASSUME ShellsInv, NEW s \in LocalIds,
           \/ Register(s) \/ ProcessExits(s) \/ CloseTty(s) \/ MonitorPoll(s) \/ MonitorMark(s)
           \/ ReaderEnds(s) \/ ReaderMark(s)
    PROVE  ShellsInv'
  <1>1. CASE Register(s)
    <2>1. ShellsTyped' /\ Born' /\ NobodyStaysUnwatched' /\ EndIsShown'
      BY <1>1 DEF Register, ShellsInv, ShellsTyped, Born, NobodyStaysUnwatched, EndIsShown, ofProcess, threads
    <2>2. KillsFit'
      BY <1>1, KillsStillFit DEF Register, ofProcess
    <2>3. NoStrayProcess'
      BY <1>1 DEF Register, ShellsInv, NoStrayProcess, ofProcess
    <2>4. QED
      BY <2>1, <2>2, <2>3 DEF ShellsInv
  <1>2. CASE ProcessExits(s)
    <2>1. ShellsTyped' /\ Born' /\ NobodyStaysUnwatched' /\ EndIsShown'
      BY <1>2 DEF ProcessExits, ShellsInv, ShellsTyped, Born, NobodyStaysUnwatched, EndIsShown, inMap, threads
    <2>2. KillsFit'
      BY <1>2, KillsStillFit DEF ProcessExits, inMap, ShellsInv, ShellsTyped
    <2>3. NoStrayProcess'
      BY <1>2 DEF ProcessExits, ShellsInv, ShellsTyped, NoStrayProcess, inMap
    <2>4. QED
      BY <2>1, <2>2, <2>3 DEF ShellsInv
  <1>3. CASE CloseTty(s) \/ ReaderEnds(s)
    <2>1. UNCHANGED <<process, child, shellState, monitor, inMap, holder, killer>>
      BY <1>3 DEF CloseTty, ReaderEnds, threads, ofProcess
    <2>2. ShellsTyped' /\ Born' /\ NobodyStaysUnwatched' /\ EndIsShown' /\ NoStrayProcess'
      BY <2>1 DEF ShellsInv, ShellsTyped, Born, NobodyStaysUnwatched, EndIsShown, NoStrayProcess, inMap
    <2>3. KillsFit'
      BY <2>1, KillsStillFit DEF inMap
    <2>4. QED
      BY <2>2, <2>3 DEF ShellsInv
  <1>4. CASE MonitorPoll(s)
    <2>1. ShellsTyped'
      BY <1>4 DEF MonitorPoll, Reap, ShellsInv, ShellsTyped, inMap
    <2>2. Born'
      BY <1>4 DEF MonitorPoll, Reap, ShellsInv, ShellsTyped, Born, inMap
    <2>3. NobodyStaysUnwatched'
      BY <1>4 DEF MonitorPoll, Reap, ShellsInv, ShellsTyped, NobodyStaysUnwatched
    <2>4. EndIsShown'
      BY <1>4 DEF MonitorPoll, Reap, ShellsInv, ShellsTyped, EndIsShown
    <2>5. KillsFit'
      BY <1>4, KillsStillFit DEF MonitorPoll, Reap, inMap, ShellsInv, ShellsTyped
    <2>6. NoStrayProcess'
      BY <1>4 DEF MonitorPoll, Reap, ShellsInv, ShellsTyped, NoStrayProcess, inMap
    <2>7. QED
      BY <2>1, <2>2, <2>3, <2>4, <2>5, <2>6 DEF ShellsInv
  <1>5. CASE MonitorMark(s) \/ ReaderMark(s)
    <2>1. /\ UNCHANGED <<process, child, inMap, holder, killer>>
          /\ shellState' = [shellState EXCEPT ![s] = IF @ = "running" THEN "stopped" ELSE @]
          /\ monitor' \in {monitor, [monitor EXCEPT ![s] = "ended"]}
          /\ monitor[s] = "polling" => monitor' = monitor
      BY <1>5 DEF MonitorMark, ReaderMark, Stopped, ofProcess
    <2>2. ShellsTyped' /\ Born' /\ NobodyStaysUnwatched' /\ EndIsShown' /\ NoStrayProcess'
      BY <2>1 DEF ShellsInv, ShellsTyped, Born, NobodyStaysUnwatched, EndIsShown, NoStrayProcess, inMap
    <2>3. KillsFit'
      BY <2>1, KillsStillFit DEF inMap, ShellsInv, ShellsTyped
    <2>4. QED
      BY <2>2, <2>3 DEF ShellsInv
  <1>6. QED
    BY <1>1, <1>2, <1>3, <1>4, <1>5

-----------------------------------------------------------------------------
(* Kills. *)

\* A kill that works holds the lock, so the others are at rest.
LEMMA OneKills ==
    ASSUME ShellsInv, NEW k \in Killers, NEW r \in KillRecord, holder \in {NoOne, k},
           killer' = [killer EXCEPT ![k] = r], Fits(k, r)',
           \A s \in LocalIds : process[s] = "reaped" /\ ~child[s] =>
                               process'[s] = "reaped" /\ ~child'[s]
    PROVE  KillsFit'
  <1> SUFFICES ASSUME NEW q \in Killers, killer'[q] # NoKill PROVE Fits(q, killer[q])'
    BY DEF KillsFit
  <1>1. CASE q = k
    BY <1>1 DEF ShellsInv, ShellsTyped
  <1>2. CASE q # k
    <2>1. killer'[q] = killer[q] /\ killer[q] \in KillRecord /\ Fits(q, killer[q])
      BY <1>2 DEF ShellsInv, ShellsTyped, KillsFit
    <2>2. killer[q].stage \notin KillBusy
      BY <1>2, <2>1, ShellsAssumption DEF Fits
    <2>3. \A s \in killer[q].ended : s \in LocalIds
      BY <2>1 DEF KillRecord
    <2>4. QED
      BY <2>1, <2>2, <2>3 DEF Fits, KillBusy, Stopping
  <1>3. QED
    BY <1>1, <1>2

\* What a kill is at.
LEMMA KillFacts ==
    ASSUME ShellsInv, NEW k \in Killers
    PROVE  /\ killer[k].stage = "idle" => killer[k] = NoKill
           /\ killer[k].stage \in KillBusy =>
                /\ killer[k] \in KillRecord /\ Fits(k, killer[k]) /\ holder = k
                /\ killer[k] # NoKill
  BY DEF ShellsInv, ShellsTyped, KillsFit, KillRecord, NoKill, KillBusy, Fits

\* A kill begins with an empty record, and whatever leaves the map is its target.
LEMMA KillBegins ==
    ASSUME ShellsInv, NEW k \in Killers, NEW r \in KillRecord,
           killer[k] = NoKill, holder = NoOne, holder' = k, killer' = [killer EXCEPT ![k] = r],
           UNCHANGED <<process, child, shellState, monitor, unlisted>>,
           Fits(k, r)', mapped' \in SUBSET mapped, \A s \in mapped \ mapped' : r.target = s
    PROVE  ShellsInv'
  <1>1. ShellsTyped' /\ Born' /\ NobodyStaysUnwatched' /\ EndIsShown'
    BY DEF ShellsInv, ShellsTyped, Born, NobodyStaysUnwatched, EndIsShown
  <1>2. KillsFit'
    BY OneKills
  <1>3. ASSUME NEW s \in LocalIds, process[s] = "alive", s \notin mapped', s \notin unlisted
        PROVE  \E q \in Killers : s \in killer'[q].failed \/ (holder' = q /\ killer'[q].target = s)
    <2>1. killer'[k] = r
      BY DEF ShellsInv, ShellsTyped
    <2>2. CASE s \in mapped
      BY <1>3, <2>1, <2>2
    <2>3. CASE s \notin mapped
      <3>1. PICK q \in Killers : s \in killer[q].failed \/ (holder = q /\ killer[q].target = s)
        BY <1>3, <2>3 DEF ShellsInv, NoStrayProcess
      <3>2. s \in killer[q].failed /\ q # k
        BY <3>1, ShellsAssumption DEF NoKill
      <3>3. killer'[q] = killer[q]
        BY <3>2 DEF ShellsInv, ShellsTyped
      <3>4. QED
        BY <3>2, <3>3
    <2>4. QED
      BY <2>2, <2>3
  <1>4. NoStrayProcess'
    BY <1>3 DEF NoStrayProcess
  <1>5. QED
    BY <1>1, <1>2, <1>4 DEF ShellsInv

LEMMA BeginningsKeep ==
    ASSUME ShellsInv, NEW k \in Killers,
           KillAll(k) \/ \E s \in LocalIds : KillLocal(k, s)
    PROVE  ShellsInv'
  <1>1. /\ killer[k] = NoKill /\ holder = NoOne /\ holder' = k
        /\ UNCHANGED <<process, child, shellState, monitor, unlisted>>
    BY KillFacts DEF KillAll, KillLocal, TakeLock, ofProcess, threads, inMap
  <1>2. CASE KillAll(k)
    <2>1. PICK r \in KillRecord : r = [stage |-> "locked", target |-> NoOne, todo |-> mapped, all |-> TRUE,
                                      ended |-> {}, failed |-> {}]
      BY DEF ShellsInv, ShellsTyped, KillRecord, KillBusy
    <2>2. killer' = [killer EXCEPT ![k] = r] /\ mapped' = mapped
      BY <1>2, <2>1 DEF KillAll, TakeLock, inMap
    <2>3. Fits(k, r)'
      BY <1>1, <2>1, <2>2 DEF Fits, KillBusy, Stopping, ShellsInv, Born
    <2>4. QED
      BY <1>1, <2>1, <2>2, <2>3, KillBegins
  <1>3. ASSUME NEW s \in LocalIds, KillLocal(k, s) PROVE ShellsInv'
    <2>1. PICK r \in KillRecord : r = [stage |-> "flag", target |-> s, todo |-> {}, all |-> FALSE,
                                      ended |-> {}, failed |-> {}]
      BY DEF KillRecord, KillBusy
    <2>2. killer' = [killer EXCEPT ![k] = r] /\ mapped' = mapped \ {s} /\ s \in mapped
      BY <1>3, <2>1 DEF KillLocal, TakeLock
    <2>3. Fits(k, r)'
      BY <1>1, <2>1, <2>2 DEF Fits, KillBusy, Stopping, ShellsInv, Born
    <2>4. \A t \in mapped \ mapped' : r.target = t
      BY <2>1, <2>2
    <2>5. QED
      BY <1>1, <2>1, <2>2, <2>3, <2>4, KillBegins
  <1>4. QED
    BY <1>2, <1>3

\* A kill that goes on loses sight of no running process.
LEMMA NoneStrays ==
    ASSUME ShellsInv, NEW k \in Killers, NEW r \in KillRecord, killer[k].stage \in KillBusy,
           killer' = [killer EXCEPT ![k] = r], mapped' \in SUBSET mapped, UNCHANGED unlisted,
           \A s \in LocalIds : process'[s] = "alive" => process[s] = "alive",
           killer[k].failed \subseteq r.failed,
           \/ holder' = k /\ r.target = killer[k].target
           \/ killer[k].target \in r.failed
           \/ ~(killer[k].target \in LocalIds /\ process'[killer[k].target] = "alive"),
           \A s \in mapped \ mapped' : process'[s] = "alive" => s \in r.failed
    PROVE  NoStrayProcess'
  <1> SUFFICES ASSUME NEW s \in LocalIds, process'[s] = "alive", s \notin mapped', s \notin unlisted
               PROVE  \E q \in Killers : s \in killer'[q].failed \/ (holder' = q /\ killer'[q].target = s)
    BY DEF NoStrayProcess
  <1>1. killer'[k] = r /\ holder = k
    BY KillFacts DEF ShellsInv, ShellsTyped
  <1>2. CASE s \in mapped
    BY <1>1, <1>2
  <1>3. CASE s \notin mapped
    <2>1. PICK q \in Killers : s \in killer[q].failed \/ (holder = q /\ killer[q].target = s)
      BY <1>3 DEF ShellsInv, NoStrayProcess
    <2>2. CASE q = k
      BY <1>1, <2>1, <2>2
    <2>3. CASE q # k
      BY <1>1, <2>1, <2>3 DEF ShellsInv, ShellsTyped
    <2>4. QED
      BY <2>2, <2>3
  <1>4. QED
    BY <1>2, <1>3

\* Steps that change neither processes nor the map, and keep the target.
LEMMA StopStep ==
    ASSUME ShellsInv, NEW k \in Killers, NEW r \in KillRecord, killer[k].stage \in KillBusy,
           killer' = [killer EXCEPT ![k] = r], r.failed = killer[k].failed, r.target = killer[k].target,
           UNCHANGED <<process, child, monitor, unlisted, mapped, holder>>, Fits(k, r)',
           shellState' \in {shellState, [shellState EXCEPT ![r.target] = "stopped"]}
    PROVE  ShellsInv'
  <1>1. holder = k
    BY KillFacts
  <1>2. ShellsTyped' /\ Born' /\ NobodyStaysUnwatched' /\ EndIsShown'
    BY DEF ShellsInv, ShellsTyped, Born, NobodyStaysUnwatched, EndIsShown
  <1>3. KillsFit'
    BY <1>1, OneKills
  <1>4. NoStrayProcess'
    BY <1>1, NoneStrays
  <1>5. QED
    BY <1>2, <1>3, <1>4 DEF ShellsInv

LEMMA StopsKeep ==
    ASSUME ShellsInv, NEW k \in Killers, SetFlag(k) \/ SetStopped(k) \/ KillChild(k)
    PROVE  ShellsInv'
  <1>1. /\ killer[k].stage \in {"flag", "state", "kill"} /\ killer[k].stage \in KillBusy
        /\ UNCHANGED <<process, child, monitor, unlisted, mapped, holder>>
    BY DEF SetFlag, SetStopped, KillChild, ofProcess, threads, inMap, KillBusy
  <1>2. killer[k] \in KillRecord /\ Fits(k, killer[k])
    BY <1>1, KillFacts
  <1>3. PICK r \in KillRecord :
          /\ killer' = [killer EXCEPT ![k] = r]
          /\ r = [killer[k] EXCEPT !.stage = CASE @ = "flag" -> "state" [] @ = "state" -> "kill"
                                               [] @ = "kill" -> "wait"]
    <2>1. CASE SetFlag(k)
      BY <1>2, <2>1 DEF SetFlag, KillStep, KillRecord, KillBusy
    <2>2. CASE SetStopped(k)
      BY <1>2, <2>2 DEF SetStopped, KillStep, KillRecord, KillBusy
    <2>3. CASE KillChild(k)
      BY <1>2, <2>3 DEF KillChild, KillStep, KillRecord, KillBusy
    <2>4. QED
      BY <2>1, <2>2, <2>3
  <1>4. /\ r.target = killer[k].target /\ r.failed = killer[k].failed /\ r.ended = killer[k].ended
        /\ r.todo = killer[k].todo /\ r.all = killer[k].all
        /\ killer[k].stage = "flag" => r.stage = "state"
        /\ killer[k].stage = "state" => r.stage = "kill"
        /\ killer[k].stage = "kill" => r.stage = "wait"
    BY <1>1, <1>2, <1>3 DEF KillRecord
  <1>5. /\ shellState' \in {shellState, [shellState EXCEPT ![r.target] = "stopped"]}
        /\ r.stage \in {"kill", "wait"} => shellState'[r.target] # "running"
    <2>1. CASE SetFlag(k)
      BY <1>1, <1>4, <2>1 DEF SetFlag
    <2>2. CASE SetStopped(k)
      <3>1. shellState' = [shellState EXCEPT ![r.target] = "stopped"] /\ r.target \in LocalIds
        BY <1>2, <1>4, <2>2 DEF SetStopped, Fits, Stopping
      <3>2. QED
        BY <3>1 DEF ShellsInv, ShellsTyped
    <2>3. CASE KillChild(k)
      BY <1>2, <1>4, <2>3 DEF KillChild, Fits
    <2>4. QED
      BY <2>1, <2>2, <2>3
  <1>6. Fits(k, r)'
    BY <1>1, <1>2, <1>4, <1>5 DEF Fits, KillBusy, Stopping
  <1>7. QED
    BY <1>1, <1>3, <1>4, <1>5, <1>6, StopStep

LEMMA NextKeeps ==
    ASSUME ShellsInv, NEW k \in Killers, NextOfAll(k)
    PROVE  ShellsInv'
  <1>1. /\ killer[k].stage = "locked" /\ killer[k].stage \in KillBusy
        /\ UNCHANGED <<process, child, shellState, monitor, unlisted, mapped, holder>>
    BY DEF NextOfAll, ofProcess, threads, inMap, KillBusy
  <1>2. killer[k] \in KillRecord /\ Fits(k, killer[k]) /\ holder = k
    BY <1>1, KillFacts
  <1>3. PICK s \in killer[k].todo :
          killer' = [killer EXCEPT ![k].stage = "flag", ![k].target = s, ![k].todo = @ \ {s}]
    BY DEF NextOfAll
  <1>4. s \in LocalIds
    BY <1>2 DEF KillRecord
  <1>5. PICK r \in KillRecord :
          /\ killer' = [killer EXCEPT ![k] = r]
          /\ r.stage = "flag" /\ r.target = s /\ r.todo = killer[k].todo \ {s}
          /\ r.all = killer[k].all /\ r.ended = killer[k].ended /\ r.failed = killer[k].failed
    <2> DEFINE w == [killer[k] EXCEPT !.stage = "flag", !.target = s, !.todo = @ \ {s}]
    <2>1. killer' = [killer EXCEPT ![k] = w]
      BY <1>3 DEF ShellsInv, ShellsTyped
    <2>2. w \in KillRecord
      BY <1>2, <1>4 DEF KillRecord, KillBusy
    <2>3. /\ w.stage = "flag" /\ w.target = s /\ w.todo = killer[k].todo \ {s}
          /\ w.all = killer[k].all /\ w.ended = killer[k].ended /\ w.failed = killer[k].failed
      BY <1>2 DEF KillRecord
    <2> HIDE DEF w
    <2>4. QED
      BY <2>1, <2>2, <2>3
  <1>6. killer[k].target \in r.ended \cup r.failed \cup {NoOne}
    BY <1>1, <1>2, <1>5 DEF Fits
  <1>7. Fits(k, r)'
    <2>1. process[s] # "none"
      BY <1>1, <1>2 DEF Fits
    <2>2. \A t \in r.todo : process[t] # "none"
      BY <1>1, <1>2, <1>5 DEF Fits
    <2>3. \A t \in r.ended : process[t] = "reaped" /\ ~child[t]
      BY <1>2, <1>5 DEF Fits
    <2>4. r.all => mapped \subseteq r.todo \cup r.ended \cup r.failed \cup {r.target}
      BY <1>1, <1>2, <1>5, <1>6, ShellsAssumption DEF Fits, ShellsInv, ShellsTyped
    <2>5. QED
      BY <1>1, <1>2, <1>4, <1>5, <2>1, <2>2, <2>3, <2>4 DEF Fits, KillBusy, Stopping
  <1>8. ShellsTyped' /\ Born' /\ NobodyStaysUnwatched' /\ EndIsShown'
    BY <1>1, <1>5 DEF ShellsInv, ShellsTyped, Born, NobodyStaysUnwatched, EndIsShown
  <1>9. KillsFit'
    BY <1>1, <1>2, <1>5, <1>7, OneKills
  <1>10. NoStrayProcess'
    <2>1. killer[k].target \in LocalIds /\ process'[killer[k].target] = "alive"
            => killer[k].target \in r.failed
      BY <1>1, <1>2, <1>5, <1>6, ShellsAssumption DEF Fits
    <2>2. QED
      BY <1>1, <1>5, <2>1, NoneStrays
  <1>11. QED
    BY <1>8, <1>9, <1>10 DEF ShellsInv

LEMMA WaitsKeep ==
    ASSUME ShellsInv, NEW k \in Killers, SeeExit(k) \/ StopTimesOut(k)
    PROVE  ShellsInv'
  <1> DEFINE s == killer[k].target
  <1>1. /\ killer[k].stage = "wait" /\ killer[k].stage \in KillBusy
        /\ UNCHANGED <<shellState, monitor, unlisted, mapped, holder>>
    BY DEF SeeExit, StopTimesOut, ofProcess, threads, inMap, KillBusy
  <1>2. killer[k] \in KillRecord /\ Fits(k, killer[k]) /\ holder = k
    BY <1>1, KillFacts
  <1>3. s \in LocalIds /\ process[s] # "none" /\ shellState[s] # "running"
    BY <1>1, <1>2 DEF Fits, Stopping
  <1>4. \/ UNCHANGED <<process, child>>
        \/ child[s] /\ process[s] = "exited" /\ Reap(s)
    BY DEF SeeExit, StopTimesOut, ofProcess
  <1>5. PICK r \in KillRecord :
          /\ killer' = [killer EXCEPT ![k] = r]
          /\ r.stage = "stopped" /\ r.target = s /\ r.todo = killer[k].todo /\ r.all = killer[k].all
          /\ killer[k].ended \subseteq r.ended /\ killer[k].failed \subseteq r.failed
          /\ s \in r.ended \cup r.failed
          /\ r.ended \subseteq killer[k].ended \cup {s}
          /\ s \in r.ended => s \in killer[k].ended \/ (process'[s] = "reaped" /\ ~child'[s])
    <2>1. CASE SeeExit(k)
      <3>1. killer' = [killer EXCEPT ![k].stage = "stopped", ![k].ended = @ \cup {s}]
        BY <2>1 DEF SeeExit
      <3>2. process'[s] = "reaped" /\ ~child'[s]
        BY <1>3, <2>1 DEF SeeExit, Reap, ShellsInv, ShellsTyped, NobodyStaysUnwatched
      <3> DEFINE w == [killer[k] EXCEPT !.stage = "stopped", !.ended = @ \cup {s}]
      <3>3. killer' = [killer EXCEPT ![k] = w]
        BY <3>1 DEF ShellsInv, ShellsTyped
      <3>4. w \in KillRecord
        BY <1>2, <1>3 DEF KillRecord, KillBusy
      <3>5. /\ w.stage = "stopped" /\ w.target = s /\ w.todo = killer[k].todo /\ w.all = killer[k].all
            /\ w.ended = killer[k].ended \cup {s} /\ w.failed = killer[k].failed
        BY <1>2 DEF KillRecord
      <3> HIDE DEF w, s
      <3>6. QED
        BY <3>2, <3>3, <3>4, <3>5
    <2>2. CASE StopTimesOut(k)
      <3>1. killer' = [killer EXCEPT ![k].stage = "stopped", ![k].failed = @ \cup {s}]
        BY <2>2 DEF StopTimesOut
      <3> DEFINE w == [killer[k] EXCEPT !.stage = "stopped", !.failed = @ \cup {s}]
      <3>2. killer' = [killer EXCEPT ![k] = w]
        BY <3>1 DEF ShellsInv, ShellsTyped
      <3>3. w \in KillRecord
        BY <1>2, <1>3 DEF KillRecord, KillBusy
      <3>4. /\ w.stage = "stopped" /\ w.target = s /\ w.todo = killer[k].todo /\ w.all = killer[k].all
            /\ w.failed = killer[k].failed \cup {s} /\ w.ended = killer[k].ended
        BY <1>2 DEF KillRecord
      <3> HIDE DEF w, s
      <3>5. QED
        BY <3>2, <3>3, <3>4
    <2>3. QED
      BY <2>1, <2>2
  <1>6. \A t \in LocalIds :
          /\ process[t] = "reaped" /\ ~child[t] => process'[t] = "reaped" /\ ~child'[t]
          /\ process[t] # "none" => process'[t] # "none"
          /\ process'[t] = "alive" => process[t] = "alive"
    BY <1>3, <1>4 DEF Reap, ShellsInv, ShellsTyped
  <1>7. Fits(k, r)'
    <2>1. \A t \in r.todo : t \in LocalIds /\ process'[t] # "none"
      BY <1>1, <1>2, <1>5, <1>6 DEF Fits, KillRecord
    <2>2. \A t \in r.ended : process'[t] = "reaped" /\ ~child'[t]
      BY <1>2, <1>5, <1>6 DEF Fits, KillRecord
    <2>3. r.all => mapped \subseteq r.todo \cup r.ended \cup r.failed \cup {r.target}
      BY <1>1, <1>2, <1>5 DEF Fits
    <2>4. r.target \in LocalIds /\ process'[r.target] # "none" /\ shellState'[r.target] # "running"
      <3>1. r.target = s /\ s \in LocalIds /\ process[s] # "none" /\ shellState[s] # "running"
        BY <1>3, <1>5
      <3>2. shellState' = shellState
        BY <1>1
      <3> HIDE DEF s
      <3>3. QED
        BY <1>6, <3>1, <3>2
    <2>5. holder' = k /\ mapped' = mapped
      BY <1>1, <1>2
    <2>6. r.stage = "stopped" /\ r.target \in r.ended \cup r.failed
      <3> HIDE DEF s
      <3>1. QED
        BY <1>5
    <2>7. QED
      BY <2>1, <2>2, <2>3, <2>4, <2>5, <2>6 DEF Fits, KillBusy, Stopping
  <1>8. ShellsTyped'
    <2>1. killer' \in [Killers -> KillRecord \cup {NoKill}]
      BY <1>5 DEF ShellsInv, ShellsTyped
    <2>2. /\ process' \in [LocalIds -> {"none", "alive", "exited", "reaped"}]
          /\ child' \in [LocalIds -> BOOLEAN]
      <3>1. s \in LocalIds
        BY <1>3
      <3> HIDE DEF s
      <3>2. QED
        BY <1>4, <3>1 DEF ShellsInv, ShellsTyped, Reap
    <2>3. QED
      BY <1>1, <2>1, <2>2 DEF ShellsInv, ShellsTyped
  <1>9. Born' /\ NobodyStaysUnwatched' /\ EndIsShown'
    <2>1. CASE UNCHANGED <<process, child>>
      BY <1>1, <2>1 DEF ShellsInv, Born, NobodyStaysUnwatched, EndIsShown
    <2>2. CASE child[s] /\ process[s] = "exited" /\ Reap(s)
      BY <1>1, <1>3, <2>2 DEF ShellsInv, ShellsTyped, Born, NobodyStaysUnwatched, EndIsShown, Reap
    <2>3. QED
      BY <1>4, <2>1, <2>2
  <1>10. KillsFit'
    BY <1>2, <1>5, <1>6, <1>7, OneKills
  <1>11. NoStrayProcess'
    BY <1>1, <1>2, <1>5, <1>6, NoneStrays
  <1>12. QED
    BY <1>8, <1>9, <1>10, <1>11 DEF ShellsInv

LEMMA FinishKeeps ==
    ASSUME ShellsInv, NEW k \in Killers, FinishKill(k)
    PROVE  ShellsInv'
  <1>1. /\ killer[k].stage = "stopped" /\ killer[k].stage \in KillBusy
        /\ UNCHANGED <<process, child, shellState, monitor, unlisted>>
    BY DEF FinishKill, ofProcess, threads, KillBusy
  <1>2. killer[k] \in KillRecord /\ Fits(k, killer[k]) /\ holder = k
    BY <1>1, KillFacts
  <1>3. PICK r \in KillRecord :
          /\ killer' = [killer EXCEPT ![k] = r]
          /\ r.target = killer[k].target /\ r.todo = killer[k].todo /\ r.all = killer[k].all
          /\ r.ended = killer[k].ended /\ r.failed = killer[k].failed
          /\ \/ r.stage = "locked" /\ UNCHANGED <<mapped, holder>>
             \/ /\ r.stage = "done" /\ holder' = NoOne
                /\ mapped' = mapped \/ (r.all /\ r.todo = {} /\ mapped' = {})
    <2>1. PICK stage \in {"locked", "done"} :
            /\ killer' = [killer EXCEPT ![k].stage = stage]
            /\ \/ stage = "locked" /\ UNCHANGED <<mapped, holder>>
               \/ /\ stage = "done" /\ holder' = NoOne
                  /\ mapped' = mapped \/ (killer[k].all /\ killer[k].todo = {} /\ mapped' = {})
      BY DEF FinishKill, KillStep
    <2> DEFINE w == [killer[k] EXCEPT !.stage = stage]
    <2>2. killer' = [killer EXCEPT ![k] = w]
      BY <2>1 DEF ShellsInv, ShellsTyped
    <2>3. w \in KillRecord
      BY <1>2 DEF KillRecord, KillBusy
    <2>4. /\ w.stage = stage /\ w.target = killer[k].target /\ w.todo = killer[k].todo
          /\ w.all = killer[k].all /\ w.ended = killer[k].ended /\ w.failed = killer[k].failed
      BY <1>2 DEF KillRecord
    <2> HIDE DEF w
    <2>5. QED
      BY <2>1, <2>2, <2>3, <2>4
  <1>4. r.target \in r.ended \cup r.failed
    BY <1>1, <1>2, <1>3 DEF Fits
  <1>5. \A t \in r.ended : process[t] = "reaped" /\ ~child[t]
    BY <1>2, <1>3 DEF Fits
  <1>6. Fits(k, r)'
    BY <1>1, <1>2, <1>3, <1>4, <1>5 DEF Fits, KillBusy, Stopping
  <1>7. ShellsTyped' /\ Born' /\ NobodyStaysUnwatched' /\ EndIsShown'
    BY <1>1, <1>3 DEF ShellsInv, ShellsTyped, Born, NobodyStaysUnwatched, EndIsShown
  <1>8. KillsFit'
    BY <1>1, <1>2, <1>3, <1>6, OneKills
  <1>9. NoStrayProcess'
    <2>1. \A t \in mapped \ mapped' : process'[t] = "alive" => t \in r.failed
      <3>1. ASSUME NEW t \in mapped \ mapped', process'[t] = "alive" PROVE t \in r.failed
        <4>1. r.all /\ r.todo = {}
          BY <1>3, <3>1
        <4>2. t \in r.ended \cup r.failed
          BY <1>1, <1>2, <1>3, <1>4, <3>1, <4>1 DEF Fits
        <4>3. QED
          BY <1>1, <1>5, <3>1, <4>2
      <3>2. QED
        BY <3>1
    <2>2. mapped' \in SUBSET mapped
      BY <1>3
    <2>3. process'[killer[k].target] = "alive" => killer[k].target \in r.failed
      BY <1>1, <1>3, <1>4, <1>5
    <2>4. QED
      BY <1>1, <1>3, <2>1, <2>2, <2>3, NoneStrays
  <1>10. QED
    BY <1>7, <1>8, <1>9 DEF ShellsInv

-----------------------------------------------------------------------------

LEMMA ShellsInvStep == ASSUME ShellsInv, [ShellsNext]_shellVars PROVE ShellsInv'
  <1>1. CASE UNCHANGED shellVars
    BY <1>1 DEF shellVars, ShellsInv, ShellsTyped, Born, KillsFit, Fits, NobodyStaysUnwatched, EndIsShown,
                NoStrayProcess
  <1>2. ASSUME NEW s \in LocalIds,
               StartShell(s) \/ \E l \in Launches : Launch(s, l)
        PROVE  ShellsInv'
    BY <1>2, SpawnKeeps DEF StartShell, Launch
  <1>3. CASE ShellsNext
    BY <1>2, <1>3, SessionKeeps, BeginningsKeep, StopsKeep, NextKeeps, WaitsKeep, FinishKeeps
       DEF ShellsNext
  <1>4. QED
    BY <1>1, <1>3

LEMMA InvEndsCleanly == ASSUME ShellsInv PROVE ShellsEndCleanly
  <1>1. ASSUME NEW k \in Killers, NEW s \in killer[k].ended
        PROVE  process[s] = "reaped" /\ ~child[s]
    <2>1. killer[k] # NoKill
      BY DEF NoKill
    <2>2. QED
      BY <2>1 DEF ShellsInv, KillsFit, Fits
  <1>2. QED
    BY <1>1 DEF ShellsEndCleanly, KilledIsGone, ShellsInv

\* However kills, exits and the threads of a session meet: no process is left as a zombie or
\* out of sight, and a kill that reports success is one.
THEOREM EndedCleanly == ShellsSpec => []ShellsEndCleanly
  <1>1. ShellsInit => ShellsInv
    BY ShellsInvInit
  <1>2. ShellsInv /\ [ShellsNext]_shellVars => ShellsInv'
    BY ShellsInvStep
  <1>3. ShellsInv => ShellsEndCleanly
    BY InvEndsCleanly
  <1>4. QED
    BY <1>1, <1>2, <1>3, PTL DEF ShellsSpec

\* What ShellsInv leaves out: the terminal, its reader, and that a session is either on its way
\* into the map or in it.
TerminalFits ==
    /\ tty \in [LocalIds -> BOOLEAN] /\ reader \in [LocalIds -> {"off", "reading", "marking", "ended"}]
    /\ \A s \in LocalIds : process[s] = "none" => ~tty[s]
    /\ unlisted \cap mapped = {}

LEMMA TerminalFitsStep ==
    ASSUME ShellsInv, TerminalFits, [ShellsNext]_shellVars PROVE TerminalFits'
  <1>1. ShellsTyped /\ Born
    BY DEF ShellsInv
  <1>2. CASE UNCHANGED shellVars
    BY <1>2 DEF shellVars, TerminalFits
  <1>3. ASSUME NEW s \in LocalIds, NEW what, SpawnProcess(s, what) PROVE TerminalFits'
    <2>1. s \notin mapped
      BY <1>1, <1>3 DEF Born, SpawnProcess
    <2>2. unlisted' \cap mapped' = {}
      BY <1>3, <2>1 DEF TerminalFits, SpawnProcess
    <2>3. /\ tty' = [tty EXCEPT ![s] = TRUE] /\ reader' = [reader EXCEPT ![s] = "reading"]
          /\ process' = [process EXCEPT ![s] = "alive"]
      BY <1>3 DEF SpawnProcess
    <2>4. QED
      BY <1>1, <2>2, <2>3 DEF TerminalFits, ShellsTyped
  <1>4. ASSUME NEW s \in LocalIds,
               \/ Register(s) \/ ProcessExits(s) \/ CloseTty(s) \/ MonitorPoll(s) \/ MonitorMark(s)
               \/ ReaderEnds(s) \/ ReaderMark(s)
        PROVE  TerminalFits'
    <2>1. CASE Register(s)
      BY <2>1 DEF TerminalFits, Register, ofProcess, threads
    <2>2. CASE ProcessExits(s)
      <3>1. PICK kept \in BOOLEAN : tty' = [tty EXCEPT ![s] = tty[s] /\ kept]
        BY <2>2 DEF ProcessExits
      <3>2. /\ process' = [process EXCEPT ![s] = "exited"]
            /\ UNCHANGED <<reader, unlisted, mapped>>
        BY <2>2 DEF ProcessExits, threads, inMap
      <3>3. PICK open \in BOOLEAN : (open => tty[s]) /\ tty' = [tty EXCEPT ![s] = open]
        BY <3>1 DEF TerminalFits
      <3>4. QED
        BY <1>1, <3>2, <3>3 DEF TerminalFits, ShellsTyped
    <2>3. CASE CloseTty(s)
      BY <2>3 DEF TerminalFits, CloseTty, threads, inMap
    <2>4. CASE MonitorPoll(s)
      <3>1. process' = process \/ (process' = [process EXCEPT ![s] = "reaped"] /\ process[s] = "exited")
        BY <2>4 DEF MonitorPoll, Reap
      <3>2. UNCHANGED <<tty, reader, unlisted, mapped>>
        BY <2>4 DEF MonitorPoll, inMap
      <3>3. QED
        BY <1>1, <3>1, <3>2 DEF TerminalFits, ShellsTyped
    <2>5. CASE MonitorMark(s)
      BY <2>5 DEF TerminalFits, MonitorMark, ofProcess, inMap
    <2>6. CASE ReaderEnds(s)
      BY <2>6 DEF TerminalFits, ReaderEnds, ofProcess, inMap
    <2>7. CASE ReaderMark(s)
      BY <2>7 DEF TerminalFits, ReaderMark, ofProcess, inMap
    <2>8. QED
      BY <1>4, <2>1, <2>2, <2>3, <2>4, <2>5, <2>6, <2>7
  <1>5. ASSUME NEW k \in Killers,
               \/ KillAll(k) \/ (\E s \in LocalIds : KillLocal(k, s)) \/ NextOfAll(k) \/ SetFlag(k)
               \/ SetStopped(k) \/ KillChild(k) \/ SeeExit(k) \/ StopTimesOut(k) \/ FinishKill(k)
        PROVE  TerminalFits'
    <2>1. UNCHANGED <<tty, reader, unlisted>> /\ mapped' \subseteq mapped
      BY <1>5 DEF KillAll, KillLocal, NextOfAll, SetFlag, SetStopped, KillChild, SeeExit, StopTimesOut,
                  FinishKill, ofProcess, threads, inMap
    <2>2. \/ process' = process
          \/ /\ process' = [process EXCEPT ![killer[k].target] = "reaped"]
             /\ process[killer[k].target] = "exited"
      BY <1>5 DEF KillAll, KillLocal, NextOfAll, SetFlag, SetStopped, KillChild, SeeExit, StopTimesOut,
                  FinishKill, Reap, ofProcess
    <2>3. ASSUME NEW s \in LocalIds, process'[s] = "none" PROVE process[s] = "none"
      BY <1>1, <2>2, <2>3 DEF ShellsTyped
    <2>4. QED
      BY <2>1, <2>3 DEF TerminalFits
  <1>6. CASE ShellsNext
    BY <1>3, <1>4, <1>5, <1>6 DEF ShellsNext, StartShell, Launch
  <1>7. QED
    BY <1>2, <1>6

LEMMA ShellsTypeFact == ASSUME ShellsInv, TerminalFits PROVE ShellTypeOK
  <1>1. ASSUME NEW k \in Killers,
               killer[k].stage \in {"locked", "flag", "state", "kill", "close", "wait", "stopped"}
        PROVE  holder = k
    <2>1. killer[k] \in KillRecord
      BY <1>1 DEF ShellsInv, ShellsTyped, NoKill
    <2>2. killer[k].stage \in KillBusy /\ killer[k] # NoKill
      BY <1>1, <2>1 DEF KillRecord, NoKill, KillBusy
    <2>3. QED
      BY <2>2 DEF ShellsInv, KillsFit, Fits
  <1>2. QED
    BY <1>1 DEF ShellsInv, ShellsTyped, Born, TerminalFits, ShellTypeOK

\* Local shells: every reachable state has its types. A session is on its way into the map or in
\* it, never both, and one kill at a time holds the lock.
THEOREM ShellTypes == ShellsSpec => []ShellTypeOK
  <1>1. ShellsInit => ShellsInv
    BY ShellsInvInit
  <1>2. ShellsInv /\ [ShellsNext]_shellVars => ShellsInv'
    BY ShellsInvStep
  <1>3. ShellsInit => TerminalFits
    BY DEF ShellsInit, TerminalFits
  <1>4. ShellsInv /\ TerminalFits /\ [ShellsNext]_shellVars => TerminalFits'
    BY TerminalFitsStep
  <1>5. ShellsInv /\ TerminalFits => ShellTypeOK
    BY ShellsTypeFact
  <1>6. QED
    BY <1>1, <1>2, <1>3, <1>4, <1>5, PTL DEF ShellsSpec

-----------------------------------------------------------------------------
(* FileTabs. *)

\* A window is locked while the tab is on its way out of it.
TabLocks ==
    /\ phase \in {"waiting", "opening", "hydrated"} => locked["main"]
    /\ phase \in {"merging", "dropping", "accepted"} => locked["detached"]

\* A request to return the tab counts only while its window, the last one, waits for the answer.
DropsFit ==
    /\ phase = "waiting" => label < MaxHandoffs
    /\ phase \in {"opening", "hydrated", "detached", "merging", "dropping"} => label > 0
    /\ drop # Nothing =>
         /\ drop.label <= label
         /\ phase \in {"opening", "hydrated"} => drop.label < label
         /\ phase \in {"detached", "merging"} /\ drop.label = label => drop.expired

\* Which window may have a read or a save in flight.
InFlight ==
    /\ ~tab => memory["main"] = Nothing /\ loading["main"] = NoLoad
    /\ Owned => loading["main"] = NoLoad
    /\ phase \in {"main", "waiting", "opening", "hydrated", "orphan"} => loading["detached"] = NoLoad
    /\ phase \in {"dropping", "accepted"} => loading["detached"].at = Nothing \/ crossed
    /\ Owned \/ phase \in {"opening", "hydrated"} => saving["main"] = Nothing
    /\ phase \notin {"detached", "merging"} => saving["detached"] = Nothing
    /\ phase = "orphan" => crossed

\* Every copy from which an editor may take its text is the recovery copy.
Unsaved == edit # Nothing /\ ~crossed
Carried ==
    Unsaved =>
      /\ Dirty(stored) /\ stored.text = edit
      /\ \A w \in Views : loading[w].at = Nothing
      /\ tab /\ ~Owned => memory["main"] = stored
      /\ phase \in {"hydrated", "detached", "merging", "dropping"} => memory["detached"] = stored
      /\ phase = "opening" => handoff = stored
      /\ phase = "dropping" /\ drop # Nothing => drop.snapshot = stored

TabsInv == TabsTypeOK /\ TabLocks /\ DropsFit /\ InFlight /\ Carried

LEMMA ViewsFact == "main" \in Views /\ "detached" \in Views /\ \A w \in Views : w = "main" \/ w = "detached"
  BY DEF Views

LEMMA BufferFact ==
    /\ \A x, y \in Texts \cup {Partial} : [text |-> x, saved |-> y] \in Buffers
    /\ \A b \in Buffers :
         /\ b.text \in Texts \cup {Partial} /\ b.saved \in Texts \cup {Partial}
         /\ \A x \in Texts \cup {Partial} : /\ [b EXCEPT !.text = x] \in Buffers
                                            /\ [b EXCEPT !.text = x].text = x
                                            /\ [b EXCEPT !.text = x].saved = b.saved
                                            /\ [b EXCEPT !.saved = x] \in Buffers
                                            /\ [b EXCEPT !.saved = x].saved = x
                                            /\ [b EXCEPT !.saved = x].text = b.text
  BY DEF Buffers

\* What becomes of a window's reads.
LEMMA ReadsFact ==
    /\ NoLoad \in Loads /\ OneLoad \in Loads /\ NoLoad.at = Nothing
    /\ \A l \in Loads :
         /\ l.at \in Texts \cup {Partial, Nothing, "asked"} /\ l.older \in 0..MaxLoads
         /\ \A x \in Texts \cup {Partial} : [l EXCEPT !.at = x] \in Loads
         /\ [l EXCEPT !.at = Nothing, !.busy = FALSE] \in Loads
         /\ [l EXCEPT !.at = Nothing, !.busy = FALSE].at = Nothing
         /\ [l EXCEPT !.at = Nothing, !.busy = FALSE, !.error = TRUE] \in Loads
         /\ [l EXCEPT !.at = Nothing, !.busy = FALSE, !.error = TRUE].at = Nothing
         /\ l.older > 0 => [l EXCEPT !.older = @ - 1, !.busy = FALSE] \in Loads
         /\ [l EXCEPT !.older = @ - 1, !.busy = FALSE].at = l.at
         /\ \A n \in {0, 1} : l.older + n <= MaxLoads =>
              [at |-> "asked", busy |-> TRUE, error |-> FALSE, older |-> l.older + n] \in Loads
  <1>1. NoLoad \in Loads /\ OneLoad \in Loads /\ NoLoad.at = Nothing
    BY TabsAssumption DEF NoLoad, OneLoad, Loads
  <1>2. SUFFICES ASSUME NEW l \in Loads
                 PROVE  /\ l.at \in Texts \cup {Partial, Nothing, "asked"} /\ l.older \in 0..MaxLoads
                        /\ \A x \in Texts \cup {Partial} : [l EXCEPT !.at = x] \in Loads
                        /\ [l EXCEPT !.at = Nothing, !.busy = FALSE] \in Loads
                        /\ [l EXCEPT !.at = Nothing, !.busy = FALSE].at = Nothing
                        /\ [l EXCEPT !.at = Nothing, !.busy = FALSE, !.error = TRUE] \in Loads
                        /\ [l EXCEPT !.at = Nothing, !.busy = FALSE, !.error = TRUE].at = Nothing
                        /\ l.older > 0 => [l EXCEPT !.older = @ - 1, !.busy = FALSE] \in Loads
                        /\ [l EXCEPT !.older = @ - 1, !.busy = FALSE].at = l.at
                        /\ \A n \in {0, 1} : l.older + n <= MaxLoads =>
                             [at |-> "asked", busy |-> TRUE, error |-> FALSE, older |-> l.older + n] \in Loads
    BY <1>1
  <1>3. l.at \in Texts \cup {Partial, Nothing, "asked"} /\ l.older \in 0..MaxLoads
    BY DEF Loads
  <1>4. \A x \in Texts \cup {Partial} : [l EXCEPT !.at = x] \in Loads
    BY DEF Loads
  <1>5. /\ [l EXCEPT !.at = Nothing, !.busy = FALSE] \in Loads
        /\ [l EXCEPT !.at = Nothing, !.busy = FALSE].at = Nothing
    BY DEF Loads
  <1>6. /\ [l EXCEPT !.at = Nothing, !.busy = FALSE, !.error = TRUE] \in Loads
        /\ [l EXCEPT !.at = Nothing, !.busy = FALSE, !.error = TRUE].at = Nothing
    BY DEF Loads
  <1>7. l.older > 0 => l.older - 1 \in 0..MaxLoads
    BY <1>3, TabsAssumption
  <1>8. [l EXCEPT !.older = @ - 1, !.busy = FALSE] = [l EXCEPT !.older = l.older - 1, !.busy = FALSE]
    BY DEF Loads
  <1>9. /\ l.older > 0 => [l EXCEPT !.older = @ - 1, !.busy = FALSE] \in Loads
        /\ [l EXCEPT !.older = @ - 1, !.busy = FALSE].at = l.at
    BY <1>7, <1>8 DEF Loads
  <1>10. \A n \in {0, 1} : l.older + n <= MaxLoads =>
           [at |-> "asked", busy |-> TRUE, error |-> FALSE, older |-> l.older + n] \in Loads
    BY <1>3, TabsAssumption DEF Loads
  <1>11. QED
    BY <1>3, <1>4, <1>5, <1>6, <1>9, <1>10

LEMMA TabsInitially == ASSUME TabsInit PROVE TabsInv
  <1>1. disk \in Texts
    <2>1. PICK t \in Texts : TRUE
      BY TabsAssumption
    <2>2. (CHOOSE x \in Texts : TRUE) \in Texts
      BY <2>1
    <2>3. QED
      BY <2>2 DEF TabsInit
  <1>2. TabsTypeOK
    <2>1. /\ memory \in [Views -> Buffers \cup {Nothing}] /\ locked \in [Views -> BOOLEAN]
          /\ saving \in [Views -> Saves \cup {Nothing}]
          /\ loading \in [Views -> Loads]
      BY ReadsFact DEF TabsInit
    <2>2. local \in BOOLEAN /\ tab \in BOOLEAN /\ crossed \in BOOLEAN /\ phase \in Phases
      BY DEF TabsInit, Phases
    <2>3. label \in 0..MaxHandoffs /\ typed \in 0..MaxTyped /\ saves \in 0..MaxSaves
      BY TabsAssumption DEF TabsInit
    <2>4. QED
      BY <1>1, <2>1, <2>2, <2>3 DEF TabsInit, TabsTypeOK
  <1>3. TabLocks /\ DropsFit
    BY DEF TabsInit, TabLocks, DropsFit
  <1>4. InFlight /\ Carried
    BY ReadsFact DEF TabsInit, InFlight, Carried, Unsaved, Owned, Views
  <1>5. QED
    BY <1>2, <1>3, <1>4 DEF TabsInv

-----------------------------------------------------------------------------

\* The main window opens and closes the tab.
LEMMA OpenKeeps ==
    ASSUME TabsInv, OpenFile \/ CloseTab PROVE TabsInv'
  <1>1. CASE OpenFile
    <2>1. TabsTypeOK'
      BY <1>1, ViewsFact, ReadsFact, TabsAssumption DEF OpenFile, Mount, Found, TabsInv, TabsTypeOK, TabLocks, DropsFit, InFlight, Carried, Unsaved, Owned, Dirty
    <2>2. TabLocks'
      BY <1>1, ViewsFact, ReadsFact, TabsAssumption DEF OpenFile, Mount, Found, TabsInv, TabsTypeOK, TabLocks, DropsFit, InFlight, Carried, Unsaved, Owned, Dirty
    <2>3. DropsFit'
      BY <1>1, ViewsFact, ReadsFact, TabsAssumption DEF OpenFile, Mount, Found, TabsInv, TabsTypeOK, TabLocks, DropsFit, InFlight, Carried, Unsaved, Owned, Dirty
    <2>4. InFlight'
      BY <1>1, ViewsFact, ReadsFact, TabsAssumption DEF OpenFile, Mount, Found, TabsInv, TabsTypeOK, TabLocks, DropsFit, InFlight, Carried, Unsaved, Owned, Dirty
    <2>5. Carried'
      BY <1>1, ViewsFact, ReadsFact, TabsAssumption DEF OpenFile, Mount, Found, TabsInv, TabsTypeOK, TabLocks, DropsFit, InFlight, Carried, Unsaved, Owned, Dirty
    <2>6. QED
      BY <2>1, <2>2, <2>3, <2>4, <2>5 DEF TabsInv
  <1>2. CASE CloseTab
    <2>1. TabsTypeOK'
      BY <1>2, ViewsFact, ReadsFact DEF CloseTab, TabsInv, TabsTypeOK, TabLocks, DropsFit, InFlight, Carried, Unsaved, Owned, Dirty
    <2>2. TabLocks'
      BY <1>2, ViewsFact, ReadsFact DEF CloseTab, TabsInv, TabsTypeOK, TabLocks, DropsFit, InFlight, Carried, Unsaved, Owned, Dirty
    <2>3. DropsFit'
      BY <1>2, ViewsFact, ReadsFact DEF CloseTab, TabsInv, TabsTypeOK, TabLocks, DropsFit, InFlight, Carried, Unsaved, Owned, Dirty
    <2>4. InFlight'
      BY <1>2, ViewsFact, ReadsFact DEF CloseTab, TabsInv, TabsTypeOK, TabLocks, DropsFit, InFlight, Carried, Unsaved, Owned, Dirty
    <2>5. Carried'
      BY <1>2, ViewsFact, ReadsFact DEF CloseTab, TabsInv, TabsTypeOK, TabLocks, DropsFit, InFlight, Carried, Unsaved, Owned, Dirty
    <2>6. QED
      BY <2>1, <2>2, <2>3, <2>4, <2>5 DEF TabsInv
  <1>3. QED
    BY <1>1, <1>2

\* One window's reads change, and nobody has typed under the one that counts.
LEMMA LoadsKeep ==
    ASSUME TabsInv, NEW w \in Views, NEW l \in Loads, loading' = [loading EXCEPT ![w] = l],
           w = "main" => tab /\ ~Owned,
           w = "detached" => phase \in {"detached", "merging", "dropping", "accepted"},
           l.at = Nothing \/ edit' = Nothing \/ loading[w].at # Nothing,
           l.at = Nothing \/ loading[w].at # Nothing \/ phase \notin {"dropping", "accepted"} \/ w = "main",
           edit' \in {edit, Nothing},
           UNCHANGED <<local, disk, stored, memory, tab, phase, locked, saving, handoff, drop, label,
                       typed, saves, crossed>>
    PROVE  TabsInv'
  <1>1. TabsTypeOK' /\ TabLocks' /\ DropsFit'
    BY DEF TabsInv, TabsTypeOK, TabLocks, DropsFit
  <1>2. loading'[w] = l /\ \A v \in Views \ {w} : loading'[v] = loading[v]
    BY DEF TabsInv, TabsTypeOK
  <1>3. InFlight'
    BY <1>2, ViewsFact DEF TabsInv, InFlight, Owned
  <1>4. Carried'
    BY <1>2, ViewsFact DEF TabsInv, Carried, Unsaved, Owned, Dirty
  <1>5. QED
    BY <1>1, <1>3, <1>4 DEF TabsInv

\* A window with a read in flight shows the tab.
LEMMA ReadsShown ==
    ASSUME TabsInv, NEW w \in Views, loading[w] # NoLoad
    PROVE  /\ w = "main" => tab /\ ~Owned
           /\ w = "detached" => phase \in {"detached", "merging", "dropping", "accepted"}
  BY ViewsFact DEF TabsInv, TabsTypeOK, InFlight, Owned, Phases

\* The file is read.
LEMMA ReadKeeps ==
    ASSUME TabsInv, NEW w \in Views, Reload(w) \/ ReadFile(w) \/ FailLoad(w) \/ SupersededEnds(w)
    PROVE  TabsInv'
  <1>0. loading \in [Views -> Loads] /\ loading[w] \in Loads /\ disk \in Texts \cup {Partial}
    BY DEF TabsInv, TabsTypeOK
  <1> DEFINE old == loading[w]
  <1>1. CASE Reload(w)
    <2> DEFINE l == [at |-> "asked", busy |-> TRUE, error |-> FALSE, older |-> old.older + Superseded(w)]
    <2>1. l \in Loads
      BY <1>0, <1>1, ReadsFact DEF Reload, Superseded
    <2>2. loading' = [loading EXCEPT ![w] = l] /\ edit' = Nothing
      BY <1>1 DEF Reload
    <2>3. /\ w = "main" => tab /\ ~Owned
          /\ w = "detached" => phase = "detached"
      BY <1>1, ViewsFact DEF Reload, Editable, Mounted, Owned, TabsInv, TabLocks
    <2> HIDE DEF l
    <2>4. QED
      BY <1>1, <2>1, <2>2, <2>3, ViewsFact, LoadsKeep DEF Reload
  <1>2. CASE ReadFile(w)
    <2> DEFINE l == [old EXCEPT !.at = disk]
    <2>1. l \in Loads /\ loading' = [loading EXCEPT ![w] = l] /\ old.at # Nothing
      BY <1>0, <1>2, ReadsFact, TabsAssumption DEF ReadFile
    <2>2. old # NoLoad
      BY <2>1 DEF NoLoad
    <2> HIDE DEF l
    <2>3. QED
      BY <1>2, <2>1, <2>2, ReadsShown, LoadsKeep DEF ReadFile
  <1>3. CASE FailLoad(w)
    <2> DEFINE l == [old EXCEPT !.at = Nothing, !.busy = FALSE, !.error = TRUE]
    <2>1. l \in Loads /\ l.at = Nothing
      BY <1>0, ReadsFact
    <2>2. loading' = [loading EXCEPT ![w] = l] /\ old.at # Nothing
      BY <1>3 DEF FailLoad
    <2>3. old # NoLoad
      BY <2>2 DEF NoLoad
    <2> HIDE DEF l
    <2>4. QED
      BY <1>3, <2>1, <2>2, <2>3, ReadsShown, LoadsKeep DEF FailLoad
  <1>4. CASE SupersededEnds(w)
    <2> DEFINE l == [old EXCEPT !.older = @ - 1, !.busy = FALSE]
    <2>1. l \in Loads /\ l.at = old.at
      BY <1>0, <1>4, ReadsFact DEF SupersededEnds
    <2>2. loading' = [loading EXCEPT ![w] = l] /\ old.older > 0
      BY <1>4 DEF SupersededEnds
    <2>3. old # NoLoad
      BY <2>2 DEF NoLoad
    <2> HIDE DEF l
    <2>4. QED
      BY <1>4, <2>1, <2>2, <2>3, ReadsShown, LoadsKeep DEF SupersededEnds
  <1>5. QED
    BY <1>1, <1>2, <1>3, <1>4

\* The answer of the read that counts replaces the buffer.
LEMMA AnswerKeeps ==
    ASSUME TabsInv, NEW w \in Views, FinishLoad(w) PROVE TabsInv'
  <1> DEFINE l == [loading[w] EXCEPT !.at = Nothing, !.busy = FALSE]
             b == [text |-> loading[w].at, saved |-> loading[w].at]
  <1>1. l \in Loads /\ l.at = Nothing
    BY ReadsFact DEF TabsInv, TabsTypeOK
  <1>2. loading[w].at \in Texts \cup {Partial}
    BY ReadsFact DEF FinishLoad, TabsInv, TabsTypeOK
  <1>3. b \in Buffers
    BY <1>2, BufferFact
  <1>4. loading' = [loading EXCEPT ![w] = l] /\ memory' = [memory EXCEPT ![w] = b]
    BY DEF FinishLoad
  <1>5. ~Unsaved /\ loading[w] # NoLoad
    BY DEF FinishLoad, TabsInv, Carried, NoLoad
  <1>6. ~Unsaved'
    BY <1>5 DEF FinishLoad, Unsaved
  <1> HIDE DEF l, b
  <1>7. TabLocks' /\ DropsFit'
    BY DEF FinishLoad, TabsInv, TabLocks, DropsFit
  <1>13. TabsTypeOK'
    <2>1. TabsTypeOK
      BY DEF TabsInv
    <2>2. loading' \in [Views -> Loads] /\ memory' \in [Views -> Buffers \cup {Nothing}]
      BY <1>1, <1>3, <1>4, <2>1 DEF TabsTypeOK
    <2>3. QED
      BY <2>1, <2>2 DEF FinishLoad, TabsTypeOK
  <1>8. \A v \in Views \ {w} : loading'[v] = loading[v] /\ memory'[v] = memory[v]
    BY <1>4 DEF TabsInv, TabsTypeOK
  <1>9. loading'[w] = l
    BY <1>4 DEF TabsInv, TabsTypeOK
  <1>10. InFlight'
    BY <1>1, <1>5, <1>8, <1>9, ReadsShown, ViewsFact DEF FinishLoad, TabsInv, InFlight, Owned
  <1>11. Carried'
    BY <1>6 DEF Carried
  <1>12. QED
    BY <1>7, <1>10, <1>11, <1>13 DEF TabsInv

\* The user types.
LEMMA TypeKeeps ==
    ASSUME TabsInv, NEW w \in Views, NEW t \in Texts, Type(w, t) PROVE TabsInv'
  <1>1. CASE Type(w, t)
    <2>1. TabsTypeOK'
      <3> DEFINE b == [text |-> t, saved |-> IF memory[w] = Nothing THEN Partial ELSE memory[w].saved]
      <3>1. memory[w] \in Buffers \cup {Nothing}
        BY DEF TabsInv, TabsTypeOK
      <3>2. b \in Buffers /\ b.text = t
        BY <3>1, BufferFact
      <3>3. memory' = [memory EXCEPT ![w] = b]
        BY <1>1 DEF Type
      <3> HIDE DEF b
      <3>4. memory' \in [Views -> Buffers \cup {Nothing}] /\ memory'[w] = b
        BY <3>2, <3>3 DEF TabsInv, TabsTypeOK
      <3>5. stored' \in Buffers \cup {Nothing} /\ edit' \in Texts \cup {Nothing}
        BY <1>1, <3>2, <3>4 DEF Type, RecoveryCopy
      <3>6. typed' \in 0..MaxTyped
        BY <1>1, TabsAssumption DEF Type, TabsInv, TabsTypeOK
      <3>7. QED
        BY <1>1, <3>4, <3>5, <3>6 DEF Type, TabsInv, TabsTypeOK
    <2>2. TabLocks'
      BY <1>1, ViewsFact, TabsAssumption, BufferFact DEF Type, Editable, Mounted, RecoveryCopy, TabsInv, TabsTypeOK, TabLocks, DropsFit, InFlight, Carried, Unsaved, Owned, Dirty
    <2>3. DropsFit'
      BY <1>1, ViewsFact, TabsAssumption, BufferFact DEF Type, Editable, Mounted, RecoveryCopy, TabsInv, TabsTypeOK, TabLocks, DropsFit, InFlight, Carried, Unsaved, Owned, Dirty
    <2>4. InFlight'
      BY <1>1, ViewsFact, TabsAssumption, BufferFact DEF Type, Editable, Mounted, RecoveryCopy, TabsInv, TabsTypeOK, TabLocks, DropsFit, InFlight, Carried, Unsaved, Owned, Dirty
    <2>5. Carried'
      <3> DEFINE b == [text |-> t, saved |-> IF memory[w] = Nothing THEN Partial ELSE memory[w].saved]
      <3>1. SUFFICES ASSUME Unsaved' PROVE Carried'
        BY DEF Carried
      <3>2. UNCHANGED <<phase, tab, loading, handoff, drop>> /\ memory' = [memory EXCEPT ![w] = b]
        BY <1>1 DEF Type
      <3>3. memory'[w] = b /\ \A v \in Views \ {w} : memory'[v] = memory[v]
        BY <3>2 DEF TabsInv, TabsTypeOK
      <3>4. b.text = t /\ b # Nothing
        <4>1. b \in Buffers
          BY BufferFact DEF TabsInv, TabsTypeOK
        <4>2. QED
          BY <4>1, TabsAssumption
      <3> HIDE DEF b
      <3>5. Dirty(b) /\ edit' = t /\ stored' = b /\ loading[w].at = Nothing /\ ~crossed'
        BY <1>1, <3>1, <3>3, <3>4 DEF Type, RecoveryCopy, Unsaved
      <3>6. \/ w = "main" /\ tab /\ phase \in {"main", "accepted"}
            \/ w = "detached" /\ phase = "detached"
        BY <1>1, ViewsFact DEF Type, Editable, Mounted, TabsInv, TabLocks
      <3>7. \A v \in Views : loading[v].at = Nothing
        <4>1. ~crossed
          BY <1>1, <3>5 DEF Type
        <4>2. QED
          BY <3>5, <3>6, <4>1, ViewsFact, ReadsFact DEF TabsInv, InFlight, Owned
      <3>8. QED
        BY <3>2, <3>3, <3>4, <3>5, <3>6, <3>7, ViewsFact DEF Carried, Owned
    <2>6. QED
      BY <2>1, <2>2, <2>3, <2>4, <2>5 DEF TabsInv
  <1>2. QED
    BY <1>1

\* The file is saved.
LEMMA SaveKeeps ==
    ASSUME TabsInv, NEW w \in Views, BeginSave(w) \/ WriteFile(w) \/ FinishSave(w) PROVE TabsInv'
  <1>1. CASE BeginSave(w)
    <2>1. TabsTypeOK'
      BY <1>1, ViewsFact, TabsAssumption, BufferFact DEF BeginSave, Editable, Mounted, Saves, TabsInv, TabsTypeOK, TabLocks, DropsFit, InFlight, Carried, Unsaved, Owned, Dirty
    <2>2. TabLocks'
      BY <1>1, ViewsFact, TabsAssumption, BufferFact DEF BeginSave, Editable, Mounted, Saves, TabsInv, TabsTypeOK, TabLocks, DropsFit, InFlight, Carried, Unsaved, Owned, Dirty
    <2>3. DropsFit'
      BY <1>1, ViewsFact, TabsAssumption, BufferFact DEF BeginSave, Editable, Mounted, Saves, TabsInv, TabsTypeOK, TabLocks, DropsFit, InFlight, Carried, Unsaved, Owned, Dirty
    <2>4. InFlight'
      BY <1>1, ViewsFact, TabsAssumption, BufferFact DEF BeginSave, Editable, Mounted, Saves, TabsInv, TabsTypeOK, TabLocks, DropsFit, InFlight, Carried, Unsaved, Owned, Dirty
    <2>5. Carried'
      BY <1>1, ViewsFact, TabsAssumption, BufferFact DEF BeginSave, Editable, Mounted, Saves, TabsInv, TabsTypeOK, TabLocks, DropsFit, InFlight, Carried, Unsaved, Owned, Dirty
    <2>6. QED
      BY <2>1, <2>2, <2>3, <2>4, <2>5 DEF TabsInv
  <1>2. CASE WriteFile(w)
    BY <1>2, ViewsFact DEF WriteFile, Saves, TabsInv, TabsTypeOK, TabLocks, DropsFit, InFlight, Carried, Unsaved, Owned, Dirty
  <1>3. CASE FinishSave(w)
    <2> DEFINE x == saving[w].text
               b == [memory[w] EXCEPT !.saved = x]
               Landed == saving[w].stage = "written" /\ memory[w] # Nothing
    <2>1. x \in Texts \cup {Partial} /\ saving' = [saving EXCEPT ![w] = Nothing]
      BY <1>3 DEF FinishSave, Saves, TabsInv, TabsTypeOK
    <2>2. CASE Landed
      <3>1. memory[w] \in Buffers
        BY <2>2 DEF TabsInv, TabsTypeOK
      <3>2. b \in Buffers /\ b.text = memory[w].text /\ b.saved = x
        BY <2>1, <3>1, BufferFact
      <3>3. memory' = [memory EXCEPT ![w] = b] /\ stored' = RecoveryCopy(memory'[w])
        BY <1>3, <2>2 DEF FinishSave
      <3>4. edit' = IF edit = x THEN Nothing ELSE edit
        BY <1>3, <2>2 DEF FinishSave
      <3> HIDE DEF b, x
      <3>5. memory' \in [Views -> Buffers \cup {Nothing}] /\ memory'[w] = b
        BY <3>2, <3>3 DEF TabsInv, TabsTypeOK
      <3>6. stored' = RecoveryCopy(b) /\ stored' \in Buffers \cup {Nothing}
        BY <3>2, <3>3, <3>5 DEF RecoveryCopy
      <3>7. TabsTypeOK'
        BY <1>3, <2>1, <3>4, <3>5, <3>6 DEF FinishSave, TabsInv, TabsTypeOK
      <3>8. TabLocks' /\ DropsFit' /\ InFlight'
        BY <1>3, <2>1, <2>2, <3>3, ViewsFact
        DEF FinishSave, TabsInv, TabsTypeOK, TabLocks, DropsFit, InFlight, Owned
      <3>9. Carried'
        <4>1. SUFFICES ASSUME Unsaved' PROVE Carried'
          BY DEF Carried
        <4>2. UNCHANGED <<phase, tab, loading, handoff, drop, crossed>>
          BY <1>3 DEF FinishSave
        <4>3. Unsaved /\ edit' = edit /\ edit # x
          BY <3>4, <4>1, <4>2 DEF Unsaved
        <4>4. \/ w = "main" /\ tab /\ phase \in {"main", "waiting", "accepted"}
              \/ w = "detached" /\ phase \in {"detached", "merging"}
          BY <1>3, <2>2, ViewsFact DEF FinishSave, TabsInv, TabsTypeOK, InFlight, Owned, Phases
        <4>5. Carried
          BY DEF TabsInv
        <4>6. memory[w] = stored /\ memory[w].text = edit
          BY <4>3, <4>4, <4>5 DEF Carried, Owned
        <4>7. stored' = b /\ Dirty(b) /\ b.text = edit
          BY <3>1, <3>2, <3>6, <4>3, <4>6, TabsAssumption DEF RecoveryCopy, Dirty
        <4>8. \A v \in Views \ {w} : memory'[v] = memory[v]
          BY <3>3 DEF TabsInv, TabsTypeOK
        <4>9. QED
          BY <3>5, <4>2, <4>3, <4>4, <4>5, <4>7, <4>8, ViewsFact DEF Carried, Owned, Dirty
      <3>10. QED
        BY <3>7, <3>8, <3>9 DEF TabsInv
    <2>3. CASE ~Landed
      <3>1. UNCHANGED <<memory, stored>> /\ (edit' = edit \/ edit' = Nothing)
        BY <1>3, <2>3 DEF FinishSave
      <3>2. QED
        BY <1>3, <2>1, <3>1, ViewsFact
        DEF FinishSave, TabsInv, TabsTypeOK, TabLocks, DropsFit, InFlight, Carried, Unsaved, Owned, Dirty
    <2>4. QED
      BY <2>2, <2>3
  <1>4. QED
    BY <1>1, <1>2, <1>3

\* Another program writes it.
LEMMA OthersKeep ==
    ASSUME TabsInv, NEW t \in Texts, OtherProgramWrites(t) PROVE TabsInv'
  <1>1. CASE OtherProgramWrites(t)
    <2>1. TabsTypeOK'
      BY <1>1, ViewsFact, TabsAssumption DEF OtherProgramWrites, TabsInv, TabsTypeOK, TabLocks, DropsFit, InFlight, Carried, Unsaved, Owned, Dirty
    <2>2. TabLocks'
      BY <1>1, ViewsFact, TabsAssumption DEF OtherProgramWrites, TabsInv, TabsTypeOK, TabLocks, DropsFit, InFlight, Carried, Unsaved, Owned, Dirty
    <2>3. DropsFit'
      BY <1>1, ViewsFact, TabsAssumption DEF OtherProgramWrites, TabsInv, TabsTypeOK, TabLocks, DropsFit, InFlight, Carried, Unsaved, Owned, Dirty
    <2>4. InFlight'
      BY <1>1, ViewsFact, TabsAssumption DEF OtherProgramWrites, TabsInv, TabsTypeOK, TabLocks, DropsFit, InFlight, Carried, Unsaved, Owned, Dirty
    <2>5. Carried'
      BY <1>1, ViewsFact, TabsAssumption DEF OtherProgramWrites, TabsInv, TabsTypeOK, TabLocks, DropsFit, InFlight, Carried, Unsaved, Owned, Dirty
    <2>6. QED
      BY <2>1, <2>2, <2>3, <2>4, <2>5 DEF TabsInv
  <1>2. QED
    BY <1>1

\* The tab goes to a window of its own.
LEMMA DetachKeeps ==
    ASSUME TabsInv, Detach \/ CaptureTransfer \/ Hydrate \/ Commit \/ DetachFails \/ WindowDies PROVE TabsInv'
  <1>1. CASE Detach
    BY <1>1, ViewsFact DEF Detach, Lock, Phases, TabsInv, TabsTypeOK, TabLocks, DropsFit, InFlight, Carried, Unsaved, Owned, Dirty
  <1>2. CASE CaptureTransfer
    <2>1. TabsTypeOK'
      BY <1>2, ViewsFact, TabsAssumption DEF CaptureTransfer, Found, Phases, Drops, TabsInv, TabsTypeOK, TabLocks, DropsFit, InFlight, Carried, Unsaved, Owned, Dirty
    <2>2. TabLocks'
      BY <1>2, ViewsFact, TabsAssumption DEF CaptureTransfer, Found, Phases, Drops, TabsInv, TabsTypeOK, TabLocks, DropsFit, InFlight, Carried, Unsaved, Owned, Dirty
    <2>3. DropsFit'
      BY <1>2, ViewsFact, TabsAssumption DEF CaptureTransfer, Found, Phases, Drops, TabsInv, TabsTypeOK, TabLocks, DropsFit, InFlight, Carried, Unsaved, Owned, Dirty
    <2>4. InFlight'
      BY <1>2, ViewsFact, TabsAssumption DEF CaptureTransfer, Found, Phases, Drops, TabsInv, TabsTypeOK, TabLocks, DropsFit, InFlight, Carried, Unsaved, Owned, Dirty
    <2>5. Carried'
      BY <1>2, ViewsFact, TabsAssumption DEF CaptureTransfer, Found, Phases, Drops, TabsInv, TabsTypeOK, TabLocks, DropsFit, InFlight, Carried, Unsaved, Owned, Dirty
    <2>6. QED
      BY <2>1, <2>2, <2>3, <2>4, <2>5 DEF TabsInv
  <1>3. CASE Hydrate
    <2>1. TabsTypeOK'
      BY <1>3, ViewsFact DEF Hydrate, RecoveryCopy, Phases, TabsInv, TabsTypeOK, TabLocks, DropsFit, InFlight, Carried, Unsaved, Owned, Dirty
    <2>2. TabLocks'
      BY <1>3, ViewsFact DEF Hydrate, RecoveryCopy, Phases, TabsInv, TabsTypeOK, TabLocks, DropsFit, InFlight, Carried, Unsaved, Owned, Dirty
    <2>3. DropsFit'
      BY <1>3, ViewsFact DEF Hydrate, RecoveryCopy, Phases, TabsInv, TabsTypeOK, TabLocks, DropsFit, InFlight, Carried, Unsaved, Owned, Dirty
    <2>4. InFlight'
      BY <1>3, ViewsFact DEF Hydrate, RecoveryCopy, Phases, TabsInv, TabsTypeOK, TabLocks, DropsFit, InFlight, Carried, Unsaved, Owned, Dirty
    <2>5. Carried'
      BY <1>3, ViewsFact DEF Hydrate, RecoveryCopy, Phases, TabsInv, TabsTypeOK, TabLocks, DropsFit, InFlight, Carried, Unsaved, Owned, Dirty
    <2>6. QED
      BY <2>1, <2>2, <2>3, <2>4, <2>5 DEF TabsInv
  <1>4. CASE Commit
    <2> DEFINE found == Found("detached")
               load == IF found = Nothing THEN OneLoad ELSE NoLoad
    <2>1. found \in Buffers \cup {Nothing} /\ load \in Loads
      BY ViewsFact, ReadsFact DEF Found, TabsInv, TabsTypeOK
    <2>2. memory' = [memory EXCEPT !["detached"] = found] /\ loading' = [main |-> NoLoad, detached |-> load]
      BY <1>4 DEF Commit
    <2>3. /\ memory'["detached"] = found /\ memory'["main"] = memory["main"]
          /\ loading'["main"] = NoLoad /\ loading'["detached"] = load
      BY <2>2, ViewsFact DEF TabsInv, TabsTypeOK
    <2>4. loading' \in [Views -> Loads]
      <3>1. DOMAIN loading' = Views /\ loading' = [v \in DOMAIN loading' |-> loading'[v]]
        BY <2>2 DEF Views
      <3>2. \A v \in Views : loading'[v] \in Loads
        BY <2>1, <2>3, ReadsFact, ViewsFact
      <3>3. QED
        BY <3>1, <3>2
    <2>5. Unsaved => found = stored /\ load = NoLoad
      BY <1>4, TabsAssumption DEF Commit, Found, TabsInv, Carried, Dirty
    <2> HIDE DEF found, load
    <2>6. TabsTypeOK'
      <3>1. TabsTypeOK /\ memory' \in [Views -> Buffers \cup {Nothing}]
        BY <2>1, <2>2 DEF TabsInv, TabsTypeOK
      <3>2. locked' \in [Views -> BOOLEAN] /\ phase' \in Phases
        BY <1>4, <3>1 DEF Commit, Lock, TabsTypeOK, Phases
      <3>3. QED
        BY <1>4, <2>4, <3>1, <3>2 DEF Commit, TabsTypeOK
    <2>7. TabLocks' /\ DropsFit'
      BY <1>4, TabsAssumption DEF Commit, Drops, TabsInv, TabsTypeOK, TabLocks, DropsFit
    <2>8. InFlight'
      BY <1>4, <2>3 DEF Commit, TabsInv, InFlight, Owned
    <2>9. Carried'
      <3>1. SUFFICES ASSUME Unsaved' PROVE Carried'
        BY DEF Carried
      <3>2. Unsaved
        BY <1>4, <3>1 DEF Commit, Unsaved
      <3>3. QED
        BY <1>4, <2>3, <2>5, <3>2, ReadsFact, ViewsFact DEF Commit, TabsInv, Carried, Owned
    <2>10. QED
      BY <2>6, <2>7, <2>8, <2>9 DEF TabsInv
  <1>5. CASE DetachFails
    BY <1>5, ViewsFact DEF DetachFails, Lock, Phases, TabsInv, TabsTypeOK, TabLocks, DropsFit, InFlight, Carried, Unsaved, Owned, Dirty
  <1>6. CASE WindowDies
    <2>1. TabsTypeOK'
      BY <1>6, ViewsFact, ReadsFact DEF WindowDies, Lock, Phases, TabsInv, TabsTypeOK, TabLocks, DropsFit, InFlight, Carried, Unsaved, Owned, Dirty
    <2>2. TabLocks'
      BY <1>6, ViewsFact, ReadsFact DEF WindowDies, Lock, Phases, TabsInv, TabsTypeOK, TabLocks, DropsFit, InFlight, Carried, Unsaved, Owned, Dirty
    <2>3. DropsFit'
      BY <1>6, ViewsFact, ReadsFact DEF WindowDies, Lock, Phases, TabsInv, TabsTypeOK, TabLocks, DropsFit, InFlight, Carried, Unsaved, Owned, Dirty
    <2>4. InFlight'
      BY <1>6, ViewsFact, ReadsFact DEF WindowDies, Lock, Phases, TabsInv, TabsTypeOK, TabLocks, DropsFit, InFlight, Carried, Unsaved, Owned, Dirty
    <2>5. Carried'
      BY <1>6, ViewsFact, ReadsFact DEF WindowDies, Lock, Phases, TabsInv, TabsTypeOK, TabLocks, DropsFit, InFlight, Carried, Unsaved, Owned, Dirty
    <2>6. QED
      BY <2>1, <2>2, <2>3, <2>4, <2>5 DEF TabsInv
  <1>7. QED
    BY <1>1, <1>2, <1>3, <1>4, <1>5, <1>6

\* It comes back, or does not.
LEMMA ReturnKeeps ==
    ASSUME TabsInv, Merge \/ RequestDock \/ Expire \/ AcceptDrop \/ RefuseDrop \/ MergeFails \/ DestroyWindow PROVE TabsInv'
  <1>1. CASE Merge
    BY <1>1, ViewsFact DEF Merge, Lock, Phases, TabsInv, TabsTypeOK, TabLocks, DropsFit, InFlight, Carried, Unsaved, Owned, Dirty
  <1>2. CASE RequestDock
    BY <1>2, ViewsFact, TabsAssumption DEF RequestDock, Found, Phases, Drops, TabsInv, TabsTypeOK, TabLocks, DropsFit, InFlight, Carried, Unsaved, Owned, Dirty
  <1>3. CASE Expire
    <2>1. TabsTypeOK'
      BY <1>3, ViewsFact, TabsAssumption DEF Expire, Drops, TabsInv, TabsTypeOK, TabLocks, DropsFit, InFlight, Carried, Unsaved, Owned, Dirty
    <2>2. TabLocks'
      BY <1>3, ViewsFact, TabsAssumption DEF Expire, Drops, TabsInv, TabsTypeOK, TabLocks, DropsFit, InFlight, Carried, Unsaved, Owned, Dirty
    <2>3. DropsFit'
      BY <1>3, ViewsFact, TabsAssumption DEF Expire, Drops, TabsInv, TabsTypeOK, TabLocks, DropsFit, InFlight, Carried, Unsaved, Owned, Dirty
    <2>4. InFlight'
      BY <1>3, ViewsFact, TabsAssumption DEF Expire, Drops, TabsInv, TabsTypeOK, TabLocks, DropsFit, InFlight, Carried, Unsaved, Owned, Dirty
    <2>5. Carried'
      BY <1>3, ViewsFact, TabsAssumption DEF Expire, Drops, TabsInv, TabsTypeOK, TabLocks, DropsFit, InFlight, Carried, Unsaved, Owned, Dirty
    <2>6. QED
      BY <2>1, <2>2, <2>3, <2>4, <2>5 DEF TabsInv
  <1>4. CASE AcceptDrop
    <2>1. TabsTypeOK'
      BY <1>4, ViewsFact, ReadsFact, TabsAssumption DEF AcceptDrop, Acceptable, Mount, RecoveryCopy, Phases, Drops, TabsInv, TabsTypeOK, TabLocks, DropsFit, InFlight, Carried, Unsaved, Owned, Dirty
    <2>2. TabLocks'
      BY <1>4, ViewsFact, ReadsFact, TabsAssumption DEF AcceptDrop, Acceptable, Mount, RecoveryCopy, Phases, Drops, TabsInv, TabsTypeOK, TabLocks, DropsFit, InFlight, Carried, Unsaved, Owned, Dirty
    <2>3. DropsFit'
      BY <1>4, ViewsFact, ReadsFact, TabsAssumption DEF AcceptDrop, Acceptable, Mount, RecoveryCopy, Phases, Drops, TabsInv, TabsTypeOK, TabLocks, DropsFit, InFlight, Carried, Unsaved, Owned, Dirty
    <2>4. InFlight'
      BY <1>4, ViewsFact, ReadsFact, TabsAssumption DEF AcceptDrop, Acceptable, Mount, RecoveryCopy, Phases, Drops, TabsInv, TabsTypeOK, TabLocks, DropsFit, InFlight, Carried, Unsaved, Owned, Dirty
    <2>5. Carried'
      BY <1>4, ViewsFact, ReadsFact, TabsAssumption DEF AcceptDrop, Acceptable, Mount, RecoveryCopy, Phases, Drops, TabsInv, TabsTypeOK, TabLocks, DropsFit, InFlight, Carried, Unsaved, Owned, Dirty
    <2>6. QED
      BY <2>1, <2>2, <2>3, <2>4, <2>5 DEF TabsInv
  <1>5. CASE RefuseDrop
    <2>1. TabsTypeOK'
      <3>1. TabsTypeOK
        BY DEF TabsInv
      <3>2. locked' \in [Views -> BOOLEAN] /\ phase' \in Phases
        BY <1>5, <3>1, ViewsFact DEF RefuseDrop, Lock, Phases, TabsTypeOK
      <3>3. drop' \in Drops \cup {Nothing}
        BY <1>5 DEF RefuseDrop
      <3>4. QED
        BY <1>5, <3>1, <3>2, <3>3 DEF RefuseDrop, TabsTypeOK
    <2>2. TabLocks'
      BY <1>5, ViewsFact DEF RefuseDrop, Acceptable, Lock, Phases, Drops, TabsInv, TabsTypeOK, TabLocks, DropsFit, InFlight, Carried, Unsaved, Owned, Dirty
    <2>3. DropsFit'
      BY <1>5, ViewsFact DEF RefuseDrop, Acceptable, Lock, Phases, Drops, TabsInv, TabsTypeOK, TabLocks, DropsFit, InFlight, Carried, Unsaved, Owned, Dirty
    <2>4. InFlight'
      BY <1>5, ViewsFact DEF RefuseDrop, Acceptable, Lock, Phases, Drops, TabsInv, TabsTypeOK, TabLocks, DropsFit, InFlight, Carried, Unsaved, Owned, Dirty
    <2>5. Carried'
      BY <1>5, ViewsFact DEF RefuseDrop, Acceptable, Lock, Phases, Drops, TabsInv, TabsTypeOK, TabLocks, DropsFit, InFlight, Carried, Unsaved, Owned, Dirty
    <2>6. QED
      BY <2>1, <2>2, <2>3, <2>4, <2>5 DEF TabsInv
  <1>6. CASE MergeFails
    BY <1>6, ViewsFact DEF MergeFails, Lock, Phases, TabsInv, TabsTypeOK, TabLocks, DropsFit, InFlight, Carried, Unsaved, Owned, Dirty
  <1>7. CASE DestroyWindow
    <2>1. TabsTypeOK'
      BY <1>7, ViewsFact, ReadsFact DEF DestroyWindow, Lock, Phases, TabsInv, TabsTypeOK, TabLocks, DropsFit, InFlight, Carried, Unsaved, Owned, Dirty
    <2>2. TabLocks'
      BY <1>7, ViewsFact, ReadsFact DEF DestroyWindow, Lock, Phases, TabsInv, TabsTypeOK, TabLocks, DropsFit, InFlight, Carried, Unsaved, Owned, Dirty
    <2>3. DropsFit'
      BY <1>7, ViewsFact, ReadsFact DEF DestroyWindow, Lock, Phases, TabsInv, TabsTypeOK, TabLocks, DropsFit, InFlight, Carried, Unsaved, Owned, Dirty
    <2>4. InFlight'
      BY <1>7, ViewsFact, ReadsFact DEF DestroyWindow, Lock, Phases, TabsInv, TabsTypeOK, TabLocks, DropsFit, InFlight, Carried, Unsaved, Owned, Dirty
    <2>5. Carried'
      BY <1>7, ViewsFact, ReadsFact DEF DestroyWindow, Lock, Phases, TabsInv, TabsTypeOK, TabLocks, DropsFit, InFlight, Carried, Unsaved, Owned, Dirty
    <2>6. QED
      BY <2>1, <2>2, <2>3, <2>4, <2>5 DEF TabsInv
  <1>8. QED
    BY <1>1, <1>2, <1>3, <1>4, <1>5, <1>6, <1>7

\* The program starts again.
LEMMA RestartKeeps ==
    ASSUME TabsInv, RestartTabs PROVE TabsInv'
  <1>1. CASE RestartTabs
    <2> DEFINE load == IF tab /\ stored = Nothing THEN OneLoad ELSE NoLoad
    <2>1. load \in Loads /\ NoLoad \in Loads /\ NoLoad.at = Nothing
      BY ReadsFact
    <2>2. /\ loading' \in [Views -> Loads] /\ memory' \in [Views -> Buffers \cup {Nothing}]
          /\ locked' \in [Views -> BOOLEAN] /\ saving' \in [Views -> Saves \cup {Nothing}]
      BY <1>1, <2>1 DEF RestartTabs, TabsInv, TabsTypeOK
    <2>3. /\ loading'["main"] = load /\ loading'["detached"] = NoLoad
          /\ memory'["main"] = IF tab THEN stored ELSE Nothing
          /\ saving'["main"] = Nothing /\ saving'["detached"] = Nothing
      BY <1>1, ViewsFact DEF RestartTabs
    <2>4. Unsaved => stored # Nothing
      BY DEF TabsInv, Carried, Dirty
    <2>6. ~tab \/ stored # Nothing => load = NoLoad
      OBVIOUS
    <2> HIDE DEF load
    <2>7. TabsTypeOK'
      BY <1>1, <2>2 DEF RestartTabs, TabsInv, TabsTypeOK, Phases
    <2>8. TabLocks' /\ DropsFit'
      BY <1>1 DEF RestartTabs, TabLocks, DropsFit
    <2>9. InFlight'
      BY <1>1, <2>3, <2>6 DEF RestartTabs, InFlight, Owned
    <2>10. Carried'
      <3>1. SUFFICES ASSUME Unsaved' PROVE Carried'
        BY DEF Carried
      <3>2. Unsaved
        BY <1>1, <3>1 DEF RestartTabs, Unsaved
      <3>3. QED
        BY <1>1, <2>1, <2>3, <2>4, <2>6, <3>2, ViewsFact DEF RestartTabs, TabsInv, Carried, Owned
    <2>11. QED
      BY <2>7, <2>8, <2>9, <2>10 DEF TabsInv
  <1>2. QED
    BY <1>1

-----------------------------------------------------------------------------

LEMMA TabsStepKeeps == ASSUME TabsInv, [TabsNext]_tabsVars PROVE TabsInv'
  <1>1. CASE UNCHANGED tabsVars
    BY <1>1 DEF tabsVars, TabsInv, TabsTypeOK, TabLocks, DropsFit, InFlight, Carried, Unsaved, Owned, Dirty, RecoveryCopy
  <1>2. CASE TabsNext
    BY <1>2, OpenKeeps, ReadKeeps, AnswerKeeps, TypeKeeps, SaveKeeps, OthersKeep, DetachKeeps, ReturnKeeps,
       RestartKeeps DEF TabsNext
  <1>3. QED
    BY <1>1, <1>2

LEMMA TabsInvariant == TabsSpec => []TabsInv
  <1>1. TabsInit => TabsInv
    BY TabsInitially
  <1>2. TabsInv /\ [TabsNext]_tabsVars => TabsInv'
    BY TabsStepKeeps
  <1>3. QED
    BY <1>1, <1>2, PTL DEF TabsSpec

\* The state of a tab is well-typed, in both windows, whatever the file holds and however often it
\* goes from one window to the other.
THEOREM TabsTypes == TabsSpec => []TabsTypeOK
  <1>1. TabsInv => TabsTypeOK
    BY DEF TabsInv
  <1>2. QED
    BY <1>1, TabsInvariant, PTL

\* What the user typed is in the recovery copy and in every editor of the tab until it is saved or
\* discarded, and there is one editor at most, for any contents and any number of edits, saves and
\* handoffs (FileWorkspace.tsx, fileEditBuffer.ts, detach.ts).
THEOREM EditsSurvive == TabsSpec => []EditsAreSafe
  <1>1. ASSUME TabsInv PROVE OneEditor
    BY <1>1, ViewsFact DEF TabsInv, TabLocks, OneEditor, Editable, Mounted
  <1>2. ASSUME TabsInv PROVE UnsavedTextStays
    <2>1. SUFFICES ASSUME Unsaved
                   PROVE  /\ stored # Nothing /\ stored.text = edit
                          /\ \A w \in Views : Editable(w) => memory[w] # Nothing /\ memory[w].text = edit
      BY DEF UnsavedTextStays, Unsaved
    <2>2. Carried /\ TabLocks
      BY <1>2 DEF TabsInv
    <2>3. stored # Nothing /\ stored.text = edit
      BY <2>1, <2>2 DEF Carried, Dirty
    <2>4. ASSUME NEW w \in Views, Editable(w) PROVE memory[w] = stored
      BY <2>1, <2>2, <2>4, ViewsFact DEF Carried, TabLocks, Editable, Mounted, Owned
    <2>5. QED
      BY <2>3, <2>4
  <1>3. TabsInv => EditsAreSafe
    BY <1>1, <1>2 DEF EditsAreSafe
  <1>4. QED
    BY <1>3, TabsInvariant, PTL

-----------------------------------------------------------------------------
(* SharedLine. *)

\* Commands as the tracker finishes them, what it keeps between two keys, and a shell.
Command == [text : Seq(Chars), exact : BOOLEAN]
Observation == [text : Seq(Chars), exact : BOOLEAN, done : Seq(Command)]
ShellState == [line : Seq(Chars), ran : Seq(Seq(Chars))]
Tracker == [text : Seq(Chars), exact : BOOLEAN, sensitive : BOOLEAN]

\* What is left of a line after the guard has trimmed it.
LEMMA TrimKeeps ==
    ASSUME NEW w \in Observation
    PROVE  /\ TrimTracked(w) \in Observation /\ TrimTracked(w).done = w.done
           /\ TrimTracked(w).exact => w.exact /\ TrimTracked(w).text = w.text
           /\ Range(TrimTracked(w).text) \subseteq Range(w.text)
           /\ Len(TrimTracked(w).text) <= MaxTracked
<1> DEFINE v == TrimTracked(w)
           n == Len(w.text)
           cut == SubSeq(w.text, n - MaxTracked + 1, n)
           text == IF n <= MaxTracked THEN w.text ELSE cut
           exact == w.exact /\ n <= MaxTracked
<1>1. w.text \in Seq(Chars) /\ n \in Nat /\ MaxTracked \in Nat \ {0} /\ w.done \in Seq(Command)
  BY TrackedAssumption DEF Observation
<1>2. v = [w EXCEPT !.exact = exact, !.text = text]
  BY DEF TrimTracked
<1>3. exact \in BOOLEAN
  OBVIOUS
<1>4. text \in Seq(Chars) /\ Len(text) <= MaxTracked /\ Range(text) \subseteq Range(w.text)
  <2>1. CASE n <= MaxTracked
    BY <1>1, <2>1
  <2>2. CASE ~(n <= MaxTracked)
    <3>1. /\ cut \in Seq(Chars) /\ Len(cut) = MaxTracked
          /\ \A i \in 1..MaxTracked : cut[i] = w.text[n - MaxTracked + i]
      <4> DEFINE k == n - MaxTracked + 1
      <4>1. k \in 1..n /\ n \in 1..n /\ n - k + 1 = MaxTracked
        BY <1>1, <2>2
      <4> HIDE DEF k
      <4>2. /\ SubSeq(w.text, k, n) \in Seq(Chars) /\ Len(SubSeq(w.text, k, n)) = n - k + 1
            /\ \A i \in 1..n - k + 1 : SubSeq(w.text, k, n)[i] = w.text[k + i - 1]
        BY <1>1, <4>1
      <4>3. \A i \in 1..MaxTracked : k + i - 1 = n - MaxTracked + i
        BY <1>1 DEF k
      <4> QED
        BY <4>1, <4>2, <4>3 DEF k
    <3>2. text = cut
      BY <2>2
    <3> HIDE DEF cut, text
    <3>3. ASSUME NEW x \in Range(cut) PROVE x \in Range(w.text)
      <4>1. PICK i \in 1..Len(cut) : cut[i] = x
        BY <3>1, OfRange
      <4>2. n - MaxTracked + i \in 1..n /\ w.text[n - MaxTracked + i] = x
        BY <1>1, <2>2, <3>1, <4>1
      <4> QED
        BY <1>1, <4>2, InRange
    <3> QED
      BY <1>1, <3>1, <3>2, <3>3
  <2> QED
    BY <2>1, <2>2
<1>5. exact => w.exact /\ text = w.text
  OBVIOUS
<1> HIDE DEF text, exact, v, n
<1>6. v \in Observation /\ v.done = w.done /\ v.text = text /\ v.exact = exact
  BY <1>1, <1>2, <1>3, <1>4 DEF Observation
<1> QED
  BY <1>4, <1>5, <1>6 DEF v

\* Each key, for the tracker.
LEMMA ObserveEnter ==
    ASSUME NEW u \in Observation
    PROVE  /\ ObserveKey(u, "enter") \in Observation
           /\ ObserveKey(u, "enter").text = <<>> /\ ObserveKey(u, "enter").exact = TRUE
           /\ ObserveKey(u, "enter").done = IF u.text = <<>> /\ u.exact THEN u.done
                ELSE Append(u.done, [text |-> u.text, exact |-> u.exact])
<1> DEFINE c == [text |-> u.text, exact |-> u.exact]
           done == IF u.text = <<>> /\ u.exact THEN u.done ELSE Append(u.done, c)
           w == ObserveKey(u, "enter")
<1>1. u.done \in Seq(Command) /\ c \in Command
  BY DEF Observation, Command
<1>2. done \in Seq(Command)
  BY <1>1
<1>3. w = [text |-> <<>>, exact |-> TRUE, done |-> done]
  BY DEF ObserveKey, FinishCommand, Observation
<1> HIDE DEF done, w
<1>4. w \in Observation /\ w.text = <<>> /\ w.exact = TRUE /\ w.done = done
  BY <1>2, <1>3 DEF Observation
<1> QED
  BY <1>4 DEF done, w

LEMMA ObserveOther ==
    ASSUME NEW u \in Observation, NEW key \in Keys, key # "enter"
    PROVE  /\ ObserveKey(u, key) \in Observation /\ ObserveKey(u, key).done = u.done
           /\ key = "back" => /\ ObserveKey(u, key).text = IF u.text = <<>> THEN <<>> ELSE Front(u.text)
                              /\ ObserveKey(u, key).exact = u.exact
           /\ key = "clear" => ObserveKey(u, key).text = <<>> /\ ObserveKey(u, key).exact = TRUE
           /\ key = "edit" => ObserveKey(u, key).text = u.text /\ ObserveKey(u, key).exact = FALSE
           /\ key \in Chars => /\ ObserveKey(u, key).text = Append(u.text, key)
                               /\ ObserveKey(u, key).exact = u.exact
<1> DEFINE w == ObserveKey(u, key)
<1>1. u.text \in Seq(Chars) /\ u.exact \in BOOLEAN /\ u.done \in Seq(Command)
  BY DEF Observation
<1>2. u.text # <<>> => Front(u.text) \in Seq(Chars)
  BY <1>1 DEF Front
<1>3. CASE key = "back"
  <2> DEFINE text == IF u.text = <<>> THEN <<>> ELSE Front(u.text)
  <2>1. text \in Seq(Chars)
    BY <1>2
  <2>2. w = [text |-> text, exact |-> u.exact, done |-> u.done]
    BY <1>3 DEF ObserveKey, Observation
  <2> HIDE DEF text, w
  <2>3. w \in Observation /\ w.text = text /\ w.exact = u.exact /\ w.done = u.done
    BY <1>1, <2>1, <2>2 DEF Observation
  <2> QED
    BY <1>3, <2>3 DEF text, w, Chars
<1>4. CASE key = "clear"
  <2>1. w = [text |-> <<>>, exact |-> TRUE, done |-> u.done]
    BY <1>4 DEF ObserveKey, Observation
  <2> HIDE DEF w
  <2>2. w \in Observation /\ w.text = <<>> /\ w.exact = TRUE /\ w.done = u.done
    BY <1>1, <2>1 DEF Observation
  <2> QED
    BY <1>4, <2>2 DEF w, Chars
<1>5. CASE key = "edit"
  <2>1. w = [text |-> u.text, exact |-> FALSE, done |-> u.done]
    BY <1>5 DEF ObserveKey, Observation
  <2> HIDE DEF w
  <2>2. w \in Observation /\ w.text = u.text /\ w.exact = FALSE /\ w.done = u.done
    BY <1>1, <2>1 DEF Observation
  <2> QED
    BY <1>5, <2>2 DEF w, Chars
<1>6. CASE key \in Chars
  <2> DEFINE text == Append(u.text, key)
  <2>1. text \in Seq(Chars)
    BY <1>1, <1>6
  <2>2. key # "enter" /\ key # "back" /\ key # "clear" /\ key # "edit"
    BY <1>6 DEF Chars
  <2>3. w = [text |-> text, exact |-> u.exact, done |-> u.done]
    BY <2>2 DEF ObserveKey, Observation
  <2> HIDE DEF text, w
  <2>4. w \in Observation /\ w.text = text /\ w.exact = u.exact /\ w.done = u.done
    BY <1>1, <2>1, <2>3 DEF Observation
  <2> QED
    BY <2>2, <2>4 DEF text, w
<1> QED
  BY <1>3, <1>4, <1>5, <1>6 DEF Keys

LEMMA ObserveClear ==
    ASSUME NEW u \in Observation PROVE ObserveKey(u, "clear").text = <<>>
<1>1. ObserveKey(u, "clear") = [text |-> <<>>, exact |-> TRUE, done |-> u.done]
  BY DEF ObserveKey, Observation
<1> QED
  BY <1>1

LEMMA ObserveTyped ==
    ASSUME NEW u \in Observation, NEW key \in Keys PROVE ObserveKey(u, key) \in Observation
  BY ObserveEnter, ObserveOther

\* ObserveAll is what its recursive function says.
ObservesTo(f, t, keys) ==
    /\ f[0] = [text |-> t.text, exact |-> t.exact, done |-> <<>>]
    /\ \A i \in 1..Len(keys) : f[i] = TrimTracked(ObserveKey(f[i - 1], keys[i]))
    /\ ObserveAll(t, keys) = f[Len(keys)]

LEMMA ObserveDefined ==
    ASSUME NEW t \in Tracker, NEW keys \in Seq(Keys) PROVE \E f : ObservesTo(f, t, keys)
<1> DEFINE n == Len(keys)
           x == [text |-> t.text, exact |-> t.exact, done |-> <<>>]
           F == [i \in 1..n |-> [u \in Observation |-> TrimTracked(ObserveKey(u, keys[i]))]]
           Seen(g) == g = [i \in 0..n |->
                        IF i = 0 THEN x ELSE TrimTracked(ObserveKey(g[i - 1], keys[i]))]
           f == CHOOSE g : Seen(g)
<1>1. n \in Nat /\ \A i \in 1..n : keys[i] \in Keys
  OBVIOUS
<1>2. x \in Observation
  BY DEF Tracker, Observation
<1>3. F \in [1..n -> [Observation -> Observation]]
  <2>1. \A i \in 1..n, u \in Observation : TrimTracked(ObserveKey(u, keys[i])) \in Observation
    BY <1>1, ObserveTyped, TrimKeeps
  <2> QED
    BY <2>1
<1> HIDE DEF F, n, x
<1>4. PICK g : Recursive(g, Observation, x, n, F)
  BY <1>1, <1>2, <1>3, Recursion
<1>5. /\ g \in [0..n -> Observation] /\ g[0] = x
      /\ \A i \in 1..n : g[i] = F[i][g[i - 1]]
  BY <1>4 DEF Recursive
<1>6. \A i \in 1..n : g[i] = TrimTracked(ObserveKey(g[i - 1], keys[i]))
  <2> TAKE i \in 1..n
  <2>1. i - 1 \in 0..n
    BY <1>1
  <2>2. g[i - 1] \in Observation
    BY <1>5, <2>1
  <2> QED
    BY <1>5, <2>2 DEF F
<1>7. \A i \in 0..n : i # 0 => i \in 1..n
  BY <1>1
<1>8. Seen(g)
  BY <1>5, <1>6, <1>7
<1>9. Seen(f)
  <2> HIDE DEF Seen
  <2> QED
    BY <1>8
<1>10. ObserveAll(t, keys) = f[n]
  BY DEF ObserveAll, n, x
<1>11. f[0] = x /\ \A i \in 1..n : f[i] = TrimTracked(ObserveKey(f[i - 1], keys[i]))
  <2> HIDE DEF f
  <2>1. 0 \in 0..n /\ \A i \in 1..n : i \in 0..n /\ i # 0
    BY <1>1
  <2> QED
    BY <1>9, <2>1
<1> HIDE DEF f
<1> QED
  BY <1>10, <1>11 DEF n, x, ObservesTo

\* What ObserveAll returns: text and commands made of the characters it was given.
Within(u, C) ==
    /\ Range(u.text) \subseteq C
    /\ \A i \in 1..Len(u.done) : Range(u.done[i].text) \subseteq C

LEMMA FrontKeeps ==
    ASSUME NEW T, NEW s \in Seq(T), s # <<>>
    PROVE  /\ Front(s) \in Seq(T) /\ Len(Front(s)) = Len(s) - 1
           /\ \A i \in 1..Len(s) - 1 : Front(s)[i] = s[i]
           /\ Range(Front(s)) \subseteq Range(s)
<1> DEFINE f == Front(s)
<1>1. f \in Seq(T) /\ Len(f) = Len(s) - 1 /\ \A i \in 1..Len(s) - 1 : f[i] = s[i]
  <2> DEFINE m == Len(s) - 1
  <2>1. m \in 0..Len(s) /\ \A i \in 1..m : s[i] \in T
    OBVIOUS
  <2>2. f = SubSeq(s, 1, m)
    BY DEF Front
  <2> HIDE DEF f, m
  <2>3. f \in Seq(T) /\ Len(f) = m /\ \A i \in 1..m : f[i] = s[i]
    BY <2>1, <2>2
  <2> QED
    BY <2>3 DEF m
<1> HIDE DEF f
<1>2. ASSUME NEW x \in Range(f) PROVE x \in Range(s)
  <2>1. PICK i \in 1..Len(f) : f[i] = x
    BY <1>1, OfRange
  <2>2. i \in 1..Len(s) /\ s[i] = x
    BY <1>1, <2>1
  <2> QED
    BY <2>2, InRange
<1> QED
  BY <1>1, <1>2 DEF f

LEMMA KeyWithin ==
    ASSUME NEW u \in Observation, NEW key \in Keys, NEW C, Within(u, C), key \in Chars => key \in C
    PROVE  Within(ObserveKey(u, key), C)
<1> DEFINE w == ObserveKey(u, key)
<1>1. u.text \in Seq(Chars) /\ u.done \in Seq(Command)
  BY DEF Observation
<1>2. CASE key = "enter"
  <2> DEFINE c == [text |-> u.text, exact |-> u.exact]
  <2>1. w.text = <<>> /\ w.done = IF u.text = <<>> /\ u.exact THEN u.done ELSE Append(u.done, c)
    BY <1>2, ObserveEnter
  <2>2. c.text = u.text /\ c \in Command
    BY DEF Observation, Command
  <2>3. Range(w.text) = {}
    BY <2>1 DEF Range
  <2> HIDE DEF w, c
  <2>4. ASSUME NEW i \in 1..Len(w.done) PROVE Range(w.done[i].text) \subseteq C
    <3>1. CASE w.done = u.done
      BY <3>1 DEF Within
    <3>2. CASE w.done = Append(u.done, c)
      <4>1. i \in 1..Len(u.done) => w.done[i] = u.done[i]
        BY <1>1, <2>2, <3>2
      <4>2. i \notin 1..Len(u.done) => w.done[i] = c
        BY <1>1, <2>2, <3>2
      <4> QED
        BY <2>2, <4>1, <4>2 DEF Within
    <3> QED
      BY <2>1, <3>1, <3>2
  <2> QED
    BY <2>3, <2>4 DEF Within, w
<1>3. CASE key # "enter"
  <2>1. w.done = u.done
    BY <1>3, ObserveOther
  <2>2. Range(w.text) \subseteq C
    <3>1. CASE key = "back"
      <4>1. w.text = IF u.text = <<>> THEN <<>> ELSE Front(u.text)
        BY <3>1, ObserveOther
      <4> HIDE DEF w
      <4>2. Range(<<>>) = {}
        BY DEF Range
      <4> QED
        BY <1>1, <4>1, <4>2, FrontKeeps DEF Within
    <3>2. CASE key = "clear"
      <4>1. w.text = <<>>
        BY <3>2, ObserveClear
      <4> HIDE DEF w
      <4> QED
        BY <4>1 DEF Range
    <3>3. CASE key = "edit"
      BY <3>3, ObserveOther DEF Within
    <3>4. CASE key \in Chars
      <4>1. w.text = Append(u.text, key)
        BY <1>3, <3>4, ObserveOther
      <4>2. Range(Append(u.text, key)) = Range(u.text) \cup {key}
        BY <1>1, <3>4, AppendKeeps
      <4> QED
        BY <3>4, <4>1, <4>2 DEF Within
    <3> QED
      BY <1>3, <3>1, <3>2, <3>3, <3>4 DEF Keys
  <2> HIDE DEF w
  <2>3. Within(w, C)
    BY <2>1, <2>2 DEF Within
  <2> QED
    BY <2>3 DEF w
<1> QED
  BY <1>2, <1>3

LEMMA TrimWithin ==
    ASSUME NEW w \in Observation, NEW C, Within(w, C) PROVE Within(TrimTracked(w), C)
  BY TrimKeeps DEF Within

LEMMA ObserveAllKeeps ==
    ASSUME NEW t \in Tracker, NEW keys \in Seq(Keys)
    PROVE  /\ ObserveAll(t, keys) \in Observation
           /\ Within(ObserveAll(t, keys), Range(t.text) \cup Range(keys))
           /\ Len(t.text) <= MaxTracked => Len(ObserveAll(t, keys).text) <= MaxTracked
<1>1. PICK f : ObservesTo(f, t, keys)
  BY ObserveDefined
<1> DEFINE n == Len(keys)
           C == Range(t.text) \cup Range(keys)
           Good(k) == /\ f[k] \in Observation /\ Within(f[k], C)
                      /\ Len(t.text) <= MaxTracked => Len(f[k].text) <= MaxTracked
           A == {k \in Nat : k <= n => Good(k)}
<1> HIDE DEF C, Good
<1>2. n \in Nat /\ \A i \in 1..n : keys[i] \in Keys /\ keys[i] \in C
  <2>1. \A i \in 1..n : keys[i] \in Range(keys)
    BY InRange
  <2> QED
    BY <2>1 DEF C
<1>3. 0 \in A
  <2>1. f[0] = [text |-> t.text, exact |-> t.exact, done |-> <<>>]
    BY <1>1 DEF ObservesTo
  <2>2. f[0] \in Observation /\ f[0].text = t.text /\ f[0].done = <<>>
    BY <2>1 DEF Tracker, Observation
  <2>3. Within(f[0], C)
    BY <2>2 DEF Within, C
  <2> QED
    BY <2>2, <2>3 DEF Good
<1>4. ASSUME NEW k \in Nat, k \in A PROVE k + 1 \in A
  <2>1. SUFFICES ASSUME k + 1 <= n PROVE Good(k + 1)
    OBVIOUS
  <2> DEFINE u == f[k]
             key == keys[k + 1]
             w == ObserveKey(u, key)
  <2>2. u \in Observation /\ Within(u, C)
    BY <1>2, <1>4, <2>1 DEF Good
  <2>3. k + 1 \in 1..n /\ (k + 1) - 1 = k
    BY <1>2, <2>1
  <2>4. f[k + 1] = TrimTracked(w) /\ key \in Keys /\ key \in C
    BY <1>1, <1>2, <2>3 DEF ObservesTo
  <2> HIDE DEF u, key
  <2>5. w \in Observation /\ Within(w, C)
    BY <2>2, <2>4, ObserveTyped, KeyWithin
  <2> HIDE DEF w
  <2>6. /\ TrimTracked(w) \in Observation /\ Within(TrimTracked(w), C)
        /\ Len(TrimTracked(w).text) <= MaxTracked
    BY <2>5, TrimKeeps, TrimWithin
  <2> QED
    BY <2>4, <2>6 DEF Good
<1>5. Good(n)
  <2>1. Nat \subseteq A
    <3> HIDE DEF A
    <3> QED
      BY <1>3, <1>4, Induction
  <2>2. n \in A
    BY <1>2, <2>1
  <2> QED
    BY <1>2, <2>2
<1>6. ObserveAll(t, keys) = f[n]
  BY <1>1 DEF ObservesTo
<1> QED
  BY <1>5, <1>6 DEF Good, C

\* The line of the shell is the end of what the tracker has: the whole of it, or what was
\* typed since something took the rest away.
TailOf(l, t) == Len(l) <= Len(t) /\ \A j \in 1..Len(l) : l[j] = t[Len(t) - Len(l) + j]

LEMMA TailRisky ==
    ASSUME NEW l \in Seq(Chars), NEW t \in Seq(Chars), TailOf(l, t), IsRisky(l) PROVE IsRisky(t)
<1>1. PICK j \in 1..Len(l) : l[j] = "risky"
  BY OfRange DEF IsRisky
<1>2. Len(t) - Len(l) + j \in 1..Len(t) /\ t[Len(t) - Len(l) + j] = "risky"
  BY <1>1 DEF TailOf
<1> QED
  BY <1>2, InRange DEF IsRisky

LEMMA TailEmpty == ASSUME NEW t \in Seq(Chars), NEW l, l = <<>> PROVE TailOf(l, t)
  BY DEF TailOf

LEMMA TailAppend ==
    ASSUME NEW l \in Seq(Chars), NEW t \in Seq(Chars), NEW c \in Chars, TailOf(l, t)
    PROVE  TailOf(Append(l, c), Append(t, c))
<1> DEFINE a1 == Append(l, c)
           a2 == Append(t, c)
<1>1. /\ Len(a1) = Len(l) + 1 /\ Len(a2) = Len(t) + 1 /\ Len(l) \in Nat /\ Len(t) \in Nat
      /\ \A i \in 1..Len(l) : a1[i] = l[i]
      /\ \A i \in 1..Len(t) : a2[i] = t[i]
      /\ a1[Len(l) + 1] = c /\ a2[Len(t) + 1] = c
  OBVIOUS
<1> HIDE DEF a1, a2
<1>2. Len(l) <= Len(t) /\ \A j \in 1..Len(l) : l[j] = t[Len(t) - Len(l) + j]
  BY DEF TailOf
<1>3. ASSUME NEW j \in 1..Len(a1) PROVE a1[j] = a2[Len(a2) - Len(a1) + j]
  <2>1. Len(a2) - Len(a1) + j = Len(t) - Len(l) + j
    BY <1>1
  <2>2. CASE j = Len(l) + 1
    BY <1>1, <2>1, <2>2
  <2>3. CASE j # Len(l) + 1
    <3>1. j \in 1..Len(l) /\ Len(t) - Len(l) + j \in 1..Len(t)
      BY <1>1, <1>2, <2>3
    <3> QED
      BY <1>1, <1>2, <2>1, <3>1
  <2> QED
    BY <2>2, <2>3
<1>4. Len(a1) <= Len(a2)
  BY <1>1, <1>2
<1>5. TailOf(a1, a2)
  BY <1>3, <1>4 DEF TailOf
<1> QED
  BY <1>5 DEF a1, a2

LEMMA TailFront ==
    ASSUME NEW l \in Seq(Chars), NEW t \in Seq(Chars), TailOf(l, t)
    PROVE  TailOf(IF l = <<>> THEN <<>> ELSE Front(l), IF t = <<>> THEN <<>> ELSE Front(t))
<1>1. CASE l = <<>>
  <2> DEFINE e == IF t = <<>> THEN <<>> ELSE Front(t)
  <2>1. e \in Seq(Chars)
    BY FrontKeeps
  <2> HIDE DEF e
  <2>2. TailOf(l, e)
    BY <1>1, <2>1, TailEmpty
  <2> QED
    BY <1>1, <2>2 DEF e
<1>2. CASE l # <<>>
  <2>1. Len(l) \in Nat /\ Len(t) \in Nat /\ Len(l) >= 1 /\ Len(l) <= Len(t) /\ t # <<>>
    BY <1>2 DEF TailOf
  <2> DEFINE fl == Front(l)
             ft == Front(t)
  <2>2. Len(fl) = Len(l) - 1 /\ \A i \in 1..Len(l) - 1 : fl[i] = l[i]
    BY <1>2, FrontKeeps
  <2>3. Len(ft) = Len(t) - 1 /\ \A i \in 1..Len(t) - 1 : ft[i] = t[i]
    BY <2>1, FrontKeeps
  <2> HIDE DEF fl, ft
  <2>4. ASSUME NEW j \in 1..Len(fl) PROVE fl[j] = ft[Len(ft) - Len(fl) + j]
    <3>1. /\ j \in 1..Len(l) - 1 /\ j \in 1..Len(l) /\ Len(ft) - Len(fl) + j = Len(t) - Len(l) + j
          /\ Len(t) - Len(l) + j \in 1..Len(t) - 1
      BY <2>1, <2>2, <2>3
    <3>2. l[j] = t[Len(t) - Len(l) + j]
      BY <3>1 DEF TailOf
    <3> QED
      BY <2>2, <2>3, <3>1, <3>2
  <2>5. Len(fl) <= Len(ft)
    BY <2>1, <2>2, <2>3
  <2>6. TailOf(fl, ft)
    BY <2>4, <2>5 DEF TailOf
  <2> QED
    BY <1>2, <2>1, <2>6 DEF fl, ft
<1> QED
  BY <1>1, <1>2

\* The tracker follows a shell: an exact text ends in its line, and if a risky line ran there
\* is a command that needs approval.
Follows(u, shell) ==
    /\ u.exact => TailOf(shell.line, u.text)
    /\ (\E ran \in Range(shell.ran) : IsRisky(ran)) => \E i \in 1..Len(u.done) : NeedsApproval(u.done[i])

\* Trimming keeps it: what was cut off is no longer called exact.
LEMMA TrimFollows ==
    ASSUME NEW w \in Observation, NEW shell \in ShellState, Follows(w, shell)
    PROVE  Follows(TrimTracked(w), shell)
  BY TrimKeeps DEF Follows

LEMMA KeyFollows ==
    ASSUME NEW u \in Observation, NEW shell \in ShellState, NEW key \in Keys, Follows(u, shell),
           NEW next \in PressKey(shell, key)
    PROVE  /\ next \in ShellState /\ Len(next.line) <= Len(shell.line) + 1
           /\ Follows(ObserveKey(u, key), next)
<1> DEFINE w == ObserveKey(u, key)
<1>1. /\ shell.line \in Seq(Chars) /\ shell.ran \in Seq(Seq(Chars)) /\ Len(shell.line) \in Nat
      /\ u.text \in Seq(Chars) /\ u.done \in Seq(Command) /\ u.exact \in BOOLEAN
  BY DEF ShellState, Observation
<1>4. w.text \in Seq(Chars)
  BY ObserveTyped DEF Observation
<1>2. CASE key = "enter"
  <2> DEFINE ran == Append(shell.ran, shell.line)
             c == [text |-> u.text, exact |-> u.exact]
  <2>1. next = [line |-> <<>>, ran |-> ran]
    BY <1>2 DEF PressKey
  <2>2. w.text = <<>> /\ w.done = IF u.text = <<>> /\ u.exact THEN u.done ELSE Append(u.done, c)
    BY <1>2, ObserveEnter
  <2>3. ran \in Seq(Seq(Chars)) /\ Range(ran) = Range(shell.ran) \cup {shell.line}
    <3> DEFINE T == Seq(Chars)
    <3>1. shell.ran \in Seq(T) /\ shell.line \in T
      BY <1>1
    <3> HIDE DEF T
    <3>2. ran \in Seq(T) /\ Range(ran) = Range(shell.ran) \cup {shell.line}
      BY <3>1, AppendKeeps
    <3> QED
      BY <3>2 DEF T
  <2>4. c \in Command /\ c.text = u.text /\ c.exact = u.exact
    BY DEF Observation, Command
  <2> HIDE DEF ran, c, w
  <2>5. next \in ShellState /\ next.line = <<>> /\ next.ran = ran
    BY <2>1, <2>3 DEF ShellState
  <2>6. ASSUME \E r \in Range(ran) : IsRisky(r) PROVE \E i \in 1..Len(w.done) : NeedsApproval(w.done[i])
    <3>1. CASE \E r \in Range(shell.ran) : IsRisky(r)
      <4>1. PICK i \in 1..Len(u.done) : NeedsApproval(u.done[i])
        BY <3>1 DEF Follows
      <4>2. i \in 1..Len(w.done) /\ w.done[i] = u.done[i]
        BY <1>1, <2>2, <2>4, <4>1
      <4> QED
        BY <4>1, <4>2
    <3>2. CASE IsRisky(shell.line)
      <4>1. u.exact => IsRisky(u.text)
        BY <1>1, <3>2, TailRisky DEF Follows
      <4>2. ~(u.text = <<>> /\ u.exact)
        <5>1. ~IsRisky(<<>>)
          BY DEF IsRisky, Range
        <5> QED
          BY <4>1, <5>1
      <4>3. NeedsApproval(c)
        BY <2>4, <4>1 DEF NeedsApproval
      <4>4. w.done = Append(u.done, c)
        BY <2>2, <4>2
      <4>5. Len(u.done) + 1 \in 1..Len(w.done) /\ w.done[Len(u.done) + 1] = c
        BY <1>1, <2>4, <4>4
      <4> QED
        BY <4>3, <4>5
    <3> QED
      BY <2>3, <2>6, <3>1, <3>2
  <2>7. TailOf(next.line, w.text)
    BY <1>4, <2>5, TailEmpty
  <2>8. Len(next.line) <= Len(shell.line) + 1
    BY <1>1, <2>5
  <2> QED
    BY <2>5, <2>6, <2>7, <2>8 DEF Follows, w
<1>3. CASE key # "enter"
  <2>1. w.done = u.done
    BY <1>3, ObserveOther
  <2>2. CASE key = "back"
    <3> DEFINE l == IF shell.line = <<>> THEN <<>> ELSE Front(shell.line)
               t == IF u.text = <<>> THEN <<>> ELSE Front(u.text)
    <3>1. w.text = t /\ w.exact = u.exact
      BY <1>3, <2>2, ObserveOther
    <3>2. next = [line |-> l, ran |-> shell.ran]
      BY <2>2 DEF PressKey, ShellState
    <3>3. l \in Seq(Chars) /\ Len(l) <= Len(shell.line) + 1
      <4>1. CASE shell.line = <<>>
        BY <1>1, <4>1
      <4>2. CASE shell.line # <<>>
        BY <1>1, <4>2, FrontKeeps
      <4> QED
        BY <4>1, <4>2
    <3>4. u.exact => TailOf(l, t)
      BY <1>1, TailFront DEF Follows
    <3> HIDE DEF l, t, w
    <3>5. next \in ShellState /\ next.line = l /\ next.ran = shell.ran
      BY <1>1, <3>2, <3>3 DEF ShellState
    <3> QED
      BY <2>1, <3>1, <3>3, <3>4, <3>5 DEF Follows, w
  <2>3. CASE key = "clear"
    <3>2. next = [line |-> <<>>, ran |-> shell.ran]
      BY <2>3 DEF PressKey, ShellState
    <3>3. next \in ShellState /\ next.line = <<>> /\ next.ran = shell.ran
      BY <1>1, <3>2 DEF ShellState
    <3>4. TailOf(next.line, w.text)
      BY <1>4, <3>3, TailEmpty
    <3>5. Len(next.line) <= Len(shell.line) + 1
      BY <1>1, <3>3
    <3> HIDE DEF w
    <3> QED
      BY <2>1, <3>3, <3>4, <3>5 DEF Follows, w
  <2>4. CASE key = "edit"
    <3>1. w.exact = FALSE
      BY <1>3, <2>4, ObserveOther
    <3>2. PICK l \in {shell.line, <<>>, <<"safe">>, <<"risky">>} : next = [line |-> l, ran |-> shell.ran]
      BY <2>4 DEF PressKey, ShellState
    <3>3. l \in Seq(Chars) /\ Len(l) <= Len(shell.line) + 1
      <4>1. /\ <<>> \in Seq(Chars) /\ Len(<<>>) = 0
            /\ <<"safe">> \in Seq(Chars) /\ Len(<<"safe">>) = 1
            /\ <<"risky">> \in Seq(Chars) /\ Len(<<"risky">>) = 1
        BY DEF Chars
      <4>2. CASE l = shell.line
        BY <1>1, <4>2
      <4>3. CASE l = <<>>
        BY <1>1, <4>1, <4>3
      <4>4. CASE l = <<"safe">>
        BY <1>1, <4>1, <4>4
      <4>5. CASE l = <<"risky">>
        BY <1>1, <4>1, <4>5
      <4> QED
        BY <4>2, <4>3, <4>4, <4>5
    <3>4. next \in ShellState /\ next.line = l /\ next.ran = shell.ran
      BY <1>1, <3>2, <3>3 DEF ShellState
    <3> HIDE DEF w
    <3> QED
      BY <2>1, <3>1, <3>3, <3>4 DEF Follows, w
  <2>5. CASE key \in Chars
    <3> DEFINE l == Append(shell.line, key)
               t == Append(u.text, key)
    <3>1. w.text = t /\ w.exact = u.exact
      BY <1>3, <2>5, ObserveOther
    <3>2. next = [line |-> l, ran |-> shell.ran]
      <4>1. key # "enter" /\ key # "back" /\ key # "clear" /\ key # "edit"
        BY <2>5 DEF Chars
      <4> QED
        BY <4>1 DEF PressKey, ShellState
    <3>3. l \in Seq(Chars) /\ Len(l) <= Len(shell.line) + 1
      BY <1>1, <2>5
    <3>4. u.exact => TailOf(l, t)
      BY <1>1, <2>5, TailAppend DEF Follows
    <3> HIDE DEF l, t, w
    <3>5. next \in ShellState /\ next.line = l /\ next.ran = shell.ran
      BY <1>1, <3>2, <3>3 DEF ShellState
    <3> QED
      BY <2>1, <3>1, <3>3, <3>4, <3>5 DEF Follows, w
  <2> QED
    BY <1>3, <2>2, <2>3, <2>4, <2>5 DEF Keys
<1> QED
  BY <1>2, <1>3

\* A key leaves a shell behind whatever the tracker makes of it.
LEMMA PressTyped ==
    ASSUME NEW shell \in ShellState, NEW key \in Keys, NEW next \in PressKey(shell, key) PROVE next \in ShellState
<1> DEFINE c == [text |-> <<>>, exact |-> FALSE]
           done == <<c>>
           u == [text |-> <<>>, exact |-> FALSE, done |-> done]
<1>1. c \in Command /\ NeedsApproval(c)
  BY DEF Command, NeedsApproval
<1> HIDE DEF c
<1>2. done \in Seq(Command) /\ Len(done) = 1 /\ done[1] = c
  BY <1>1
<1> HIDE DEF done
<1>3. u \in Observation /\ u.exact = FALSE /\ u.done = done
  BY <1>2 DEF Observation
<1> HIDE DEF u
<1>4. 1 \in 1..Len(u.done) /\ NeedsApproval(u.done[1])
  <2>1. Len(u.done) = 1 /\ u.done[1] = c
    BY <1>2, <1>3
  <2> QED
    BY <1>1, <2>1
<1>5. Follows(u, shell)
  BY <1>3, <1>4 DEF Follows
<1> QED
  BY <1>3, <1>5, KeyFollows

\* Typed is what its recursive function says.
TypesTo(f, keys) ==
    /\ f[0] = {[line |-> line, ran |-> <<>>]}
    /\ \A i \in 1..Len(keys) : f[i] = UNION {PressKey(shell, keys[i]) : shell \in f[i - 1]}
    /\ Typed(keys) = f[Len(keys)]

LEMMA TypedDefined ==
    ASSUME NEW keys \in Seq(Keys), line \in Seq(Chars) PROVE \E f : TypesTo(f, keys)
<1> DEFINE n == Len(keys)
           S == SUBSET ShellState
           x == {[line |-> line, ran |-> <<>>]}
           After(X, i) == UNION {PressKey(shell, keys[i]) : shell \in X}
           F == [i \in 1..n |-> [X \in S |-> After(X, i)]]
           Seen(g) == g = [i \in 0..n |-> IF i = 0 THEN x ELSE After(g[i - 1], i)]
           f == CHOOSE g : Seen(g)
<1>1. n \in Nat /\ \A i \in 1..n : keys[i] \in Keys
  OBVIOUS
<1>2. x \in S
  BY DEF ShellState
<1>3. F \in [1..n -> [S -> S]]
  <2>1. ASSUME NEW i \in 1..n, NEW X \in S PROVE After(X, i) \in S
    BY <1>1, PressTyped
  <2> HIDE DEF S, After
  <2> QED
    BY <2>1
<1>4. Typed(keys) = f[n]
  BY DEF Typed
<1> HIDE DEF F, n, x, S, After
<1>5. PICK g : Recursive(g, S, x, n, F)
  BY <1>1, <1>2, <1>3, Recursion
<1>6. /\ g \in [0..n -> S] /\ g[0] = x
      /\ \A i \in 1..n : g[i] = F[i][g[i - 1]]
  BY <1>5 DEF Recursive
<1>7. \A i \in 1..n : g[i] = After(g[i - 1], i)
  <2> TAKE i \in 1..n
  <2>1. i - 1 \in 0..n
    BY <1>1
  <2>2. g[i - 1] \in S
    BY <1>6, <2>1
  <2> QED
    BY <1>6, <2>2 DEF F
<1>8. \A i \in 0..n : i # 0 => i \in 1..n
  BY <1>1
<1>9. Seen(g)
  BY <1>6, <1>7, <1>8
<1>10. Seen(f)
  <2> HIDE DEF Seen
  <2> QED
    BY <1>9
<1>11. f[0] = x /\ \A i \in 1..n : f[i] = After(f[i - 1], i)
  <2> HIDE DEF f
  <2>1. 0 \in 0..n /\ \A i \in 1..n : i \in 0..n /\ i # 0
    BY <1>1
  <2> QED
    BY <1>10, <2>1
<1> HIDE DEF f
<1> QED
  BY <1>4, <1>11 DEF n, x, After, TypesTo

\* Whatever is typed, and whatever the keys that the tracker cannot tell do: from a line that
\* it knows the end of, the tracker follows every shell.
LEMMA ObservedFollows ==
    ASSUME NEW t \in Tracker, NEW keys \in Seq(Keys), line \in Seq(Chars),
           t.exact => TailOf(line, t.text), NEW sh \in Typed(keys)
    PROVE  /\ sh \in ShellState /\ Len(sh.line) <= Len(line) + Len(keys)
           /\ Follows(ObserveAll(t, keys), sh)
<1>1. PICK f : ObservesTo(f, t, keys)
  BY ObserveDefined
<1>2. PICK g : TypesTo(g, keys)
  BY TypedDefined
<1> DEFINE n == Len(keys)
           Good(k, s) == /\ s \in ShellState /\ Len(s.line) <= Len(line) + k
                         /\ f[k] \in Observation /\ Follows(f[k], s)
           A == {k \in Nat : k <= n => \A s \in g[k] : Good(k, s)}
<1>3. n \in Nat /\ (\A i \in 1..n : keys[i] \in Keys) /\ Len(line) \in Nat
  OBVIOUS
<1> HIDE DEF Good
<1>4. 0 \in A
  <2>1. SUFFICES ASSUME NEW s \in g[0] PROVE Good(0, s)
    OBVIOUS
  <2>2. s = [line |-> line, ran |-> <<>>]
    BY <1>2, <2>1 DEF TypesTo
  <2>3. s \in ShellState /\ s.line = line /\ Range(s.ran) = {}
    BY <2>2 DEF ShellState, Range
  <2>4. f[0] = [text |-> t.text, exact |-> t.exact, done |-> <<>>]
    BY <1>1 DEF ObservesTo
  <2>5. f[0] \in Observation /\ f[0].text = t.text /\ f[0].exact = t.exact
    BY <2>4 DEF Tracker, Observation
  <2>6. Follows(f[0], s)
    BY <2>3, <2>5 DEF Follows
  <2> QED
    BY <1>3, <2>3, <2>5, <2>6 DEF Good
<1>5. ASSUME NEW k \in Nat, k \in A PROVE k + 1 \in A
  <2>1. SUFFICES ASSUME k + 1 <= n, NEW s \in g[k + 1] PROVE Good(k + 1, s)
    OBVIOUS
  <2> DEFINE u == f[k]
             key == keys[k + 1]
             w == ObserveKey(u, key)
  <2>2. k + 1 \in 1..n /\ (k + 1) - 1 = k /\ k <= n
    BY <1>3, <2>1
  <2>3. /\ f[k + 1] = TrimTracked(w) /\ key \in Keys
        /\ g[k + 1] = UNION {PressKey(shell, key) : shell \in g[k]}
    BY <1>1, <1>2, <1>3, <2>2 DEF ObservesTo, TypesTo
  <2>4. PICK shell \in g[k] : s \in PressKey(shell, key)
    BY <2>1, <2>3
  <2>5. Good(k, shell)
    BY <1>5, <2>2, <2>4
  <2>6. shell \in ShellState /\ Len(shell.line) <= Len(line) + k /\ u \in Observation /\ Follows(u, shell)
    BY <2>5 DEF Good
  <2> HIDE DEF u, key
  <2>7. w \in Observation
    BY <2>3, <2>6, ObserveTyped
  <2>8. s \in ShellState /\ Len(s.line) <= Len(shell.line) + 1 /\ Follows(w, s)
    BY <2>3, <2>4, <2>6, KeyFollows
  <2> HIDE DEF w
  <2>9. TrimTracked(w) \in Observation /\ Follows(TrimTracked(w), s)
    BY <2>7, <2>8, TrimKeeps, TrimFollows
  <2>10. Len(s.line) <= Len(line) + (k + 1)
    <3>1. Len(s.line) \in Nat /\ Len(shell.line) \in Nat
      BY <2>6, <2>8 DEF ShellState
    <3> QED
      BY <1>3, <2>6, <2>8, <3>1
  <2> QED
    BY <2>3, <2>8, <2>9, <2>10 DEF Good
<1>6. Nat \subseteq A
  <2> HIDE DEF A
  <2> QED
    BY <1>4, <1>5, Induction
<1>7. sh \in g[n] /\ ObserveAll(t, keys) = f[n]
  BY <1>1, <1>2 DEF ObservesTo, TypesTo
<1>8. Good(n, sh)
  BY <1>3, <1>6, <1>7
<1> QED
  BY <1>7, <1>8 DEF Good

\* From any line a shell stays a shell, and a key makes its line longer by one at most.
LEMMA TypedTyped ==
    ASSUME NEW keys \in Seq(Keys), line \in Seq(Chars), NEW sh \in Typed(keys)
    PROVE  sh \in ShellState /\ Len(sh.line) <= Len(line) + Len(keys)
<1> DEFINE t == [text |-> <<>>, exact |-> FALSE, sensitive |-> FALSE]
<1>1. t \in Tracker /\ ~t.exact
  BY DEF Tracker
<1> HIDE DEF t
<1> QED
  BY <1>1, ObservedFollows

\* The input that holds the lock, over a line and what the history shows.
Input == [stage : {"asking", "recording", "writing"}, who : Writers, keys : Seq(Keys),
          saved : Tracker, commands : Seq(Command), asked : SUBSET Nat, approved : SUBSET Nat,
          guarded : BOOLEAN, redact : BOOLEAN]

InputTyped(i) ==
    /\ i \in Input /\ Len(i.saved.text) <= MaxTracked
    /\ i.commands = ObserveAll(i.saved, i.keys).done
    /\ i.asked \subseteq 1..Len(i.commands) /\ i.approved \subseteq i.asked

\* A tracked text with a secret is marked, and what an unmarked input types or submits has none.
Marked(t) == "secret" \in Range(t.text) => t.sensitive

InputHides(i) ==
    /\ Marked(i.saved)
    /\ ~i.redact => /\ "secret" \notin Range(i.keys)
                    /\ \A c \in 1..Len(i.commands) : "secret" \notin Range(i.commands[c].text)

\* With the guard on, everything that needs an approval is asked about, and nothing gets as far
\* as the write before all of it is approved.
InputGuarded(i) ==
    /\ i.guarded => i.asked = {c \in 1..Len(i.commands) : NeedsApproval(i.commands[c])}
    /\ ~i.guarded => i.asked = {}
    /\ i.stage = "asking" => i.who = "agent"
    /\ i.stage = "writing" => i.asked = {} \/ i.approved # {}
    /\ i.stage = "recording" /\ i.who # "cli" => i.asked = {} \/ i.approved # {}

KnowsEnd(t, l) == t.exact => TailOf(l, t.text)

\* What the tracker is ahead of the line by is the input.
Ahead(i, t) ==
    /\ t.text = ObserveAll(i.saved, i.keys).text
    /\ t.exact = ObserveAll(i.saved, i.keys).exact

TypesSound ==
    /\ line \in Seq(Chars) /\ Len(line) <= MaxLine
    /\ tracked \in Tracker /\ Len(tracked.text) <= MaxTracked
    /\ posted \in BOOLEAN /\ dropped \in BOOLEAN /\ slipped \in BOOLEAN /\ shown \subseteq Chars
    /\ input # NoInput => InputTyped(input) /\ Len(line) + Len(input.keys) <= MaxLine

SecretsSound == Marked(tracked) /\ "secret" \notin shown /\ (input # NoInput => InputHides(input))

ApprovalsSound == input # NoInput => InputGuarded(input)

TracksSound ==
    ~dropped => /\ ~slipped
                /\ input = NoInput => KnowsEnd(tracked, line)
                /\ input # NoInput => KnowsEnd(input.saved, line) /\ Ahead(input, tracked)

LineSound == TypesSound /\ SecretsSound /\ ApprovalsSound /\ TracksSound

LEMMA HeldInput == ASSUME NEW i \in Input PROVE i # NoInput /\ i.stage \in {"asking", "recording", "writing"}
  BY DEF Input, NoInput

LEMMA InputsTyped == ASSUME NEW keys \in Inputs PROVE keys \in Seq(Keys)
<1>1. PICK n \in 1..MaxKeys : keys \in [1..n -> Keys]
  BY DEF Inputs
<1> QED
  BY <1>1, TrackedAssumption

LEMMA BeginSound ==
    ASSUME LineSound, NEW who \in Writers, NEW keys \in Inputs, NEW sensitive \in BOOLEAN,
           NEW guarded \in BOOLEAN, BeginInput(who, keys, sensitive, guarded)
    PROVE  LineSound'
<1> DEFINE seen == ObserveAll(tracked, keys)
           commands == seen.done
           asked == IF ~guarded THEN {} ELSE {i \in DOMAIN commands : NeedsApproval(commands[i])}
           stage == IF who = "person" THEN "writing"
                    ELSE IF who = "agent" /\ asked # {} THEN "asking" ELSE "recording"
           redact == tracked.sensitive \/ sensitive
           mark == (tracked.sensitive \/ sensitive) /\ ~(seen.text = <<>> /\ seen.exact)
           held == [stage |-> stage, who |-> who, keys |-> keys, saved |-> tracked,
                    commands |-> commands, asked |-> asked, approved |-> {}, guarded |-> guarded,
                    redact |-> redact]
<1>1. /\ input = NoInput /\ Len(line) + Len(keys) <= MaxLine
      /\ who = "person" => ~sensitive /\ ~guarded
      /\ "secret" \in Range(keys) => sensitive
      /\ input' = held
      /\ tracked' = [text |-> seen.text, exact |-> seen.exact, sensitive |-> mark]
      /\ line' = line /\ posted' = posted /\ shown' = shown /\ dropped' = dropped /\ slipped' = slipped
  BY DEF BeginInput, Observed
<1>2. keys \in Seq(Keys) /\ tracked \in Tracker /\ Len(tracked.text) <= MaxTracked
  BY InputsTyped DEF LineSound, TypesSound
<1>3. /\ seen \in Observation /\ Within(seen, Range(tracked.text) \cup Range(keys))
      /\ Len(seen.text) <= MaxTracked
  BY <1>2, ObserveAllKeeps
<1>4. commands \in Seq(Command) /\ seen.text \in Seq(Chars) /\ seen.exact \in BOOLEAN
  BY <1>3 DEF Observation
<1>5. asked \subseteq 1..Len(commands) /\ asked \in SUBSET Nat
  BY <1>4
<1>6. /\ guarded => asked = {c \in 1..Len(commands) : NeedsApproval(commands[c])}
      /\ ~guarded => asked = {}
  <2>1. DOMAIN commands = 1..Len(commands)
    BY <1>4
  <2> QED
    BY <2>1
<1>7. /\ stage \in {"asking", "recording", "writing"}
      /\ stage = "asking" => who = "agent"
      /\ stage = "writing" => asked = {}
      /\ stage = "recording" /\ who # "cli" => asked = {}
  <2>1. who \in {"person", "agent", "cli"}
    BY DEF Writers
  <2>2. who = "person" => asked = {}
    BY <1>1, <1>6
  <2> HIDE DEF asked
  <2> QED
    BY <2>1, <2>2
<1>8. mark \in BOOLEAN /\ redact \in BOOLEAN
  OBVIOUS
<1>9. "secret" \in Range(seen.text) => mark
  <2>1. ASSUME "secret" \in Range(seen.text) PROVE tracked.sensitive \/ sensitive
    <3>1. "secret" \in Range(tracked.text) \/ "secret" \in Range(keys)
      BY <1>3, <2>1 DEF Within
    <3> QED
      BY <1>1, <3>1 DEF LineSound, SecretsSound, Marked
  <2>2. ASSUME "secret" \in Range(seen.text) PROVE seen.text # <<>>
    BY <2>2 DEF Range
  <2> QED
    BY <2>1, <2>2
<1>10. ~redact => /\ "secret" \notin Range(keys)
                  /\ \A c \in 1..Len(commands) : "secret" \notin Range(commands[c].text)
  <2>1. ~redact => "secret" \notin Range(tracked.text) /\ "secret" \notin Range(keys)
    BY <1>1 DEF LineSound, SecretsSound, Marked
  <2> QED
    BY <1>3, <2>1 DEF Within
<1> HIDE DEF asked, stage, redact, mark, commands
<1>11. /\ held \in Input /\ held.saved = tracked /\ held.keys = keys /\ held.commands = commands
       /\ held.asked = asked /\ held.approved = {} /\ held.guarded = guarded /\ held.redact = redact
       /\ held.stage = stage /\ held.who = who
  BY <1>2, <1>4, <1>5, <1>7, <1>8 DEF Input
<1> HIDE DEF held
<1>12. InputTyped(held)
  BY <1>2, <1>5, <1>11 DEF InputTyped, commands
<1>13. InputHides(held)
  <2>1. Marked(tracked)
    BY DEF LineSound, SecretsSound
  <2> QED
    BY <1>10, <1>11, <2>1 DEF InputHides
<1>14. InputGuarded(held)
  BY <1>6, <1>7, <1>11 DEF InputGuarded
<1> HIDE DEF seen
<1>15. tracked' \in Tracker /\ tracked'.text = seen.text /\ tracked'.exact = seen.exact /\ tracked'.sensitive = mark
  BY <1>1, <1>4, <1>8 DEF Tracker
<1>16. TypesSound'
  BY <1>1, <1>3, <1>11, <1>12, <1>15 DEF LineSound, TypesSound
<1>17. SecretsSound'
  <2>1. Marked(tracked')
    BY <1>9, <1>15 DEF Marked
  <2> QED
    BY <1>1, <1>13, <2>1 DEF LineSound, SecretsSound
<1>18. ApprovalsSound'
  BY <1>1, <1>14 DEF ApprovalsSound
<1>19. TracksSound'
  <2>1. held # NoInput
    BY <1>11, HeldInput
  <2>2. Ahead(held, tracked')
    BY <1>11, <1>15 DEF Ahead, seen
  <2> QED
    BY <1>1, <1>11, <2>1, <2>2 DEF LineSound, TracksSound
<1> QED
  BY <1>16, <1>17, <1>18, <1>19 DEF LineSound

\* What an input shows hides the secrets, if it is marked or has none to show.
LEMMA RevealSound ==
    ASSUME LineSound, input # NoInput, NEW what, Reveal(what), ~input.redact => "secret" \notin what
    PROVE  shown' \subseteq Chars /\ "secret" \notin shown'
  BY DEF LineSound, TypesSound, SecretsSound, Reveal

\* An input that is taken back leaves the tracker where the line still is.
LEMMA TakeBackSound ==
    ASSUME LineSound, input # NoInput, Release, Restore, line' = line,
           shown' \subseteq Chars, "secret" \notin shown', UNCHANGED <<posted, dropped, slipped>>
    PROVE  LineSound'
<1>1. input' = NoInput /\ tracked' = input.saved
  BY DEF Release, Restore
<1>2. InputTyped(input) /\ input.saved \in Tracker /\ Marked(input.saved)
  <2>1. InputTyped(input)
    BY DEF LineSound, TypesSound
  <2>2. input.saved \in Tracker
    BY <2>1 DEF InputTyped, Input
  <2> QED
    BY <2>1, <2>2 DEF LineSound, SecretsSound, InputHides
<1>3. TypesSound'
  BY <1>1, <1>2 DEF LineSound, TypesSound, InputTyped
<1>4. SecretsSound'
  BY <1>1, <1>2 DEF SecretsSound
<1>5. ApprovalsSound'
  BY <1>1 DEF ApprovalsSound
<1>6. TracksSound'
  BY <1>1 DEF LineSound, TracksSound
<1> QED
  BY <1>3, <1>4, <1>5, <1>6 DEF LineSound

\* An input that goes on keeps what it is about.
LEMMA AdvanceSound ==
    ASSUME LineSound, input # NoInput, NEW stage \in {"asking", "recording", "writing"},
           NEW approved, approved \subseteq input.asked,
           input' = [input EXCEPT !.approved = approved, !.stage = stage],
           stage = "asking" => input.who = "agent",
           stage = "writing" => input.asked = {} \/ approved # {},
           stage = "recording" /\ input.who # "cli" => input.asked = {} \/ approved # {},
           shown' \subseteq Chars, "secret" \notin shown',
           UNCHANGED <<line, tracked, posted, dropped, slipped>>
    PROVE  LineSound'
<1> DEFINE held == [input EXCEPT !.approved = approved, !.stage = stage]
<1>1. InputTyped(input) /\ input \in Input
  BY DEF LineSound, TypesSound, InputTyped
<1>2. /\ held \in Input /\ held.saved = input.saved /\ held.keys = input.keys
      /\ held.commands = input.commands /\ held.asked = input.asked /\ held.approved = approved
      /\ held.guarded = input.guarded /\ held.redact = input.redact
      /\ held.stage = stage /\ held.who = input.who
  <2>1. approved \in SUBSET Nat
    BY <1>1 DEF Input
  <2> QED
    BY <1>1, <2>1 DEF Input
<1>3. input' = held
  OBVIOUS
<1> HIDE DEF held
<1>4. held # NoInput
  BY <1>2, HeldInput
<1>5. InputTyped(held)
  BY <1>1, <1>2 DEF InputTyped
<1>6. InputHides(held)
  BY <1>2 DEF LineSound, SecretsSound, InputHides
<1>7. InputGuarded(held)
  BY <1>2 DEF LineSound, ApprovalsSound, InputGuarded
<1>8. TypesSound'
  BY <1>2, <1>3, <1>5 DEF LineSound, TypesSound
<1>9. SecretsSound'
  BY <1>3, <1>6 DEF LineSound, SecretsSound
<1>10. ApprovalsSound'
  BY <1>3, <1>7 DEF ApprovalsSound
<1>11. TracksSound'
  <2>1. ~dropped => KnowsEnd(input.saved, line) /\ Ahead(input, tracked) /\ ~slipped
    BY DEF LineSound, TracksSound
  <2>2. ~dropped => KnowsEnd(held.saved, line) /\ Ahead(held, tracked)
    BY <1>2, <2>1 DEF Ahead
  <2> QED
    BY <1>3, <1>4, <2>1, <2>2 DEF TracksSound
<1> QED
  BY <1>8, <1>9, <1>10, <1>11 DEF LineSound

\* An answer to the dialog: the next command, all of them, or the input back.
LEMMA AnswerSound ==
    ASSUME LineSound, NEW granted \in BOOLEAN, AnswerApproval(granted) PROVE LineSound'
<1>1. PICK i \in input.asked \ input.approved :
         /\ Reveal(Range(input.commands[i].text))
         /\ IF granted
              THEN /\ input' = [input EXCEPT !.approved = @ \cup {i},
                         !.stage = IF input.asked = input.approved \cup {i} THEN "recording" ELSE @]
                   /\ UNCHANGED tracked
              ELSE Release /\ Restore
  BY DEF AnswerApproval
<1>2. input.stage = "asking" /\ input # NoInput /\ UNCHANGED <<line, posted, dropped, slipped>>
  BY DEF AnswerApproval, NoInput
<1>3. InputTyped(input) /\ input \in Input /\ input.who = "agent" /\ InputHides(input)
  BY <1>2 DEF LineSound, TypesSound, InputTyped, SecretsSound, ApprovalsSound, InputGuarded
<1>4. ~input.redact => "secret" \notin Range(input.commands[i].text)
  BY <1>1, <1>3 DEF InputTyped, InputHides
<1>5. shown' \subseteq Chars /\ "secret" \notin shown'
  <2> DEFINE what == Range(input.commands[i].text)
  <2>1. Reveal(what) /\ ~input.redact => "secret" \notin what
    BY <1>1, <1>4
  <2>2. Reveal(what)
    BY <1>1
  <2> HIDE DEF what
  <2> QED
    BY <1>2, <2>1, <2>2, <1>4, RevealSound DEF what
<1>6. CASE granted
  <2> DEFINE stage == IF input.asked = input.approved \cup {i} THEN "recording" ELSE input.stage
             approved == input.approved \cup {i}
  <2>1. input' = [input EXCEPT !.approved = approved, !.stage = stage]
    BY <1>1, <1>6
  <2>2. approved \subseteq input.asked /\ approved # {}
    BY <1>1, <1>3 DEF InputTyped
  <2>3. stage \in {"asking", "recording", "writing"} /\ stage # "writing"
    BY <1>2
  <2> HIDE DEF stage, approved
  <2> QED
    BY <1>1, <1>2, <1>3, <1>5, <1>6, <2>1, <2>2, <2>3, AdvanceSound
<1>7. CASE ~granted
  BY <1>1, <1>2, <1>5, <1>7, TakeBackSound
<1> QED
  BY <1>6, <1>7

\* The records: the input goes on, or it is taken back.
LEMMA RecordSound ==
    ASSUME LineSound, NEW saved \in BOOLEAN, RecordInput(saved) PROVE LineSound'
<1>1. /\ input.stage = "recording" /\ input # NoInput /\ Reveal(Recorded)
      /\ UNCHANGED <<line, posted, dropped, slipped>>
  BY DEF RecordInput, NoInput
<1>2. InputTyped(input) /\ input \in Input /\ InputHides(input) /\ InputGuarded(input)
  BY <1>1 DEF LineSound, TypesSound, InputTyped, SecretsSound, ApprovalsSound
<1>3. ~input.redact => "secret" \notin Recorded
  <2>1. DOMAIN input.commands = 1..Len(input.commands)
    BY <1>2 DEF Input
  <2>2. ASSUME "secret" \in Recorded
        PROVE  \/ "secret" \in Range(input.keys)
               \/ \E c \in 1..Len(input.commands) : "secret" \in Range(input.commands[c].text)
    <3> DEFINE texts == {Range(input.commands[i].text) : i \in DOMAIN input.commands}
               rest == IF input.who = "cli" /\ input.commands = <<>> THEN Range(input.keys) ELSE {}
    <3>1. "secret" \in UNION texts \/ "secret" \in rest
      BY <2>2 DEF Recorded
    <3>2. CASE "secret" \in UNION texts
      BY <2>1, <3>2
    <3>3. CASE "secret" \in rest
      BY <3>3
    <3> QED
      BY <3>1, <3>2, <3>3
  <2> QED
    BY <1>2, <2>2 DEF InputHides
<1>4. shown' \subseteq Chars /\ "secret" \notin shown'
  <2> DEFINE what == Recorded
  <2>1. Reveal(what)
    BY <1>1
  <2>2. ~input.redact => "secret" \notin what
    BY <1>3
  <2> HIDE DEF what
  <2> QED
    BY <1>1, <2>1, <2>2, RevealSound
<1>5. CASE saved /\ (input.who = "cli" => input.asked = {})
  <2> DEFINE stage == "writing"
             approved == input.approved
  <2>1. input' = [input EXCEPT !.stage = "writing"] /\ UNCHANGED tracked
    BY <1>5 DEF RecordInput
  <2>2. input' = [input EXCEPT !.approved = approved, !.stage = stage]
    BY <1>2, <2>1 DEF Input
  <2>3. approved \subseteq input.asked
    BY <1>2 DEF InputTyped
  <2>4. input.asked = {} \/ approved # {}
    <3>1. CASE input.who = "cli"
      BY <1>5, <3>1
    <3>2. CASE input.who # "cli"
      BY <1>1, <1>2, <3>2 DEF InputGuarded
    <3> QED
      BY <3>1, <3>2
  <2>5. stage \in {"asking", "recording", "writing"} /\ stage = "writing"
    OBVIOUS
  <2> HIDE DEF stage, approved
  <2> QED
    BY <1>1, <1>2, <1>4, <2>1, <2>2, <2>3, <2>4, <2>5, AdvanceSound
<1>6. CASE ~(saved /\ (input.who = "cli" => input.asked = {}))
  <2>1. Release /\ Restore
    BY <1>6 DEF RecordInput
  <2> QED
    BY <1>1, <1>4, <2>1, TakeBackSound
<1> QED
  BY <1>5, <1>6

\* The write: what the shell makes of it, the tracker has seen.
LEMMA WriteSound ==
    ASSUME LineSound, NEW sent \in BOOLEAN, WriteInput(sent) PROVE LineSound'
<1>1. /\ input.stage = "writing" /\ input # NoInput /\ Release
      /\ UNCHANGED <<posted, dropped>>
  BY DEF WriteInput, NoInput
<1>2. InputTyped(input) /\ input \in Input /\ InputHides(input) /\ InputGuarded(input)
  BY <1>1 DEF LineSound, TypesSound, InputTyped, SecretsSound, ApprovalsSound
<1>3. shown' \subseteq Chars /\ "secret" \notin shown'
  <2> DEFINE what == Range(input.keys)
  <2>1. CASE input.who = "agent"
    <3>1. Reveal(what)
      BY <2>1 DEF WriteInput
    <3>2. ~input.redact => "secret" \notin what
      BY <1>2 DEF InputHides
    <3> HIDE DEF what
    <3> QED
      BY <1>1, <3>1, <3>2, RevealSound
  <2>2. CASE input.who # "agent"
    BY <2>2 DEF WriteInput, LineSound, TypesSound, SecretsSound
  <2> QED
    BY <2>1, <2>2
<1>4. CASE ~sent
  BY <1>1, <1>3, <1>4, TakeBackSound DEF WriteInput
<1>5. CASE sent
  <2> DEFINE seen == ObserveAll(input.saved, input.keys)
             ran(shell) == /\ input.guarded
                           /\ \E r \in Range(shell.ran) : IsRisky(r) /\ input.approved = {}
  <2>1. PICK shell \in Typed(input.keys) : line' = shell.line /\ slipped' = (slipped \/ ran(shell))
    BY <1>5 DEF WriteInput
  <2>2. input' = NoInput /\ tracked' = tracked /\ dropped' = dropped /\ posted' = posted
    BY <1>1, <1>5 DEF WriteInput, Release
  <2>3. /\ line \in Seq(Chars) /\ Len(line) + Len(input.keys) <= MaxLine
        /\ input.saved \in Tracker /\ input.keys \in Seq(Keys)
        /\ slipped \in BOOLEAN /\ dropped \in BOOLEAN
    BY <1>1, <1>2 DEF LineSound, TypesSound, Input
  <2>4. shell \in ShellState
    BY <2>1, <2>3, TypedTyped
  <2>5. Len(shell.line) <= MaxLine
    <3>1. Len(shell.line) <= Len(line) + Len(input.keys)
      BY <2>1, <2>3, TypedTyped
    <3>2. Len(shell.line) \in Nat /\ Len(line) \in Nat /\ Len(input.keys) \in Nat /\ MaxLine \in Nat
      BY <2>3, <2>4, TrackedAssumption DEF ShellState
    <3> QED
      BY <2>3, <3>1, <3>2
  <2>6. TypesSound'
    <3>1. shell.line \in Seq(Chars)
      BY <2>4 DEF ShellState
    <3>2. (slipped \/ ran(shell)) \in BOOLEAN
      OBVIOUS
    <3> HIDE DEF ran
    <3>3. tracked \in Tracker /\ Len(tracked.text) <= MaxTracked /\ posted \in BOOLEAN
      BY DEF LineSound, TypesSound
    <3> QED
      BY <1>3, <2>1, <2>2, <2>3, <2>5, <3>1, <3>2, <3>3 DEF TypesSound
  <2>7. SecretsSound'
    BY <1>3, <2>2 DEF LineSound, SecretsSound
  <2>8. ApprovalsSound'
    BY <2>2 DEF ApprovalsSound
  <2>9. ASSUME ~dropped PROVE ~slipped' /\ KnowsEnd(tracked, shell.line)
    <3>1. ~slipped /\ KnowsEnd(input.saved, line) /\ Ahead(input, tracked)
      BY <1>1, <2>9 DEF LineSound, TracksSound
    <3>2. Follows(seen, shell)
      BY <2>1, <2>3, <3>1, ObservedFollows DEF KnowsEnd
    <3>3. ~ran(shell)
      <4>1. SUFFICES ASSUME input.guarded, NEW r \in Range(shell.ran), IsRisky(r) PROVE input.approved # {}
        OBVIOUS
      <4>2. PICK c \in 1..Len(seen.done) : NeedsApproval(seen.done[c])
        BY <3>2, <4>1 DEF Follows
      <4>3. seen.done = input.commands
        BY <1>2 DEF InputTyped
      <4> HIDE DEF seen
      <4>4. c \in 1..Len(input.commands) /\ NeedsApproval(input.commands[c])
        BY <4>2, <4>3
      <4>5. input.asked # {}
        BY <1>2, <4>1, <4>4 DEF InputGuarded
      <4> QED
        BY <1>1, <1>2, <4>5 DEF InputGuarded
    <3>4. KnowsEnd(tracked, shell.line)
      BY <3>1, <3>2 DEF KnowsEnd, Ahead, Follows
    <3> HIDE DEF ran
    <3> QED
      BY <2>1, <3>1, <3>3, <3>4
  <2>10. TracksSound'
    BY <2>1, <2>2, <2>9 DEF TracksSound
  <2> QED
    BY <2>6, <2>7, <2>8, <2>10 DEF LineSound
<1> QED
  BY <1>4, <1>5

LEMMA DropSound == ASSUME LineSound, DropInput PROVE LineSound'
<1>1. input' = NoInput /\ dropped' = TRUE /\ UNCHANGED <<line, tracked, posted, shown, slipped>>
  BY DEF DropInput, Release
<1> QED
  BY <1>1 DEF LineSound, TypesSound, SecretsSound, ApprovalsSound, TracksSound

\* What the login runs takes the line away: nothing is left that the tracker does not know.
LEMMA PostSound == ASSUME LineSound, PostLogin PROVE LineSound'
<1> DEFINE l == line'
<1>1. l = <<>> /\ posted' = TRUE /\ UNCHANGED <<tracked, input, shown, dropped, slipped>>
  BY DEF PostLogin
<1>2. l \in Seq(Chars) /\ Len(l) = 0 /\ Len(line) \in Nat /\ MaxLine \in Nat
  BY <1>1, TrackedAssumption DEF LineSound, TypesSound
<1>3. input # NoInput => InputTyped(input) /\ Len(input.keys) \in Nat /\ input.saved \in Tracker
  BY DEF LineSound, TypesSound, InputTyped, Input
<1>4. TypesSound'
  <2>1. input # NoInput => Len(line) + Len(input.keys) <= MaxLine
    BY DEF LineSound, TypesSound
  <2>2. input # NoInput => Len(l) + Len(input.keys) <= MaxLine
    BY <1>2, <1>3, <2>1
  <2> QED
    BY <1>1, <1>2, <2>2 DEF LineSound, TypesSound
<1>5. SecretsSound' /\ ApprovalsSound'
  BY <1>1 DEF LineSound, SecretsSound, ApprovalsSound
<1>6. TracksSound'
  <2>1. TailOf(l, tracked.text)
    <3>1. tracked.text \in Seq(Chars)
      BY DEF LineSound, TypesSound, Tracker
    <3> QED
      BY <1>1, <3>1, TailEmpty
  <2>2. input # NoInput => TailOf(l, input.saved.text)
    <3>1. input # NoInput => input.saved.text \in Seq(Chars)
      BY <1>3 DEF Tracker
    <3> QED
      BY <1>1, <3>1, TailEmpty
  <2>3. TracksSound
    BY DEF LineSound
  <2> QED
    BY <1>1, <2>1, <2>2, <2>3 DEF TracksSound, KnowsEnd, Ahead
<1> QED
  BY <1>4, <1>5, <1>6 DEF LineSound

LEMMA LineInitSound == ASSUME LineInit PROVE LineSound
<1> DEFINE e == <<>>
<1>1. /\ line = e /\ input = NoInput /\ posted = FALSE /\ shown = {} /\ dropped = FALSE /\ slipped = FALSE
      /\ tracked = [text |-> e, exact |-> TRUE, sensitive |-> FALSE]
  BY DEF LineInit, EmptyTracked
<1>2. e \in Seq(Chars) /\ Len(e) = 0 /\ Range(e) = {} /\ MaxLine \in Nat /\ MaxTracked \in Nat
  BY TrackedAssumption DEF Range
<1>3. TailOf(e, e)
  BY <1>2, TailEmpty
<1> HIDE DEF e
<1>4. tracked \in Tracker /\ tracked.text = e
  BY <1>1, <1>2 DEF Tracker
<1>5. TypesSound
  <2>1. line \in Seq(Chars) /\ Len(line) <= MaxLine /\ Len(tracked.text) <= MaxTracked
    BY <1>1, <1>2, <1>4
  <2>2. posted \in BOOLEAN /\ dropped \in BOOLEAN /\ slipped \in BOOLEAN /\ shown \subseteq Chars
    BY <1>1
  <2> QED
    BY <1>1, <1>4, <2>1, <2>2 DEF TypesSound
<1>6. SecretsSound
  BY <1>1, <1>2, <1>4 DEF SecretsSound, Marked
<1>7. ApprovalsSound /\ TracksSound
  BY <1>1, <1>3, <1>4 DEF ApprovalsSound, TracksSound, KnowsEnd
<1> QED
  BY <1>5, <1>6, <1>7 DEF LineSound

LEMMA LineStepSound == ASSUME LineSound, [LineNext]_lineVars PROVE LineSound'
<1>1. CASE \E who \in Writers, keys \in Inputs, sensitive, guarded \in BOOLEAN :
             BeginInput(who, keys, sensitive, guarded)
  BY <1>1, BeginSound
<1>2. CASE \E granted \in BOOLEAN : AnswerApproval(granted)
  BY <1>2, AnswerSound
<1>3. CASE \E saved \in BOOLEAN : RecordInput(saved)
  BY <1>3, RecordSound
<1>4. CASE \E sent \in BOOLEAN : WriteInput(sent)
  BY <1>4, WriteSound
<1>5. CASE DropInput
  BY <1>5, DropSound
<1>6. CASE PostLogin
  BY <1>6, PostSound
<1>7. CASE UNCHANGED lineVars
  BY <1>7 DEF lineVars, LineSound, TypesSound, SecretsSound, ApprovalsSound, TracksSound
<1> QED
  BY <1>1, <1>2, <1>3, <1>4, <1>5, <1>6, <1>7 DEF LineNext

LEMMA LineSoundAlways == LineSpec => []LineSound
<1>1. LineInit => LineSound
  BY LineInitSound
<1>2. LineSound /\ [LineNext]_lineVars => LineSound'
  BY LineStepSound
<1> QED
  BY <1>1, <1>2, PTL DEF LineSpec

LEMMA LineSoundTyped == ASSUME LineSound PROVE LineTypeOK
<1>1. tracked \in [text : Seq(Chars), exact : BOOLEAN, sensitive : BOOLEAN]
  BY DEF LineSound, TypesSound, Tracker
<1>2. CASE input # NoInput
  <2>1. InputTyped(input) /\ input \in Input
    BY <1>2 DEF LineSound, TypesSound, InputTyped
  <2>2. /\ input.stage \in {"asking", "recording", "writing"} /\ input.who \in Writers
        /\ input.keys \in Seq(Keys) /\ {input.redact, input.guarded} \subseteq BOOLEAN
    BY <2>1 DEF Input
  <2>3. input.asked \in SUBSET (1..Len(input.commands)) /\ input.approved \subseteq input.asked
    BY <2>1 DEF InputTyped
  <2> QED
    BY <1>1, <2>2, <2>3 DEF LineSound, TypesSound, LineTypeOK
<1> QED
  BY <1>1, <1>2 DEF LineSound, TypesSound, LineTypeOK

\* Of the shared line: every reachable state has its types. What the tracker keeps of a line is
\* never longer than MAX_TRACKED_COMMAND_BYTES, and an input never approves what it did not ask.
THEOREM LineTypes == LineSpec => []LineTypeOK
<1>1. LineSound => LineTypeOK
  BY LineSoundTyped
<1> QED
  BY <1>1, LineSoundAlways, PTL

\* Whatever is typed, by whom, and however long: while no call was dropped no risky line
\* runs on a guarded Enter that nobody approved, and a secret never shows.
THEOREM LineTracked == LineSpec => []LineIsTracked
<1>1. LineSound => LineIsTracked
  BY DEF LineSound, SecretsSound, TracksSound, LineIsTracked, SubmittedAsClassified, SecretsStayHidden
<1> QED
  BY <1>1, LineSoundAlways, PTL

-----------------------------------------------------------------------------
(* Workspace. *)

\* KeepOnly is what its recursive function says: nothing at first, then an element more at each
\* place that holds one of the set.
KeepsTo(kept, T, seq, set) ==
    /\ kept \in [0..Len(seq) -> Seq(T)] /\ KeepOnly(seq, set) = kept[Len(seq)]
    /\ kept[0] = <<>>
    /\ \A i \in 1..Len(seq) :
         kept[i] = IF seq[i] \in set THEN Append(kept[i - 1], seq[i]) ELSE kept[i - 1]

LEMMA KeepDefined ==
    ASSUME NEW T, NEW seq \in Seq(T), NEW set PROVE \E kept : KeepsTo(kept, T, seq, set)
<1> DEFINE n == Len(seq)
           F == [i \in 1..n |-> [s \in Seq(T) |-> IF seq[i] \in set THEN Append(s, seq[i]) ELSE s]]
           Kept(g) == g = [i \in 0..n |->
                        IF i = 0 THEN <<>>
                        ELSE IF seq[i] \in set THEN Append(g[i - 1], seq[i]) ELSE g[i - 1]]
           f == CHOOSE g : Kept(g)
<1>1. n \in Nat /\ \A i \in 1..n : seq[i] \in T
  OBVIOUS
<1>2. F \in [1..n -> [Seq(T) -> Seq(T)]] /\ <<>> \in Seq(T)
  <2>1. \A i \in 1..n, s \in Seq(T) : (IF seq[i] \in set THEN Append(s, seq[i]) ELSE s) \in Seq(T)
    BY <1>1
  <2> QED
    BY <2>1
<1> HIDE DEF F, n
<1>3. PICK g \in [0..n -> Seq(T)] : g[0] = <<>> /\ \A i \in 1..n : g[i] = F[i][g[i - 1]]
  <2> DEFINE S == Seq(T)
             x == <<>>
  <2>1. x \in S /\ F \in [1..n -> [S -> S]]
    BY <1>2
  <2> HIDE DEF S, x
  <2>2. \E g : Recursive(g, S, x, n, F)
    BY <1>1, <2>1, Recursion
  <2> QED
    BY <2>2 DEF S, x, Recursive
<1>4. \A i \in 1..n : g[i] = IF seq[i] \in set THEN Append(g[i - 1], seq[i]) ELSE g[i - 1]
  <2> TAKE i \in 1..n
  <2>1. i - 1 \in 0..n
    BY <1>1
  <2>2. g[i - 1] \in Seq(T)
    BY <2>1
  <2> QED
    BY <1>3, <2>2 DEF F
<1>5. \A i \in 0..n : i # 0 => i \in 1..n
  BY <1>1
<1>6. Kept(g)
  BY <1>3, <1>4, <1>5
<1>7. Kept(f)
  <2> HIDE DEF Kept
  <2> QED
    BY <1>6
<1>8. KeepOnly(seq, set) = f[n]
  BY DEF KeepOnly, n
<1>9. f[0] = <<>> /\ \A i \in 1..n : f[i] = IF seq[i] \in set THEN Append(f[i - 1], seq[i]) ELSE f[i - 1]
  <2> HIDE DEF f
  <2>1. 0 \in 0..n /\ \A i \in 1..n : i \in 0..n /\ i # 0
    BY <1>1
  <2> QED
    BY <1>7, <2>1
<1>10. f \in [0..n -> Seq(T)]
  <2>1. f = [i \in 0..n |-> f[i]]
    <3> HIDE DEF f
    <3> QED
      BY <1>7
  <2> DEFINE A == {k \in Nat : k <= n => f[k] \in Seq(T)}
  <2> HIDE DEF f
  <2>2. 0 \in A
    BY <1>2, <1>9
  <2>3. \A k \in Nat : k \in A => k + 1 \in A
    <3> TAKE k \in Nat
    <3> SUFFICES ASSUME k \in A, k + 1 <= n PROVE f[k + 1] \in Seq(T)
      OBVIOUS
    <3>1. f[k] \in Seq(T) /\ k + 1 \in 1..n /\ (k + 1) - 1 = k
      BY <1>1
    <3>2. f[k + 1] = IF seq[k + 1] \in set THEN Append(f[k], seq[k + 1]) ELSE f[k]
      BY <1>9, <3>1
    <3> QED
      BY <1>1, <3>1, <3>2
  <2>4. Nat \subseteq A
    <3> HIDE DEF A
    <3> QED
      BY <2>2, <2>3, Induction
  <2> QED
    BY <1>1, <2>1, <2>4
<1> HIDE DEF f
<1> QED
  BY <1>8, <1>9, <1>10 DEF n, KeepsTo

\* What KeepOnly returns: a sequence of the same kind, of the elements that are in the set,
\* each as often as before.
LEMMA KeepOnlyKeeps ==
    ASSUME NEW T, NEW seq \in Seq(T), NEW set
    PROVE  /\ KeepOnly(seq, set) \in Seq(T)
           /\ Range(KeepOnly(seq, set)) = Range(seq) \cap set
           /\ IsInjective(seq) => IsInjective(KeepOnly(seq, set))
<1>1. PICK g :
        /\ g \in [0..Len(seq) -> Seq(T)] /\ KeepOnly(seq, set) = g[Len(seq)]
        /\ g[0] = <<>>
        /\ \A i \in 1..Len(seq) :
             g[i] = IF seq[i] \in set THEN Append(g[i - 1], seq[i]) ELSE g[i - 1]
  <2>1. PICK g : KeepsTo(g, T, seq, set)
    BY KeepDefined
  <2> QED
    BY <2>1 DEF KeepsTo
<1> DEFINE Good(k) ==
      /\ g[k] \in Seq(T)
      /\ \A j \in 1..Len(g[k]) : \E i \in 1..k : g[k][j] = seq[i] /\ seq[i] \in set
      /\ \A i \in 1..k : seq[i] \in set => \E j \in 1..Len(g[k]) : g[k][j] = seq[i]
      /\ IsInjective(seq) => \A i, j \in 1..Len(g[k]) : g[k][i] = g[k][j] => i = j
      G == {k \in Nat : k <= Len(seq) => Good(k)}
<1> HIDE DEF Good
<1>0. Len(seq) \in Nat /\ DOMAIN seq = 1..Len(seq) /\ \A i \in 1..Len(seq) : seq[i] \in T
  OBVIOUS
<1>3. 0 \in G
  <2>1. g[0] = <<>>
    BY <1>1
  <2>2. g[0] \in Seq(T) /\ 1..Len(g[0]) = {} /\ 1..0 = {}
    BY <2>1
  <2>3. Good(0)
    BY <2>2 DEF Good
  <2> QED
    BY <2>3
<1>4. ASSUME NEW k \in Nat, k \in G PROVE k + 1 \in G
  <2>1. SUFFICES ASSUME k + 1 <= Len(seq) PROVE Good(k + 1)
    OBVIOUS
  <2>2. /\ g[k] \in Seq(T)
        /\ \A j \in 1..Len(g[k]) : \E i \in 1..k : g[k][j] = seq[i] /\ seq[i] \in set
        /\ \A i \in 1..k : seq[i] \in set => \E j \in 1..Len(g[k]) : g[k][j] = seq[i]
        /\ IsInjective(seq) => \A i, j \in 1..Len(g[k]) : g[k][i] = g[k][j] => i = j
    <3>1. Good(k)
      BY <1>0, <1>4, <2>1
    <3> QED
      BY <3>1 DEF Good
  <2>3. g[k + 1] = IF seq[k + 1] \in set THEN Append(g[k], seq[k + 1]) ELSE g[k]
    <3>1. k + 1 \in 1..Len(seq) /\ (k + 1) - 1 = k
      BY <1>0, <2>1
    <3> QED
      BY <1>1, <3>1
  <2>4. k + 1 \in 1..Len(seq) /\ seq[k + 1] \in T
    BY <1>0, <2>1
  <2>5. CASE seq[k + 1] \in set
    <3> DEFINE e == seq[k + 1]
               s == g[k]
               r == g[k + 1]
    <3>1. /\ s \in Seq(T) /\ e \in T /\ r = Append(s, e) /\ r \in Seq(T)
          /\ Len(s) \in Nat /\ Len(r) = Len(s) + 1 /\ r[Len(s) + 1] = e
          /\ \A j \in 1..Len(s) : r[j] = s[j]
      <4>1. s \in Seq(T) /\ e \in T /\ r = Append(s, e)
        BY <2>2, <2>3, <2>4, <2>5
      <4> HIDE DEF s, e, r
      <4> QED
        BY <4>1
    <3>2. \A j \in 1..Len(r) : \E i \in 1..k + 1 : r[j] = seq[i] /\ seq[i] \in set
      <4> SUFFICES ASSUME NEW j \in 1..Len(r) PROVE \E i \in 1..k + 1 : r[j] = seq[i] /\ seq[i] \in set
        OBVIOUS
      <4>1. CASE j = Len(s) + 1
        BY <2>5, <3>1, <4>1
      <4>2. CASE j # Len(s) + 1
        <5>1. j \in 1..Len(s)
          BY <3>1, <4>2
        <5>2. PICK i \in 1..k : s[j] = seq[i] /\ seq[i] \in set
          BY <2>2, <5>1
        <5> QED
          BY <3>1, <5>1, <5>2
      <4> QED
        BY <4>1, <4>2
    <3>3. \A i \in 1..k + 1 : seq[i] \in set => \E j \in 1..Len(r) : r[j] = seq[i]
      <4> SUFFICES ASSUME NEW i \in 1..k + 1, seq[i] \in set PROVE \E j \in 1..Len(r) : r[j] = seq[i]
        OBVIOUS
      <4>1. CASE i = k + 1
        BY <3>1, <4>1
      <4>2. CASE i # k + 1
        <5>1. i \in 1..k
          BY <4>2
        <5>2. PICK j \in 1..Len(s) : s[j] = seq[i]
          BY <2>2, <5>1
        <5> QED
          BY <3>1, <5>2
      <4> QED
        BY <4>1, <4>2
    <3>4. ASSUME IsInjective(seq), NEW i \in 1..Len(r), NEW j \in 1..Len(r), r[i] = r[j] PROVE i = j
      <4>1. \A m \in 1..Len(s) : s[m] # e
        <5> SUFFICES ASSUME NEW m \in 1..Len(s), s[m] = e PROVE FALSE
          OBVIOUS
        <5>1. PICK n \in 1..k : s[m] = seq[n]
          BY <2>2
        <5>2. n \in DOMAIN seq /\ k + 1 \in DOMAIN seq /\ n # k + 1
          BY <1>0, <2>4
        <5> QED
          BY <3>4, <5>1, <5>2 DEF IsInjective
      <4>2. \A m, n \in 1..Len(s) : s[m] = s[n] => m = n
        BY <2>2, <3>4
      <4> QED
        BY <3>1, <3>4, <4>1, <4>2
    <3> QED
      BY <3>1, <3>2, <3>3, <3>4 DEF Good
  <2>6. CASE seq[k + 1] \notin set
    <3>1. g[k + 1] = g[k]
      BY <2>3, <2>6
    <3>2. \A i \in 1..k + 1 : seq[i] \in set => i \in 1..k
      BY <2>6
    <3>3. 1..k \subseteq 1..k + 1
      OBVIOUS
    <3> QED
      BY <2>2, <3>1, <3>2, <3>3 DEF Good
  <2> QED
    BY <2>5, <2>6
<1>5. Good(Len(seq))
  <2>1. Nat \subseteq G
    <3> HIDE DEF G
    <3> QED
      BY <1>3, <1>4, Induction
  <2>2. Len(seq) \in G
    BY <1>0, <2>1
  <2> QED
    BY <1>0, <2>2
<1> DEFINE r == KeepOnly(seq, set)
<1>6. /\ r \in Seq(T)
      /\ \A j \in 1..Len(r) : \E i \in 1..Len(seq) : r[j] = seq[i] /\ seq[i] \in set
      /\ \A i \in 1..Len(seq) : seq[i] \in set => \E j \in 1..Len(r) : r[j] = seq[i]
      /\ IsInjective(seq) => \A i, j \in 1..Len(r) : r[i] = r[j] => i = j
  BY <1>1, <1>5 DEF Good
<1>7. DOMAIN r = 1..Len(r)
  BY <1>6
<1> HIDE DEF r
<1>8. Range(r) = Range(seq) \cap set
  <2>1. ASSUME NEW x \in Range(r) PROVE x \in Range(seq) \cap set
    <3>1. PICK j \in 1..Len(r) : x = r[j]
      BY <1>7, <2>1 DEF Range
    <3>2. PICK i \in 1..Len(seq) : r[j] = seq[i] /\ seq[i] \in set
      BY <1>6
    <3> QED
      BY <1>0, <3>1, <3>2 DEF Range
  <2>2. ASSUME NEW x \in Range(seq), x \in set PROVE x \in Range(r)
    <3>1. PICK i \in 1..Len(seq) : x = seq[i]
      BY <1>0, <2>2 DEF Range
    <3>2. PICK j \in 1..Len(r) : r[j] = seq[i]
      BY <1>6, <2>2, <3>1
    <3> QED
      BY <1>7, <3>1, <3>2 DEF Range
  <2> QED
    BY <2>1, <2>2
<1>9. IsInjective(seq) => IsInjective(r)
  BY <1>6, <1>7 DEF IsInjective
<1> QED
  BY <1>6, <1>8, <1>9 DEF r

\* The operators of the layout: what each makes of leaves that are there once.
LEMMA IndexOf ==
    ASSUME NEW T, NEW seq \in Seq(T), NEW x \in Range(seq)
    PROVE  IndexIn(seq, x) \in 1..Len(seq) /\ seq[IndexIn(seq, x)] = x
<1>1. PICK i \in 1..Len(seq) : seq[i] = x
  BY OfRange
<1>2. DOMAIN seq = 1..Len(seq)
  OBVIOUS
<1> QED
  BY <1>1, <1>2 DEF IndexIn

LEMMA InsertLeafKeeps ==
    ASSUME NEW mosaic \in Seq(Leaves), NEW i \in 1..Len(mosaic) + 1, NEW leaf \in Leaves
    PROVE  /\ InsertLeaf(mosaic, i, leaf) \in Seq(Leaves) /\ InsertLeaf(mosaic, i, leaf) # <<>>
           /\ Range(InsertLeaf(mosaic, i, leaf)) = Range(mosaic) \cup {leaf}
           /\ IsInjective(mosaic) /\ leaf \notin Range(mosaic) => IsInjective(InsertLeaf(mosaic, i, leaf))
<1> DEFINE n == Len(mosaic)
           l == SubSeq(mosaic, 1, i - 1)
           m == <<leaf>>
           r == SubSeq(mosaic, i, n)
<1>1. n \in Nat /\ i \in Int /\ 1 <= i /\ i <= n + 1
  OBVIOUS
<1>2. /\ l \in Seq(Leaves) /\ Len(l) = i - 1 /\ \A j \in 1..i - 1 : l[j] = mosaic[j]
      /\ r \in Seq(Leaves) /\ Len(r) = n - i + 1 /\ \A j \in 1..n - i + 1 : r[j] = mosaic[i + j - 1]
  BY <1>1
<1>3. m \in Seq(Leaves) /\ Range(m) = {leaf} /\ IsInjective(m) /\ m # <<>>
  BY OneElement
<1>4. InsertLeaf(mosaic, i, leaf) = l \o m \o r
  BY DEF InsertLeaf
<1> HIDE DEF l, m, r, n
<1>5. n = Len(mosaic)
  BY DEF n
<1>6. Range(l) \cup Range(r) = Range(mosaic)
  <2>1. ASSUME NEW x \in Range(mosaic) PROVE x \in Range(l) \cup Range(r)
    <3>1. PICK j \in 1..n : mosaic[j] = x
      BY <1>5, OfRange
    <3>2. CASE j < i
      <4>1. j \in 1..Len(l) /\ l[j] = x
        BY <1>1, <1>2, <3>1, <3>2
      <4> QED
        BY <1>2, <4>1, InRange
    <3>3. CASE ~(j < i)
      <4> DEFINE k == j - i + 1
      <4>1. k \in 1..n - i + 1 /\ i + k - 1 = j
        BY <1>1, <3>3
      <4> HIDE DEF k
      <4>2. k \in 1..Len(r) /\ r[k] = x
        BY <1>2, <3>1, <4>1
      <4> QED
        BY <1>2, <4>2, InRange
    <3> QED
      BY <3>2, <3>3
  <2>2. ASSUME NEW x \in Range(l) PROVE x \in Range(mosaic)
    <3>1. PICK j \in 1..Len(l) : l[j] = x
      BY <1>2, OfRange
    <3>2. j \in 1..n /\ mosaic[j] = x
      BY <1>1, <1>2, <3>1
    <3> QED
      BY <1>5, <3>2, InRange
  <2>3. ASSUME NEW x \in Range(r) PROVE x \in Range(mosaic)
    <3>1. PICK j \in 1..Len(r) : r[j] = x
      BY <1>2, OfRange
    <3> DEFINE k == i + j - 1
    <3>2. k \in 1..n /\ mosaic[k] = x
      BY <1>1, <1>2, <3>1
    <3> HIDE DEF k
    <3> QED
      BY <1>5, <3>2, InRange
  <2> QED
    BY <2>1, <2>2, <2>3
<1>7. ASSUME IsInjective(mosaic) PROVE IsInjective(l) /\ IsInjective(r) /\ Range(l) \cap Range(r) = {}
  <2>1. \A j, k \in 1..n : mosaic[j] = mosaic[k] => j = k
    BY <1>5, <1>7, InjectiveAt
  <2>2. \A j, k \in 1..Len(l) : l[j] = l[k] => j = k
    BY <1>1, <1>2, <2>1
  <2>3. ASSUME NEW j \in 1..Len(r), NEW k \in 1..Len(r), r[j] = r[k] PROVE j = k
    <3>1. i + j - 1 \in 1..n /\ i + k - 1 \in 1..n /\ mosaic[i + j - 1] = mosaic[i + k - 1]
      BY <1>1, <1>2, <2>3
    <3>2. i + j - 1 = i + k - 1
      BY <2>1, <3>1
    <3> QED
      BY <1>1, <3>2
  <2>4. ASSUME NEW x \in Range(l), x \in Range(r) PROVE FALSE
    <3>1. PICK j \in 1..Len(l) : l[j] = x
      BY <1>2, OfRange
    <3>2. PICK k \in 1..Len(r) : r[k] = x
      BY <1>2, <2>4, OfRange
    <3>3. j \in 1..n /\ i + k - 1 \in 1..n /\ mosaic[j] = mosaic[i + k - 1] /\ j < i + k - 1
      BY <1>1, <1>2, <3>1, <3>2
    <3>4. j = i + k - 1
      BY <2>1, <3>3
    <3> QED
      BY <1>1, <3>3, <3>4
  <2>5. IsInjective(l)
    BY <1>2, <2>2, InjectiveFrom
  <2>6. IsInjective(r)
    BY <1>2, <2>3, InjectiveFrom
  <2> QED
    BY <2>4, <2>5, <2>6
<1> DEFINE a1 == l \o m
<1>8. /\ a1 \in Seq(Leaves) /\ Range(a1) = Range(l) \cup {leaf} /\ a1 # <<>>
      /\ IsInjective(l) /\ leaf \notin Range(l) => IsInjective(a1)
  <2>1. a1 \in Seq(Leaves) /\ Range(a1) = Range(l) \cup Range(m)
    BY <1>2, <1>3, ConcatKeeps
  <2>2. IsInjective(l) /\ Range(l) \cap Range(m) = {} => IsInjective(a1)
    BY <1>2, <1>3, ConcatKeeps
  <2>3. a1 # <<>>
    BY <1>2, <1>3
  <2> HIDE DEF a1
  <2> QED
    BY <1>3, <2>1, <2>2, <2>3
<1> DEFINE a2 == a1 \o r
<1> HIDE DEF a1
<1>9. a2 \in Seq(Leaves) /\ Range(a2) = Range(a1) \cup Range(r)
  BY <1>2, <1>8, ConcatKeeps
<1>10. IsInjective(a1) /\ IsInjective(r) /\ Range(a1) \cap Range(r) = {} => IsInjective(a2)
  BY <1>2, <1>8, ConcatKeeps
<1>11. a2 # <<>>
  BY <1>2, <1>8
<1> HIDE DEF a2
<1>12. InsertLeaf(mosaic, i, leaf) = a2
  BY <1>4 DEF a1, a2
<1>13. Range(a2) = Range(mosaic) \cup {leaf}
  BY <1>6, <1>8, <1>9
<1>14. IsInjective(mosaic) /\ leaf \notin Range(mosaic) => IsInjective(a2)
  BY <1>6, <1>7, <1>8, <1>10
<1> QED
  BY <1>9, <1>11, <1>12, <1>13, <1>14

LEMMA ReplaceLeafKeeps ==
    ASSUME NEW mosaic \in Seq(Leaves), NEW old, NEW new \in Leaves
    PROVE  /\ ReplaceLeaf(mosaic, old, new) \in Seq(Leaves)
           /\ IsInjective(mosaic) /\ new \notin Range(mosaic) => IsInjective(ReplaceLeaf(mosaic, old, new))
           /\ Len(ReplaceLeaf(mosaic, old, new)) = Len(mosaic)
           /\ old \in Range(mosaic) => new \in Range(ReplaceLeaf(mosaic, old, new))
<1> DEFINE r == ReplaceLeaf(mosaic, old, new)
<1>1. /\ DOMAIN mosaic = 1..Len(mosaic) /\ Len(mosaic) \in Nat
      /\ \A j \in 1..Len(mosaic) : mosaic[j] \in Leaves
  OBVIOUS
<1>2. r = [i \in 1..Len(mosaic) |-> IF mosaic[i] = old THEN new ELSE mosaic[i]]
  BY <1>1 DEF ReplaceLeaf
<1>3. r \in Seq(Leaves) /\ Len(r) = Len(mosaic)
  BY <1>1, <1>2
<1>4. \A i \in 1..Len(mosaic) : r[i] = IF mosaic[i] = old THEN new ELSE mosaic[i]
  BY <1>2
<1> HIDE DEF r
<1>5. ASSUME IsInjective(mosaic), new \notin Range(mosaic) PROVE IsInjective(r)
  <2>1. \A i, j \in 1..Len(mosaic) : mosaic[i] = mosaic[j] => i = j
    BY <1>5, InjectiveAt
  <2>2. \A i \in 1..Len(mosaic) : mosaic[i] # new
    BY <1>5, InRange
  <2>3. \A i, j \in 1..Len(r) : r[i] = r[j] => i = j
    BY <1>3, <1>4, <2>1, <2>2
  <2> QED
    BY <1>3, <2>3, InjectiveFrom
<1>6. ASSUME old \in Range(mosaic) PROVE new \in Range(r)
  <2>1. PICK i \in 1..Len(mosaic) : mosaic[i] = old
    BY <1>6, OfRange
  <2>2. i \in 1..Len(r) /\ r[i] = new
    BY <1>3, <1>4, <2>1
  <2> QED
    BY <1>3, <2>2, InRange
<1> QED
  BY <1>3, <1>5, <1>6 DEF r

LEMMA AddPaneKeeps ==
    ASSUME NEW mosaic \in Seq(Leaves), NEW target, NEW leaf \in Leaves
    PROVE  /\ AddPane(mosaic, target, leaf) \in Seq(Leaves) /\ AddPane(mosaic, target, leaf) # <<>>
           /\ Range(AddPane(mosaic, target, leaf)) \subseteq Range(mosaic) \cup {leaf}
           /\ IsInjective(mosaic) /\ leaf \notin Range(mosaic) => IsInjective(AddPane(mosaic, target, leaf))
<1>1. CASE mosaic = <<>>
  <2>1. AddPane(mosaic, target, leaf) = <<leaf>>
    BY <1>1 DEF AddPane
  <2> QED
    BY <2>1, OneElement
<1>2. CASE mosaic # <<>> /\ target \in Range(mosaic)
  <2> DEFINE i == IndexIn(mosaic, target) + 1
  <2>1. AddPane(mosaic, target, leaf) = InsertLeaf(mosaic, i, leaf)
    BY <1>2 DEF AddPane
  <2>2. i \in 1..Len(mosaic) + 1
    BY <1>2, IndexOf
  <2> HIDE DEF i
  <2> QED
    BY <2>1, <2>2, InsertLeafKeeps
<1>3. CASE mosaic # <<>> /\ target \notin Range(mosaic)
  <2>1. AddPane(mosaic, target, leaf) = mosaic
    BY <1>3 DEF AddPane
  <2> QED
    BY <1>3, <2>1
<1> QED
  BY <1>1, <1>2, <1>3

LEMMA RemovePaneKeeps ==
    ASSUME NEW mosaic \in Seq(Leaves), NEW leaf
    PROVE  /\ RemovePane(mosaic, leaf) \in Seq(Leaves)
           /\ Range(RemovePane(mosaic, leaf)) = Range(mosaic) \ {leaf}
           /\ IsInjective(mosaic) => IsInjective(RemovePane(mosaic, leaf))
<1> DEFINE r == KeepOnly(mosaic, Leaves \ {leaf})
<1>1. /\ r \in Seq(Leaves) /\ Range(r) = Range(mosaic) \cap (Leaves \ {leaf})
      /\ IsInjective(mosaic) => IsInjective(r)
  BY KeepOnlyKeeps
<1>2. Range(mosaic) \subseteq Leaves
  BY RangeTyped
<1> HIDE DEF r
<1>3. Range(r) = Range(mosaic) \ {leaf}
  BY <1>1, <1>2
<1> QED
  BY <1>1, <1>3 DEF r, RemovePane

LEMMA DockPaneKeeps ==
    ASSUME NEW mosaic \in Seq(Leaves), NEW target \in Leaves, NEW source \in Leaves, NEW before
    PROVE  /\ DockPane(mosaic, target, source, before) \in Seq(Leaves)
           /\ DockPane(mosaic, target, source, before) # <<>>
           /\ Range(DockPane(mosaic, target, source, before)) \subseteq Range(mosaic) \cup {source}
           /\ IsInjective(mosaic) => IsInjective(DockPane(mosaic, target, source, before))
<1> DEFINE D == DockPane(mosaic, target, source, before)
           rest == RemovePane(mosaic, source)
           i == IndexIn(rest, target)
           at == IF before THEN i ELSE i + 1
           r == InsertLeaf(rest, at, source)
<1>1. CASE mosaic = <<>>
  <2>1. D = <<source>>
    BY <1>1 DEF DockPane
  <2> QED
    BY <2>1, OneElement
<1>2. CASE D = mosaic /\ mosaic # <<>>
  BY <1>2
<1>3. CASE D = r /\ target # source /\ target \in Range(mosaic)
  <2>1. rest \in Seq(Leaves) /\ Range(rest) = Range(mosaic) \ {source} /\ (IsInjective(mosaic) => IsInjective(rest))
    BY RemovePaneKeeps
  <2> HIDE DEF rest, D
  <2>2. i \in 1..Len(rest)
    BY <1>3, <2>1, IndexOf
  <2> HIDE DEF i
  <2>3. at \in 1..Len(rest) + 1
    BY <2>1, <2>2
  <2> HIDE DEF at
  <2>4. /\ r \in Seq(Leaves) /\ r # <<>> /\ Range(r) = Range(rest) \cup {source}
        /\ IsInjective(rest) /\ source \notin Range(rest) => IsInjective(r)
    BY <2>1, <2>3, InsertLeafKeeps
  <2> HIDE DEF r
  <2>5. /\ D \in Seq(Leaves) /\ D # <<>> /\ Range(D) \subseteq Range(mosaic) \cup {source}
        /\ IsInjective(mosaic) => IsInjective(D)
    BY <1>3, <2>1, <2>4
  <2> QED
    BY <2>5 DEF D
<1>4. mosaic = <<>> \/ (mosaic # <<>> /\ D = mosaic) \/ (D = r /\ target # source /\ target \in Range(mosaic))
  BY DEF DockPane
<1> QED
  BY <1>1, <1>2, <1>3, <1>4

LEMMA ValidLeaves ==
    ASSUME NEW ts \in Seq(Sessions), NEW ps \in SUBSET Sessions PROVE Valid(ts, ps) \subseteq Leaves
  BY RangeTyped DEF Valid, Leaves

LEMMA ShowsKeeps ==
    ASSUME NEW mosaic \in Seq(Leaves), NEW selected, selected = None \/ selected \in Leaves,
           NEW onShow \in Shows(mosaic, selected)
    PROVE  onShow \in Seq(Leaves) /\ (IsInjective(mosaic) => IsInjective(onShow))
<1>1. CASE selected = None \/ selected \in Range(mosaic)
  BY <1>1 DEF Shows
<1>2. CASE selected # None /\ selected \notin Range(mosaic) /\ Len(mosaic) > 1
  <2>1. PICK old \in Range(mosaic) : onShow = ReplaceLeaf(mosaic, old, selected)
    BY <1>2 DEF Shows
  <2> QED
    BY <1>2, <2>1, ReplaceLeafKeeps
<1>3. CASE selected # None /\ selected \notin Range(mosaic) /\ ~(Len(mosaic) > 1)
  <2>1. onShow = <<selected>> \/ onShow = mosaic
    BY <1>3 DEF Shows
  <2>2. <<selected>> \in Seq(Leaves) /\ IsInjective(<<selected>>)
    BY <1>3, OneElement
  <2>3. CASE onShow = <<selected>>
    BY <2>2, <2>3
  <2> QED
    BY <2>1, <2>3
<1> QED
  BY <1>1, <1>2, <1>3

LEMMA FallbacksKeep ==
    ASSUME NEW ts \in Seq(Sessions), NEW ps \in SUBSET Sessions, NEW a,
           NEW fallback \in Fallbacks(ts, ps, a)
    PROVE  /\ fallback \in Seq(Leaves) /\ IsInjective(fallback) /\ Range(fallback) \subseteq Valid(ts, ps)
           /\ ts # <<>> => fallback # <<>>
<1>1. Valid(ts, ps) \subseteq Leaves
  BY ValidLeaves
<1>2. CASE a \in Range(ts)
  <2>1. fallback = <<<<"session", a>>>>
    BY <1>2 DEF Fallbacks
  <2>2. <<"session", a>> \in Valid(ts, ps)
    BY <1>2 DEF Valid
  <2> QED
    BY <1>1, <2>1, <2>2, OneElement
<1>3. CASE a \notin Range(ts) /\ Valid(ts, ps) = {}
  <2>1. fallback = <<>>
    BY <1>3 DEF Fallbacks
  <2>2. Range(ts) = {}
    BY <1>3 DEF Valid
  <2>3. ts = <<>>
    BY <2>2, EmptyRange
  <2>4. fallback \in Seq(Leaves) /\ Range(fallback) = {} /\ IsInjective(fallback)
    BY <2>1 DEF Range, IsInjective
  <2> QED
    BY <2>3, <2>4
<1>4. CASE a \notin Range(ts) /\ Valid(ts, ps) # {}
  <2>1. PICK leaf \in Valid(ts, ps) : fallback = <<leaf>>
    BY <1>4 DEF Fallbacks
  <2> QED
    BY <1>1, <2>1, OneElement
<1> QED
  BY <1>2, <1>3, <1>4

\* After a change of the tabs the layout is well-typed, and it fits them when the tree it is
\* made of has each leaf once. A tree that is taken as it is must fit already.
LEMMA RelayoutFits ==
    ASSUME tabs' \in Seq(Sessions), pages' \in SUBSET Sessions, page' \in pages' \cup {None},
           active' \in Range(tabs') \/ (tabs' = <<>> /\ active' = None),
           NEW mosaic \in Seq(Leaves), Relayout(mosaic)
    PROVE  /\ panes' \in Seq(Leaves)
           /\ IsInjective(mosaic) => IsInjective(panes')
           /\ (UNCHANGED <<tabs, pages, active, page>> => Range(mosaic) \subseteq Valid(tabs, pages))
                => Range(panes') \subseteq Valid(tabs', pages')
           /\ (UNCHANGED <<tabs, pages, active, page>> /\ tabs # <<>> => mosaic # <<>>)
                => (tabs' # <<>> => panes' # <<>>)
<1>1. CASE UNCHANGED <<tabs, pages, active, page>>
  <2>1. panes' = mosaic
    BY <1>1 DEF Relayout
  <2>2. tabs' = tabs /\ pages' = pages
    BY <1>1
  <2> QED
    BY <1>1, <2>1, <2>2
<1>2. CASE ~UNCHANGED <<tabs, pages, active, page>>
  <2> DEFINE sel == Selected(active', page')
             valid == Valid(tabs', pages')
  <2>1. sel = None \/ sel \in Leaves
    <3>1. Range(tabs') \subseteq Sessions
      BY RangeTyped
    <3>2. page' = None \/ page' \in Sessions
      OBVIOUS
    <3>3. active' = None \/ active' \in Sessions
      BY <3>1
    <3> QED
      BY <3>2, <3>3 DEF Selected, Leaves
  <2>2. PICK onShow \in IF UNCHANGED <<active, page>> THEN {mosaic} ELSE Shows(mosaic, sel) :
          LET left == PruneLeaves(onShow, valid)
          IN IF left # <<>> THEN panes' = left
             ELSE \E fallback \in Fallbacks(tabs', pages', active') : panes' = fallback
    BY <1>2, Zenon DEF Relayout
  <2> DEFINE left == PruneLeaves(onShow, valid)
  <2>3. onShow \in Seq(Leaves) /\ (IsInjective(mosaic) => IsInjective(onShow))
    <3> HIDE DEF sel
    <3> QED
      BY <2>1, <2>2, ShowsKeeps
  <2>4. left \in Seq(Leaves) /\ Range(left) = Range(onShow) \cap valid /\ (IsInjective(onShow) => IsInjective(left))
    BY <2>3, KeepOnlyKeeps DEF PruneLeaves
  <2>5. left = panes' \/ \E fallback \in Fallbacks(tabs', pages', active') : panes' = fallback
    BY <2>2
  <2>6. CASE panes' = left /\ left # <<>>
    <3> HIDE DEF left, valid
    <3>1. panes' \in Seq(Leaves) /\ Range(panes') \subseteq valid /\ panes' # <<>>
      BY <2>4, <2>6
    <3>2. IsInjective(mosaic) => IsInjective(panes')
      BY <2>3, <2>4, <2>6
    <3>3. Range(panes') \subseteq Valid(tabs', pages')
      BY <3>1 DEF valid
    <3> QED
      BY <3>1, <3>2, <3>3
  <2>7. CASE \E fallback \in Fallbacks(tabs', pages', active') : panes' = fallback
    <3>1. PICK fallback \in Fallbacks(tabs', pages', active') : panes' = fallback
      BY <2>7
    <3>2. /\ fallback \in Seq(Leaves) /\ IsInjective(fallback)
          /\ Range(fallback) \subseteq Valid(tabs', pages')
          /\ tabs' # <<>> => fallback # <<>>
      BY FallbacksKeep
    <3> QED
      BY <3>1, <3>2
  <2> QED
    BY <2>2, <2>6, <2>7
<1> QED
  BY <1>1, <1>2

\* A session that someone has seen: it was asked for, and if its creation has yet to be
\* answered, the manager has it. It cannot come back once it is gone.
WsKnown(s) == s \in born /\ (calls[s] \in {"creating", "splitting"} => s \in alive)

SessionsSound ==
    /\ alive \in SUBSET born /\ born \in SUBSET Sessions /\ IsFiniteSet(alive)
    /\ calls \in [Sessions -> SessionCalls]
    /\ \A s \in Sessions : calls[s] # "none" => s \in born
    /\ \A s \in Sessions : calls[s] \in {"killed", "failed"} => s \notin alive
    /\ \A s \in Sessions : calls[s] = "splitting" => s \in Shells

\* What a poll has noted: of the sessions it began with, those that its list of SSH sessions
\* does not have are gone for good.
PollRecord ==
    [stage : {"asked"}, known : SUBSET Ssh, ssh : (SUBSET Ssh) \cup {{None}},
     shells : (SUBSET Shells) \cup {{None}}, missing : SUBSET {"ssh", "shells"}]
PollSound(q) ==
    q # Idle =>
      /\ \A s \in q.known : WsKnown(s)
      /\ q.ssh # {None} =>
           /\ IsFiniteSet(q.ssh) /\ \A s \in q.ssh : WsKnown(s)
           /\ \A s \in q.known : s \notin q.ssh => s \notin alive
      /\ q.shells # {None} => IsFiniteSet(q.shells) /\ \A s \in q.shells : WsKnown(s)
PollsSound ==
    /\ polls \in [Polls -> PollRecord \cup {Idle}] /\ polled \in 0..MaxPolls
    /\ \A p \in Polls : PollSound(polls[p])

TabsSound ==
    /\ tabs \in Seq(Sessions) /\ \A s \in Range(tabs) : WsKnown(s)
    /\ pages \in SUBSET Range(tabs) /\ page \in pages \cup {None}
    /\ active \in Range(tabs) \/ (tabs = <<>> /\ active = None)
    /\ ~twins => IsInjective(tabs)

PanesSound ==
    /\ panes \in Seq(Leaves) /\ Range(panes) \subseteq Valid(tabs, pages)
    /\ ~twins => IsInjective(panes)
    /\ ~twins => (tabs # <<>> => panes # <<>>)

WsSound ==
    /\ SessionsSound /\ PollsSound /\ TabsSound /\ PanesSound
    /\ splitting \in Leaves \cup {None} /\ twins \in BOOLEAN

\* What a step of one call does to the calls.
LEMMA CallSet ==
    ASSUME SessionsSound, NEW s \in Sessions, NEW v \in SessionCalls,
           calls' = [calls EXCEPT ![s] = v]
    PROVE  /\ calls' \in [Sessions -> SessionCalls] /\ calls'[s] = v
           /\ \A t \in Sessions : t # s => calls'[t] = calls[t]
  BY DEF SessionsSound

\* The managers' side: their sessions stay sound, and whoever was seen stays seen, and gone
\* once it is.
KnownStays ==
    \A s \in Sessions : WsKnown(s) => WsKnown(s)' /\ (s \notin alive => s \notin alive')

LEMMA SessionsStep ==
    ASSUME SessionsSound, \A s \in Range(tabs) : WsKnown(s), tabs \in Seq(Sessions), [WsNext]_wsVars
    PROVE  SessionsSound' /\ KnownStays
<1> USE DEF SessionCalls
<1>0. CASE UNCHANGED <<alive, born, calls>>
  BY <1>0 DEF SessionsSound, WsKnown, KnownStays
<1>1. ASSUME NEW s \in Sessions, NEW target, Create(s, target) PROVE SessionsSound' /\ KnownStays
  <2> DEFINE v == IF target = None THEN "creating" ELSE "splitting"
  <2>1. v \in SessionCalls /\ calls' = [calls EXCEPT ![s] = v] /\ v \in {"creating", "splitting"}
    BY <1>1 DEF Create
  <2>2. v = "splitting" => s \in Shells
    BY <1>1 DEF Create
  <2> HIDE DEF v
  <2>3. /\ calls' \in [Sessions -> SessionCalls] /\ calls'[s] = v
        /\ \A t \in Sessions : t # s => calls'[t] = calls[t]
    BY <2>1, CallSet
  <2>4. s \notin born /\ born' = born \cup {s} /\ alive' = alive
    BY <1>1 DEF Create
  <2> QED
    BY <2>1, <2>2, <2>3, <2>4 DEF SessionsSound, WsKnown, KnownStays
<1>2. ASSUME NEW s \in Sessions, BackendCreates(s) PROVE SessionsSound' /\ KnownStays
  <2>1. IsFiniteSet(alive \cup {s})
    BY FS_AddElement DEF SessionsSound
  <2> QED
    BY <1>2, <2>1 DEF SessionsSound, WsKnown, KnownStays, BackendCreates
<1>3. ASSUME NEW s \in Sessions, AgentCreates(s) PROVE SessionsSound' /\ KnownStays
  <2>1. IsFiniteSet(alive \cup {s})
    BY FS_AddElement DEF SessionsSound
  <2> QED
    BY <1>3, <2>1 DEF SessionsSound, WsKnown, KnownStays, AgentCreates
<1>4. ASSUME NEW s \in Sessions, SessionDies(s) PROVE SessionsSound' /\ KnownStays
  <2>1. IsFiniteSet(alive \ {s})
    BY FS_RemoveElement DEF SessionsSound
  <2> QED
    BY <1>4, <2>1 DEF SessionsSound, WsKnown, KnownStays, SessionDies
<1>5. ASSUME NEW s \in Sessions, NEW agent, FinishCreate(s, agent) PROVE SessionsSound' /\ KnownStays
  <2>1. calls' = [calls EXCEPT ![s] = "none"] /\ s \in alive /\ UNCHANGED <<alive, born>>
    BY <1>5 DEF FinishCreate
  <2>2. /\ calls' \in [Sessions -> SessionCalls] /\ calls'[s] = "none"
        /\ \A t \in Sessions : t # s => calls'[t] = calls[t]
    BY <2>1, CallSet
  <2> QED
    BY <2>1, <2>2 DEF SessionsSound, WsKnown, KnownStays
<1>6. ASSUME NEW s \in Sessions, Close(s) PROVE SessionsSound' /\ KnownStays
  <2>1. calls' = [calls EXCEPT ![s] = "killing"] /\ UNCHANGED <<alive, born>> /\ s \in Range(tabs)
    BY <1>6 DEF Close
  <2>2. /\ calls' \in [Sessions -> SessionCalls] /\ calls'[s] = "killing"
        /\ \A t \in Sessions : t # s => calls'[t] = calls[t]
    BY <2>1, CallSet
  <2>3. s \in born
    BY <2>1 DEF WsKnown
  <2> QED
    BY <2>1, <2>2, <2>3 DEF SessionsSound, WsKnown, KnownStays
<1>7. ASSUME NEW s \in Sessions, BackendKills(s) PROVE SessionsSound' /\ KnownStays
  <2>1. PICK v \in {"killed", "failed"} : calls' = [calls EXCEPT ![s] = v]
    BY <1>7 DEF BackendKills
  <2>2. /\ calls' \in [Sessions -> SessionCalls] /\ calls'[s] = v
        /\ \A t \in Sessions : t # s => calls'[t] = calls[t]
    BY <2>1, CallSet
  <2>3. calls[s] = "killing" /\ alive' = alive \ {s} /\ born' = born
    BY <1>7 DEF BackendKills
  <2>4. IsFiniteSet(alive \ {s})
    BY FS_RemoveElement DEF SessionsSound
  <2> QED
    BY <2>1, <2>2, <2>3, <2>4 DEF SessionsSound, WsKnown, KnownStays
<1>8. ASSUME NEW s \in Sessions, FinishClose(s) PROVE SessionsSound' /\ KnownStays
  <2>1. calls' = [calls EXCEPT ![s] = "none"] /\ calls[s] \in {"killed", "failed"} /\ UNCHANGED <<alive, born>>
    BY <1>8 DEF FinishClose
  <2>2. /\ calls' \in [Sessions -> SessionCalls] /\ calls'[s] = "none"
        /\ \A t \in Sessions : t # s => calls'[t] = calls[t]
    BY <2>1, CallSet
  <2> QED
    BY <2>1, <2>2 DEF SessionsSound, WsKnown, KnownStays
<1>9. ASSUME NEW s \in Sessions, OpenPage(s) \/ ClosePage(s) \/ SelectSession(s)
      PROVE  SessionsSound' /\ KnownStays
  BY <1>0, <1>9 DEF OpenPage, ClosePage, SelectSession, Quiet
<1>10. ASSUME NEW p \in Polls, StartPoll(p) \/ MergePoll(p) PROVE SessionsSound' /\ KnownStays
  BY <1>0, <1>10 DEF StartPoll, MergePoll
<1>11. ASSUME NEW p \in Polls, NEW which, AnswerList(p, which) PROVE SessionsSound' /\ KnownStays
  BY <1>0, <1>11 DEF AnswerList
<1>12. ASSUME NEW target, NEW source, NEW before, Dock(target, source, before)
       PROVE  SessionsSound' /\ KnownStays
  BY <1>0, <1>12 DEF Dock, Quiet
<1>13. ASSUME NEW leaf, RemoveTerminalPane(leaf) PROVE SessionsSound' /\ KnownStays
  BY <1>0, <1>13 DEF RemoveTerminalPane, Quiet
<1>14. CASE UNCHANGED wsVars
  BY <1>0, <1>14 DEF wsVars
<1> QED
  BY <1>1, <1>2, <1>3, <1>4, <1>5, <1>6, <1>7, <1>8, <1>9, <1>10, <1>11, <1>12, <1>13, <1>14 DEF WsNext

\* The polls.
LEMMA PollStays ==
    ASSUME NEW q \in PollRecord \cup {Idle}, PollSound(q), KnownStays PROVE PollSound(q)'
<1>1. CASE q = Idle
  BY <1>1 DEF PollSound
<1>2. CASE q # Idle
  <2>1. q \in PollRecord
    BY <1>2
  <2>2. q.known \subseteq Sessions /\ (q.ssh # {None} => q.ssh \subseteq Sessions)
        /\ (q.shells # {None} => q.shells \subseteq Sessions)
    BY <2>1 DEF PollRecord, Sessions
  <2> QED
    BY <1>2, <2>2 DEF PollSound, KnownStays
<1> QED
  BY <1>1, <1>2

LEMMA PollsSet ==
    ASSUME PollsSound, KnownStays, NEW p \in Polls, NEW q \in PollRecord \cup {Idle},
           polls' = [polls EXCEPT ![p] = q], PollSound(q)', polled' \in 0..MaxPolls
    PROVE  PollsSound'
<1>1. /\ polls' \in [Polls -> PollRecord \cup {Idle}] /\ polls'[p] = q
      /\ \A o \in Polls : o # p => polls'[o] = polls[o]
  BY DEF PollsSound
<1>2. ASSUME NEW o \in Polls, o # p PROVE PollSound(polls[o])'
  <2> DEFINE r == polls[o]
  <2>1. r \in PollRecord \cup {Idle} /\ PollSound(r)
    BY DEF PollsSound
  <2>2. polls'[o] = r
    BY <1>1, <1>2
  <2> QED
    BY <2>1, <2>2, PollStays DEF PollSound, WsKnown, KnownStays, PollRecord
<1> QED
  BY <1>1, <1>2 DEF PollsSound

LEMMA PollsStep ==
    ASSUME WsSound, KnownStays, [WsNext]_wsVars PROVE PollsSound'
<1>0. CASE UNCHANGED <<polls, polled>>
  <2>1. ASSUME NEW p \in Polls PROVE PollSound(polls[p])'
    <3> DEFINE r == polls[p]
    <3>1. r \in PollRecord \cup {Idle} /\ PollSound(r) /\ polls'[p] = r
      BY <1>0 DEF PollsSound, WsSound
    <3> QED
      BY <3>1, PollStays DEF PollSound, WsKnown, KnownStays, PollRecord
  <2> QED
    BY <1>0, <2>1 DEF PollsSound, WsSound
<1>1. ASSUME NEW p \in Polls, StartPoll(p) PROVE PollsSound'
  <2>0. PICK q : q = [stage |-> "asked", known |-> Range(tabs) \cap Ssh, ssh |-> {None},
                      shells |-> {None}, missing |-> {"ssh", "shells"}]
    OBVIOUS
  <2>1. q \in PollRecord /\ q.known \subseteq Range(tabs) /\ q.ssh = {None} /\ q.shells = {None}
    BY <2>0 DEF PollRecord
  <2>2. polls' = [polls EXCEPT ![p] = q] /\ polled < MaxPolls /\ polled' = polled + 1
    BY <1>1, <2>0 DEF StartPoll
  <2>3. \A s \in q.known : s \in Sessions /\ WsKnown(s)'
    BY <2>1 DEF WsSound, TabsSound, KnownStays, PollRecord, Sessions
  <2>4. PollSound(q)'
    BY <2>1, <2>3 DEF PollSound, WsKnown
  <2>5. polled' \in 0..MaxPolls
    BY <2>2, SessionsAssumption DEF WsSound, PollsSound
  <2> QED
    BY <2>1, <2>2, <2>4, <2>5, PollsSet DEF WsSound
<1>2. ASSUME NEW p \in Polls, NEW which \in {"ssh", "shells"}, AnswerList(p, which) PROVE PollsSound'
  <2>0. PICK r : r = polls[p]
    OBVIOUS
  <2>1. PICK list \in {{None}, alive \cap IF which = "ssh" THEN Ssh ELSE Shells} :
          polls' = [polls EXCEPT ![p] = [[r EXCEPT !.missing = @ \ {which}] EXCEPT ![which] = list]]
    BY <1>2, <2>0 DEF AnswerList
  <2> DEFINE q == [[r EXCEPT !.missing = @ \ {which}] EXCEPT ![which] = list]
  <2>2. r \in PollRecord /\ PollSound(r) /\ r # Idle
    BY <1>2, <2>0 DEF AnswerList, WsSound, PollsSound
  <2>3. UNCHANGED <<alive, born, calls, polled>>
    BY <1>2 DEF AnswerList
  <2>4. /\ IsFiniteSet(alive \cap Ssh) /\ IsFiniteSet(alive \cap Shells)
        /\ \A s \in alive : s \in Sessions /\ WsKnown(s)
    <3>1. IsFiniteSet(alive) /\ alive \cap Ssh \in SUBSET alive /\ alive \cap Shells \in SUBSET alive
      BY DEF WsSound, SessionsSound
    <3>2. IsFiniteSet(alive \cap Ssh)
      BY <3>1, FS_Subset
    <3>3. IsFiniteSet(alive \cap Shells)
      BY <3>1, FS_Subset
    <3> QED
      BY <3>2, <3>3 DEF WsSound, SessionsSound, WsKnown
  <2>5. CASE which = "ssh"
    <3>1. /\ q \in PollRecord /\ q.known = r.known /\ q.ssh = list /\ q.shells = r.shells
          /\ list = {None} \/ list = alive \cap Ssh
      <4>1. list \in (SUBSET Ssh) \cup {{None}}
        BY <2>1, <2>5
      <4> QED
        BY <2>1, <2>2, <2>5, <4>1 DEF PollRecord
    <3> HIDE DEF q
    <3>2. r.known \subseteq Ssh
      BY <2>2 DEF PollRecord
    <3>3. PollSound(q)
      BY <2>2, <2>4, <3>1, <3>2 DEF PollSound
    <3>4. PollSound(q)'
      BY <3>1, <3>3, PollStays
    <3>5. polled' \in 0..MaxPolls
      BY <2>3 DEF WsSound, PollsSound
    <3>6. polls' = [polls EXCEPT ![p] = q]
      BY <2>1 DEF q
    <3> QED
      BY <3>1, <3>4, <3>5, <3>6, PollsSet DEF WsSound
  <2>6. CASE which = "shells"
    <3>1. /\ q \in PollRecord /\ q.known = r.known /\ q.ssh = r.ssh /\ q.shells = list
          /\ list = {None} \/ list = alive \cap Shells
      <4>1. list \in (SUBSET Shells) \cup {{None}} /\ (list = {None} \/ list = alive \cap Shells)
        BY <2>1, <2>6
      <4> QED
        BY <2>2, <2>6, <4>1 DEF PollRecord
    <3> HIDE DEF q
    <3>3. PollSound(q)
      BY <2>2, <2>4, <3>1 DEF PollSound
    <3>4. PollSound(q)'
      BY <3>1, <3>3, PollStays
    <3>5. polled' \in 0..MaxPolls
      BY <2>3 DEF WsSound, PollsSound
    <3>6. polls' = [polls EXCEPT ![p] = q]
      BY <2>1 DEF q
    <3> QED
      BY <3>1, <3>4, <3>5, <3>6, PollsSet DEF WsSound
  <2> QED
    BY <2>5, <2>6
<1>3. ASSUME NEW p \in Polls, MergePoll(p) PROVE PollsSound'
  <2> DEFINE q == Idle
  <2>1. q \in PollRecord \cup {Idle} /\ polls' = [polls EXCEPT ![p] = q] /\ polled' = polled
    BY <1>3 DEF MergePoll
  <2>2. PollSound(q)'
    BY DEF PollSound
  <2>3. polled' \in 0..MaxPolls
    BY <2>1 DEF WsSound, PollsSound
  <2> HIDE DEF q
  <2> QED
    BY <2>1, <2>2, <2>3, PollsSet DEF WsSound
<1>4. ASSUME NEW s \in Sessions, NEW target, Create(s, target) PROVE PollsSound'
  BY <1>0, <1>4 DEF Create
<1>5. ASSUME NEW s \in Sessions, NEW agent, FinishCreate(s, agent) PROVE PollsSound'
  BY <1>0, <1>5 DEF FinishCreate
<1>6. ASSUME NEW s \in Sessions, BackendCreates(s) \/ AgentCreates(s) \/ SessionDies(s) PROVE PollsSound'
  BY <1>0, <1>6 DEF BackendCreates, AgentCreates, SessionDies
<1>7. ASSUME NEW s \in Sessions, Close(s) \/ BackendKills(s) \/ FinishClose(s) PROVE PollsSound'
  BY <1>0, <1>7 DEF Close, BackendKills, FinishClose
<1>8. ASSUME NEW s \in Sessions, OpenPage(s) \/ ClosePage(s) \/ SelectSession(s) PROVE PollsSound'
  BY <1>0, <1>8 DEF OpenPage, ClosePage, SelectSession, Quiet
<1>9. ASSUME NEW target, NEW source, NEW before, Dock(target, source, before) PROVE PollsSound'
  BY <1>0, <1>9 DEF Dock, Quiet
<1>10. ASSUME NEW leaf, RemoveTerminalPane(leaf) PROVE PollsSound'
  BY <1>0, <1>10 DEF RemoveTerminalPane, Quiet
<1>11. CASE UNCHANGED wsVars
  BY <1>0, <1>11 DEF wsVars
<1> QED
  BY <1>1, <1>2, <1>3, <1>4, <1>5, <1>6, <1>7, <1>8, <1>9, <1>10, <1>11 DEF WsNext

\* The tabs and the panes, for the steps that leave them alone and for the others.
LEMMA LayoutStill ==
    ASSUME WsSound, KnownStays, UNCHANGED Layout, twins' = twins PROVE TabsSound' /\ PanesSound'
<1>1. \A s \in Range(tabs) : s \in Sessions
  BY RangeTyped DEF WsSound, TabsSound
<1> QED
  BY <1>1 DEF WsSound, TabsSound, PanesSound, KnownStays, Layout

LEMMA LayoutFrom ==
    ASSUME WsSound, TabsSound', NEW mosaic \in Seq(Leaves), Relayout(mosaic),
           ~twins' => IsInjective(mosaic),
           UNCHANGED <<tabs, pages, active, page>> => Range(mosaic) \subseteq Valid(tabs, pages),
           ~twins' => (UNCHANGED <<tabs, pages, active, page>> /\ tabs # <<>> => mosaic # <<>>)
    PROVE  PanesSound'
<1>1. /\ tabs' \in Seq(Sessions) /\ pages' \in SUBSET Range(tabs') /\ page' \in pages' \cup {None}
      /\ active' \in Range(tabs') \/ (tabs' = <<>> /\ active' = None)
  BY DEF TabsSound
<1>2. pages' \in SUBSET Sessions
  <2>1. Range(tabs') \subseteq Sessions
    BY <1>1, RangeTyped
  <2> QED
    BY <1>1, <2>1
<1>3. panes' \in Seq(Leaves)
  BY <1>1, <1>2, RelayoutFits
<1>4. IsInjective(mosaic) => IsInjective(panes')
  BY <1>1, <1>2, RelayoutFits
<1>5. Range(panes') \subseteq Valid(tabs', pages')
  BY <1>1, <1>2, RelayoutFits
<1>6. (UNCHANGED <<tabs, pages, active, page>> /\ tabs # <<>> => mosaic # <<>>)
        => (tabs' # <<>> => panes' # <<>>)
  BY <1>1, <1>2, RelayoutFits
<1> QED
  BY <1>3, <1>4, <1>5, <1>6 DEF PanesSound

LEMMA LayoutFinishCreate ==
    ASSUME WsSound, KnownStays, NEW s \in Sessions, NEW agent \in BOOLEAN, FinishCreate(s, agent)
    PROVE  TabsSound' /\ PanesSound'
<1>1. /\ tabs \in Seq(Sessions) /\ Range(tabs) \subseteq Sessions
      /\ panes \in Seq(Leaves) /\ Range(panes) \subseteq Valid(tabs, pages)
  BY RangeTyped DEF WsSound, TabsSound, PanesSound
<1>2. /\ tabs' \in Seq(Sessions) /\ Range(tabs') = Range(tabs) \cup {s}
  <2>1. tabs' = Append(tabs, s) \/ (s \in Range(tabs) /\ tabs' = tabs)
    BY <1>1 DEF FinishCreate, Upsert
  <2>2. CASE tabs' = Append(tabs, s)
    BY <1>1, <2>2, AppendKeeps
  <2>3. CASE s \in Range(tabs) /\ tabs' = tabs
    BY <1>1, <2>3
  <2> QED
    BY <2>1, <2>2, <2>3
<1>3. TabsSound'
  <2>1. \A t \in Range(tabs') : WsKnown(t)'
    <3>1. s \in alive /\ alive' = alive /\ born' = born /\ s \in born
      BY DEF FinishCreate, WsSound, SessionsSound
    <3>2. calls'[s] = "none"
      BY DEF FinishCreate, WsSound, SessionsSound
    <3>3. WsKnown(s)'
      BY <3>1, <3>2 DEF WsKnown
    <3>4. \A t \in Range(tabs) : WsKnown(t)'
      BY <1>1 DEF WsSound, TabsSound, KnownStays
    <3> QED
      BY <1>2, <3>3, <3>4
  <2>2. pages' = pages /\ page' \in {None, page}
    BY DEF FinishCreate
  <2>3. pages' \in SUBSET Range(tabs') /\ page' \in pages' \cup {None}
    BY <1>2, <2>2 DEF WsSound, TabsSound
  <2>4. active' \in Range(tabs')
    <3>1. (active' = page' /\ page' # None) \/ (active' = active /\ active # None) \/ active' = s
      BY DEF FinishCreate, Follow
    <3>2. active # None => active \in Range(tabs)
      BY DEF WsSound, TabsSound
    <3> QED
      BY <1>2, <2>3, <3>1, <3>2
  <2>5. ~twins' => IsInjective(tabs')
    BY DEF FinishCreate
  <2> QED
    BY <1>2, <2>1, <2>3, <2>4, <2>5 DEF TabsSound
<1> DEFINE leaf == <<"session", s>>
           mosaic == IF agent THEN <<leaf>>
                   ELSE IF calls[s] = "splitting" THEN AddPane(panes, splitting, leaf) ELSE panes
<1>4. Relayout(mosaic)
  BY DEF FinishCreate
<1>5. leaf \in Leaves
  BY DEF Leaves
<1>6. UNCHANGED <<tabs, pages, active, page>> => leaf \in Valid(tabs, pages)
  BY <1>2 DEF Valid
<1>7. ~twins' => IsInjective(panes) /\ (tabs # <<>> => panes # <<>>)
  BY DEF FinishCreate, WsSound, PanesSound
<1>8. CASE agent
  <2>1. mosaic = <<leaf>>
    BY <1>8
  <2> HIDE DEF mosaic, leaf
  <2>2. mosaic \in Seq(Leaves) /\ Range(mosaic) = {leaf} /\ IsInjective(mosaic) /\ mosaic # <<>>
    BY <1>5, <2>1, OneElement
  <2> QED
    BY <1>3, <1>4, <1>6, <2>2, LayoutFrom
<1>9. CASE ~agent /\ calls[s] = "splitting"
  <2>1. mosaic = AddPane(panes, splitting, leaf)
    BY <1>9
  <2>2. ~twins' => leaf \notin Range(panes)
    <3>1. s \notin Ssh
      BY <1>9, SessionsAssumption DEF WsSound, SessionsSound
    <3>2. tabs' = Append(tabs, s) /\ (~twins' => IsInjective(tabs'))
      BY <1>9, <3>1 DEF FinishCreate
    <3>3. ~twins' => s \notin Range(tabs)
      BY <1>1, <3>2, AppendKeeps
    <3>4. ~twins' => leaf \notin Valid(tabs, pages)
      BY <3>3 DEF Valid
    <3> QED
      BY <1>1, <3>4
  <2> HIDE DEF mosaic, leaf
  <2>3. /\ mosaic \in Seq(Leaves) /\ mosaic # <<>> /\ Range(mosaic) \subseteq Range(panes) \cup {leaf}
        /\ IsInjective(panes) /\ leaf \notin Range(panes) => IsInjective(mosaic)
    BY <1>1, <1>5, <2>1, AddPaneKeeps
  <2>4. UNCHANGED <<tabs, pages, active, page>> => Range(mosaic) \subseteq Valid(tabs, pages)
    BY <1>1, <1>6, <2>3
  <2>5. ~twins' => IsInjective(mosaic)
    BY <1>7, <2>2, <2>3
  <2> QED
    BY <1>3, <1>4, <2>3, <2>4, <2>5, LayoutFrom
<1>10. CASE ~agent /\ calls[s] # "splitting"
  <2>1. mosaic = panes
    BY <1>10
  <2> HIDE DEF mosaic
  <2> QED
    BY <1>1, <1>3, <1>4, <1>7, <2>1, LayoutFrom
<1> QED
  BY <1>8, <1>9, <1>10

\* A step that takes tabs and pages away, or adds tabs, and lays the panes out again.
LEMMA LayoutSame ==
    ASSUME WsSound, TabsSound', twins' = twins, Relayout(panes) PROVE PanesSound'
<1>1. /\ panes \in Seq(Leaves) /\ Range(panes) \subseteq Valid(tabs, pages)
      /\ ~twins' => IsInjective(panes)
      /\ ~twins' => (tabs # <<>> => panes # <<>>)
  BY DEF WsSound, PanesSound
<1> QED
  BY <1>1, LayoutFrom

LEMMA LayoutFinishClose ==
    ASSUME WsSound, KnownStays, NEW s \in Sessions, FinishClose(s) PROVE TabsSound' /\ PanesSound'
<1>0. twins' = twins
  BY DEF FinishClose
<1>1. CASE UNCHANGED Layout
  BY <1>0, <1>1, LayoutStill
<1>2. CASE s \in Range(tabs) /\ RemoveSession(s) /\ Relayout(panes)
  <2> DEFINE others == Sessions \ {s}
  <2>1. /\ tabs \in Seq(Sessions) /\ Range(tabs) \subseteq Sessions /\ tabs' = KeepOnly(tabs, others)
        /\ pages \in SUBSET Range(tabs) /\ page \in pages \cup {None}
    BY <1>2, RangeTyped DEF WsSound, TabsSound, RemoveSession
  <2>2. /\ tabs' \in Seq(Sessions) /\ Range(tabs') = Range(tabs) \ {s}
        /\ IsInjective(tabs) => IsInjective(tabs')
    <3>1. /\ tabs' \in Seq(Sessions) /\ Range(tabs') = Range(tabs) \cap others
          /\ IsInjective(tabs) => IsInjective(tabs')
      <4> HIDE DEF others
      <4> QED
        BY <2>1, KeepOnlyKeeps
    <3> QED
      BY <2>1, <3>1
  <2>3. pages' \in SUBSET Range(tabs') /\ page' \in pages' \cup {None}
    <3>1. pages' = pages \cap others
      BY <1>2 DEF RemoveSession, Retain
    <3>2. page' \in IF page \in pages' \/ pages' = pages THEN {page}
                    ELSE IF pages' = {} THEN {None} ELSE pages'
      BY <1>2 DEF RemoveSession, Retain
    <3>3. page' \in pages' \cup {None}
      BY <2>1, <3>2
    <3> QED
      BY <2>1, <2>2, <3>1, <3>3
  <2>4. active' \in Range(tabs') \/ (tabs' = <<>> /\ active' = None)
    <3>1. CASE page' # None
      BY <1>2, <2>3, <3>1 DEF RemoveSession, Follow
    <3>2. CASE page' = None /\ active # s
      <4>1. active' = active
        BY <1>2, <3>2 DEF RemoveSession, Follow
      <4>2. active \in Range(tabs)
        BY <1>2 DEF WsSound, TabsSound, Range
      <4> QED
        BY <2>2, <3>2, <4>1, <4>2
    <3>3. CASE page' = None /\ active = s /\ tabs' = <<>>
      BY <1>2, <3>3 DEF RemoveSession, Follow
    <3>4. CASE page' = None /\ active = s /\ tabs' # <<>>
      <4> DEFINE i == IndexIn(tabs, s)
                 j == IF i < Len(tabs') THEN i ELSE Len(tabs')
      <4>1. active' = tabs'[j]
        BY <1>2, <3>4 DEF RemoveSession, Follow
      <4>2. i \in 1..Len(tabs)
        BY <1>2, <2>1, IndexOf
      <4> HIDE DEF i
      <4>3. j \in 1..Len(tabs')
        BY <2>1, <2>2, <3>4, <4>2
      <4> HIDE DEF j
      <4> QED
        BY <2>2, <4>1, <4>3, InRange
    <3> QED
      BY <3>1, <3>2, <3>3, <3>4
  <2>5. \A t \in Range(tabs') : WsKnown(t)'
    BY <2>1, <2>2 DEF WsSound, TabsSound, KnownStays
  <2>6. ~twins' => IsInjective(tabs')
    BY <1>0, <2>2 DEF WsSound, TabsSound
  <2>7. TabsSound'
    BY <2>2, <2>3, <2>4, <2>5, <2>6 DEF TabsSound
  <2> QED
    BY <1>0, <1>2, <2>7, LayoutSame
<1> QED
  BY <1>1, <1>2 DEF FinishClose

\* The sessions that a poll has found, listed: new ones, each once, and all of them seen.
LEMMA PollLists ==
    ASSUME WsSound, NEW p \in Polls, polls[p] # Idle, polls[p].ssh # {None}
    PROVE  /\ SetToSeq(NewIn(polls[p], tabs)) \in Seq(Sessions)
           /\ Range(SetToSeq(NewIn(polls[p], tabs))) \subseteq NewIn(polls[p], tabs)
           /\ IsInjective(SetToSeq(NewIn(polls[p], tabs)))
           /\ NewIn(polls[p], tabs) \cap Range(tabs) = {}
           /\ \A s \in NewIn(polls[p], tabs) : s \in Sessions /\ WsKnown(s)
<1> DEFINE q == polls[p]
           new == NewIn(q, tabs)
           shells == IF q.shells = {None} THEN {} ELSE q.shells
           all == q.ssh \cup shells
<1>0. q \in PollRecord /\ PollSound(q)
  BY DEF WsSound, PollsSound
<1>1. q.ssh \in SUBSET Sessions /\ IsFiniteSet(q.ssh) /\ \A s \in q.ssh : WsKnown(s)
  BY <1>0 DEF PollRecord, PollSound, Sessions
<1>2. shells \in SUBSET Sessions /\ IsFiniteSet(shells) /\ \A s \in shells : WsKnown(s)
  <2>1. CASE q.shells = {None}
    BY <2>1, FS_EmptySet
  <2>2. CASE q.shells # {None}
    BY <1>0, <2>2 DEF PollRecord, PollSound, Sessions
  <2> QED
    BY <2>1, <2>2
<1>3. new = all \ Range(tabs)
  BY DEF NewIn
<1> HIDE DEF shells
<1>4. IsFiniteSet(all)
  BY <1>1, <1>2, FS_Union
<1>5. new \in SUBSET all
  BY <1>3
<1>6. \A s \in all : s \in Sessions /\ WsKnown(s)
  BY <1>1, <1>2
<1> HIDE DEF all, new
<1>7. IsFiniteSet(new)
  BY <1>4, <1>5, FS_Subset
<1>8. new \in SUBSET Sessions
  BY <1>5, <1>6
<1>9. SetToSeq(new) \in Seq(Sessions) /\ Range(SetToSeq(new)) \subseteq new /\ IsInjective(SetToSeq(new))
  BY <1>7, <1>8, SetToSeqLists
<1> QED
  BY <1>3, <1>5, <1>6, <1>9 DEF new

LEMMA LayoutMergePoll ==
    ASSUME WsSound, KnownStays, NEW p \in Polls, MergePoll(p) PROVE TabsSound' /\ PanesSound'
<1> DEFINE q == polls[p]
<1>0. twins' = twins /\ q \in PollRecord /\ PollSound(q) /\ q # Idle
  BY DEF MergePoll, WsSound, PollsSound
<1>1. CASE q.ssh = {None}
  BY <1>0, <1>1, LayoutStill DEF MergePoll
<1>2. CASE q.ssh # {None}
  <2> DEFINE stay == Sessions \ Stale(q)
             new == NewIn(q, tabs)
             l == KeepOnly(tabs, stay)
             m == SetToSeq(new)
  <2>1. /\ tabs' = l \o m /\ Retain(Range(tabs')) /\ Relayout(panes)
        /\ Follow(IF active \in Range(tabs') THEN active
                  ELSE IF tabs' = <<>> THEN None ELSE tabs'[1])
    BY <1>2 DEF MergePoll
  <2>2. /\ tabs \in Seq(Sessions) /\ Range(tabs) \subseteq Sessions
        /\ pages \in SUBSET Range(tabs) /\ page \in pages \cup {None}
    BY RangeTyped DEF WsSound, TabsSound
  <2>3. /\ m \in Seq(Sessions) /\ Range(m) \subseteq new /\ IsInjective(m)
        /\ new \cap Range(tabs) = {} /\ \A s \in new : WsKnown(s)'
    <3>1. /\ m \in Seq(Sessions) /\ Range(m) \subseteq new /\ IsInjective(m)
          /\ new \cap Range(tabs) = {} /\ \A s \in new : s \in Sessions /\ WsKnown(s)
      BY <1>0, <1>2, PollLists
    <3> HIDE DEF m, new
    <3> QED
      BY <3>1 DEF KnownStays
  <2>4. /\ l \in Seq(Sessions) /\ Range(l) \subseteq Range(tabs)
        /\ IsInjective(tabs) => IsInjective(l)
    <3> HIDE DEF stay
    <3>1. /\ l \in Seq(Sessions) /\ Range(l) = Range(tabs) \cap stay
          /\ IsInjective(tabs) => IsInjective(l)
      BY <2>2, KeepOnlyKeeps
    <3> QED
      BY <3>1
  <2> HIDE DEF new, l, m
  <2>6. tabs' \in Seq(Sessions) /\ Range(tabs') = Range(l) \cup Range(m)
    BY <2>1, <2>3, <2>4, ConcatKeeps
  <2>7. IsInjective(l) /\ IsInjective(m) /\ Range(l) \cap Range(m) = {} => IsInjective(tabs')
    BY <2>1, <2>3, <2>4, ConcatKeeps
  <2>8. ~twins' => IsInjective(tabs')
    BY <1>0, <2>3, <2>4, <2>7 DEF WsSound, TabsSound
  <2>9. \A t \in Range(tabs') : WsKnown(t)'
    <3>1. \A t \in Range(tabs) : WsKnown(t)'
      BY <2>2 DEF WsSound, TabsSound, KnownStays
    <3> QED
      BY <2>3, <2>4, <2>6, <3>1
  <2>10. pages' \in SUBSET Range(tabs') /\ page' \in pages' \cup {None}
    <3>1. pages' = pages \cap Range(tabs')
      BY <2>1 DEF Retain
    <3>2. page' \in IF page \in pages' \/ pages' = pages THEN {page}
                    ELSE IF pages' = {} THEN {None} ELSE pages'
      BY <2>1 DEF Retain
    <3> QED
      BY <2>2, <3>1, <3>2
  <2>11. active' \in Range(tabs') \/ (tabs' = <<>> /\ active' = None)
    <3>1. CASE page' # None
      BY <2>1, <2>10, <3>1 DEF Follow
    <3>2. CASE page' = None /\ active \in Range(tabs')
      BY <2>1, <3>2 DEF Follow
    <3>3. CASE page' = None /\ active \notin Range(tabs') /\ tabs' = <<>>
      BY <2>1, <3>3 DEF Follow
    <3>4. CASE page' = None /\ active \notin Range(tabs') /\ tabs' # <<>>
      <4>1. active' = tabs'[1]
        BY <2>1, <3>4 DEF Follow
      <4>2. 1 \in 1..Len(tabs')
        BY <2>6, <3>4
      <4> QED
        BY <2>6, <4>1, <4>2, InRange
    <3> QED
      BY <3>1, <3>2, <3>3, <3>4
  <2>12. TabsSound'
    BY <2>6, <2>8, <2>9, <2>10, <2>11 DEF TabsSound
  <2> QED
    BY <1>0, <2>1, <2>12, LayoutSame
<1> QED
  BY <1>1, <1>2

LEMMA LayoutOpenPage ==
    ASSUME WsSound, KnownStays, NEW s \in Sessions, OpenPage(s) \/ SelectSession(s)
    PROVE  TabsSound' /\ PanesSound'
<1>1. /\ tabs' = tabs /\ twins' = twins /\ Relayout(panes)
      /\ s \in Range(tabs) /\ active' = s
      /\ (pages' = pages \cup {s} /\ page' = s) \/ (pages' = pages /\ page' = None)
  BY DEF OpenPage, SelectSession, Quiet
<1>2. tabs \in Seq(Sessions) /\ Range(tabs) \subseteq Sessions /\ pages \in SUBSET Range(tabs)
  BY RangeTyped DEF WsSound, TabsSound
<1>3. TabsSound'
  BY <1>1, <1>2 DEF WsSound, TabsSound, KnownStays
<1> QED
  BY <1>1, <1>3, LayoutSame

LEMMA LayoutClosePage ==
    ASSUME WsSound, KnownStays, NEW s \in Sessions, ClosePage(s) PROVE TabsSound' /\ PanesSound'
<1>1. /\ tabs' = tabs /\ twins' = twins /\ s \in pages /\ pages' = pages \ {s}
      /\ page' \in IF page # s THEN {page} ELSE IF pages' = {} THEN {None} ELSE pages'
      /\ Follow(active)
  BY DEF ClosePage, Quiet
<1>2. /\ tabs \in Seq(Sessions) /\ Range(tabs) \subseteq Sessions
      /\ pages \in SUBSET Range(tabs) /\ page \in pages \cup {None}
      /\ active \in Range(tabs) \/ (tabs = <<>> /\ active = None)
      /\ ~twins => IsInjective(tabs)
      /\ \A t \in Range(tabs) : WsKnown(t)
  BY RangeTyped DEF WsSound, TabsSound
<1>3. page' \in pages' \cup {None}
  BY <1>1, <1>2
<1>4. active' \in Range(tabs) \/ (tabs = <<>> /\ active' = None)
  BY <1>1, <1>2, <1>3 DEF Follow
<1>5. TabsSound'
  BY <1>1, <1>2, <1>3, <1>4 DEF TabsSound, KnownStays
<1> DEFINE mosaic == RemovePane(panes, <<"page", s>>)
<1>6. Relayout(mosaic) /\ panes \in Seq(Leaves) /\ (~twins' => IsInjective(panes))
  BY <1>1 DEF ClosePage, WsSound, PanesSound
<1>7. mosaic \in Seq(Leaves) /\ (IsInjective(panes) => IsInjective(mosaic))
  BY <1>6, RemovePaneKeeps
<1>8. ~UNCHANGED <<tabs, pages, active, page>>
  BY <1>1
<1> HIDE DEF mosaic
<1> QED
  BY <1>5, <1>6, <1>7, <1>8, LayoutFrom

LEMMA LayoutDock ==
    ASSUME WsSound, KnownStays, NEW target \in Valid(tabs, pages), NEW source \in Valid(tabs, pages),
           NEW before, Dock(target, source, before)
    PROVE  TabsSound' /\ PanesSound'
<1> DEFINE base == IF target \in Range(panes) THEN panes ELSE <<target>>
           mosaic == DockPane(base, target, source, before)
<1>1. /\ tabs' = tabs /\ pages' = pages /\ twins' = twins /\ Relayout(mosaic)
      /\ active' = source[2] /\ page' = IF source[1] = "page" THEN source[2] ELSE None
  BY DEF Dock, Quiet
<1>2. /\ tabs \in Seq(Sessions) /\ Range(tabs) \subseteq Sessions /\ pages \in SUBSET Range(tabs)
      /\ ~twins => IsInjective(tabs)
      /\ \A t \in Range(tabs) : WsKnown(t)
      /\ panes \in Seq(Leaves) /\ Range(panes) \subseteq Valid(tabs, pages)
      /\ ~twins => IsInjective(panes)
  BY RangeTyped DEF WsSound, TabsSound, PanesSound
<1>3. source[2] \in Range(tabs) /\ (source[1] = "page" => source[2] \in pages)
  BY <1>2 DEF Valid
<1>4. TabsSound'
  BY <1>1, <1>2, <1>3 DEF TabsSound, KnownStays
<1>5. target \in Leaves /\ source \in Leaves
  <2>1. Valid(tabs, pages) \subseteq Leaves
    BY <1>2, ValidLeaves
  <2> QED
    BY <2>1
<1>6. /\ base \in Seq(Leaves) /\ Range(base) \subseteq Valid(tabs, pages)
      /\ ~twins => IsInjective(base)
  <2>1. CASE target \in Range(panes)
    BY <1>2, <2>1
  <2>2. CASE target \notin Range(panes)
    <3>1. base = <<target>>
      BY <2>2
    <3>2. base \in Seq(Leaves) /\ Range(base) = {target} /\ IsInjective(base)
      BY <1>5, <3>1, OneElement
    <3> HIDE DEF base
    <3> QED
      BY <3>2
  <2> QED
    BY <2>1, <2>2
<1> HIDE DEF base
<1>7. /\ mosaic \in Seq(Leaves) /\ mosaic # <<>> /\ Range(mosaic) \subseteq Range(base) \cup {source}
      /\ IsInjective(base) => IsInjective(mosaic)
  BY <1>5, <1>6, DockPaneKeeps
<1> HIDE DEF mosaic
<1>8. Range(mosaic) \subseteq Valid(tabs, pages) /\ (~twins' => IsInjective(mosaic))
  BY <1>1, <1>6, <1>7
<1> QED
  BY <1>1, <1>4, <1>7, <1>8, LayoutFrom

LEMMA LayoutRemovePane ==
    ASSUME WsSound, KnownStays, NEW leaf \in Range(panes), RemoveTerminalPane(leaf)
    PROVE  TabsSound' /\ PanesSound'
<1> DEFINE next == RemovePane(panes, leaf)
           kind == {"session"} \X Sessions
           shells == KeepOnly(next, kind)
<1>1. /\ UNCHANGED <<tabs, pages, page>> /\ twins' = twins /\ Relayout(next) /\ Len(panes) > 1
      /\ Follow(IF leaf = <<"session", active>> /\ shells # <<>> THEN shells[1][2] ELSE active)
  BY DEF RemoveTerminalPane, Quiet
<1>2. /\ tabs \in Seq(Sessions) /\ Range(tabs) \subseteq Sessions /\ pages \in SUBSET Range(tabs)
      /\ page \in pages \cup {None}
      /\ active \in Range(tabs) \/ (tabs = <<>> /\ active = None)
      /\ ~twins => IsInjective(tabs)
      /\ \A t \in Range(tabs) : WsKnown(t)
      /\ panes \in Seq(Leaves) /\ Range(panes) \subseteq Valid(tabs, pages)
      /\ ~twins => IsInjective(panes)
  BY RangeTyped DEF WsSound, TabsSound, PanesSound
<1>3. /\ next \in Seq(Leaves) /\ Range(next) = Range(panes) \ {leaf}
      /\ IsInjective(panes) => IsInjective(next)
  BY <1>2, RemovePaneKeeps
<1> HIDE DEF next
<1>4. shells # <<>> => shells[1][2] \in Range(tabs)
  <2>1. shells \in Seq(Leaves) /\ Range(shells) = Range(next) \cap kind
    <3> HIDE DEF kind
    <3> QED
      BY <1>3, KeepOnlyKeeps
  <2> SUFFICES ASSUME shells # <<>> PROVE shells[1][2] \in Range(tabs)
    OBVIOUS
  <2> DEFINE first == shells[1]
  <2>2. first \in Range(shells)
    <3> HIDE DEF shells
    <3>1. 1 \in 1..Len(shells)
      BY <2>1
    <3> QED
      BY <2>1, <3>1, InRange
  <2>3. first \in Valid(tabs, pages) /\ first \in kind
    BY <1>2, <1>3, <2>1, <2>2
  <2> HIDE DEF first
  <2>4. first[1] = "session"
    BY <2>3
  <2>5. first[2] \in Range(tabs)
    BY <1>2, <2>3, <2>4 DEF Valid
  <2> QED
    BY <2>5 DEF first
<1>5. active' \in Range(tabs) \/ (tabs = <<>> /\ active' = None)
  <2>1. page' = page
    BY <1>1
  <2>2. CASE page # None
    BY <1>1, <1>2, <2>1, <2>2 DEF Follow
  <2>3. CASE page = None /\ shells # <<>>
    <3> HIDE DEF shells
    <3>1. active' = shells[1][2] \/ active' = active
      BY <1>1, <2>1, <2>3 DEF Follow
    <3> QED
      BY <1>2, <1>4, <2>3, <3>1
  <2>4. CASE page = None /\ shells = <<>>
    <3> HIDE DEF shells
    <3> QED
      BY <1>1, <1>2, <2>1, <2>4 DEF Follow
  <2> QED
    BY <2>2, <2>3, <2>4
<1>6. TabsSound'
  BY <1>1, <1>2, <1>5 DEF TabsSound, KnownStays
<1>7. ~twins => next # <<>>
  <2> SUFFICES ASSUME ~twins, next = <<>> PROVE FALSE
    OBVIOUS
  <2>1. 1 \in 1..Len(panes) /\ 2 \in 1..Len(panes)
    BY <1>1, <1>2
  <2>2. panes[1] # panes[2]
    BY <1>2, <2>1, InjectiveAt
  <2>3. panes[1] \in Range(panes) /\ panes[2] \in Range(panes)
    BY <1>2, <2>1, InRange
  <2>4. Range(next) # {}
    BY <1>3, <2>2, <2>3
  <2>5. Range(next) = {}
    BY DEF Range
  <2> QED
    BY <2>4, <2>5
<1>8. Range(next) \subseteq Valid(tabs, pages) /\ (~twins' => IsInjective(next))
  BY <1>1, <1>2, <1>3
<1> QED
  BY <1>1, <1>3, <1>6, <1>7, <1>8, LayoutFrom

LEMMA WsInitSound == WsInit => WsSound
<1> SUFFICES ASSUME WsInit PROVE WsSound
  OBVIOUS
<1>1. tabs \in Seq(Sessions) /\ Range(tabs) = {} /\ IsInjective(tabs)
  BY DEF WsInit, Range, IsInjective
<1>2. panes \in Seq(Leaves) /\ Range(panes) = {} /\ IsInjective(panes)
  BY DEF WsInit, Range, IsInjective
<1>3. TabsSound
  BY <1>1 DEF WsInit, TabsSound
<1>4. PanesSound
  BY <1>2 DEF WsInit, PanesSound
<1>5. SessionsSound
  BY FS_EmptySet DEF WsInit, SessionsSound, SessionCalls
<1>6. PollsSound
  BY SessionsAssumption DEF WsInit, PollsSound, PollSound
<1> QED
  BY <1>3, <1>4, <1>5, <1>6 DEF WsInit, WsSound

LEMMA WsRest ==
    ASSUME WsSound, [WsNext]_wsVars PROVE splitting' \in Leaves \cup {None} /\ twins' \in BOOLEAN
<1>1. splitting \in Leaves \cup {None} /\ twins \in BOOLEAN
  BY DEF WsSound
<1>2. ASSUME NEW s \in Sessions, NEW target \in Leaves \cup {None}, Create(s, target)
      PROVE  splitting' \in Leaves \cup {None} /\ twins' \in BOOLEAN
  BY <1>1, <1>2 DEF Create
<1>3. ASSUME NEW s \in Sessions, NEW agent, FinishCreate(s, agent)
      PROVE  splitting' \in Leaves \cup {None} /\ twins' \in BOOLEAN
  BY <1>1, <1>3 DEF FinishCreate
<1>4. \/ \E s \in Sessions, target \in Leaves \cup {None} : Create(s, target)
      \/ \E s \in Sessions, agent \in BOOLEAN : FinishCreate(s, agent)
      \/ UNCHANGED <<splitting, twins>>
  BY DEF WsNext, wsVars, BackendCreates, AgentCreates, SessionDies, Close, BackendKills, FinishClose,
         OpenPage, ClosePage, SelectSession, StartPoll, MergePoll, AnswerList, Dock,
         RemoveTerminalPane, Quiet
<1> QED
  BY <1>1, <1>2, <1>3, <1>4

LEMMA LayoutStepKeeps ==
    ASSUME WsSound, KnownStays, [WsNext]_wsVars PROVE TabsSound' /\ PanesSound'
<1>1. CASE UNCHANGED Layout /\ twins' = twins
  BY <1>1, LayoutStill
<1>2. ASSUME NEW s \in Sessions, NEW target, Create(s, target) PROVE TabsSound' /\ PanesSound'
  BY <1>1, <1>2 DEF Create
<1>3. ASSUME NEW s \in Sessions, BackendCreates(s) \/ AgentCreates(s) \/ SessionDies(s)
      PROVE  TabsSound' /\ PanesSound'
  BY <1>1, <1>3 DEF BackendCreates, AgentCreates, SessionDies
<1>4. ASSUME NEW s \in Sessions, Close(s) \/ BackendKills(s) PROVE TabsSound' /\ PanesSound'
  BY <1>1, <1>4 DEF Close, BackendKills
<1>5. ASSUME NEW p \in Polls, StartPoll(p) PROVE TabsSound' /\ PanesSound'
  BY <1>1, <1>5 DEF StartPoll
<1>6. ASSUME NEW p \in Polls, NEW which, AnswerList(p, which) PROVE TabsSound' /\ PanesSound'
  BY <1>1, <1>6 DEF AnswerList
<1>7. CASE UNCHANGED wsVars
  BY <1>1, <1>7 DEF wsVars, Layout
<1> QED
  BY <1>2, <1>3, <1>4, <1>5, <1>6, <1>7, LayoutFinishCreate, LayoutFinishClose, LayoutMergePoll,
     LayoutOpenPage, LayoutClosePage, LayoutDock, LayoutRemovePane DEF WsNext

LEMMA WsStep == WsSound /\ [WsNext]_wsVars => WsSound' /\ KnownStays
<1> SUFFICES ASSUME WsSound, [WsNext]_wsVars PROVE WsSound' /\ KnownStays
  OBVIOUS
<1>1. SessionsSound' /\ KnownStays
  BY SessionsStep DEF WsSound, TabsSound
<1>2. PollsSound' /\ TabsSound' /\ PanesSound'
  BY <1>1, PollsStep, LayoutStepKeeps
<1> QED
  BY <1>1, <1>2, WsRest DEF WsSound

LEMMA WsAlways == WsSpec => []WsSound
<1>1. WsSound /\ [WsNext]_wsVars => WsSound'
  BY WsStep
<1> QED
  BY WsInitSound, <1>1, PTL DEF WsSpec

\* Sessions, tabs, pages, panes, calls and polls are well-typed.
THEOREM WorkspaceTypes == WsSpec => []WsTypeOK
<1>1. WsSound => WsTypeOK
  <2> SUFFICES ASSUME WsSound PROVE WsTypeOK
    OBVIOUS
  <2>1. Range(tabs) \subseteq Sessions
    BY RangeTyped DEF WsSound, TabsSound
  <2> QED
    BY <2>1 DEF WsTypeOK, WsSound, SessionsSound, PollsSound, PollRecord, TabsSound, PanesSound
<1> QED
  BY <1>1, WsAlways, PTL

\* LayoutFits holds in every reachable state: whatever sessions come and go, polls overlap
\* and panes are split, docked and removed, the layout has each leaf once, each leaf shows a
\* tab, and there is a pane while there is a tab.
THEOREM LayoutFitsAlways == WsSpec => []LayoutFits
<1>1. WsSound => LayoutFits
  <2> SUFFICES ASSUME WsSound PROVE LayoutFits
    OBVIOUS
  <2>1. tabs # <<>> => active \in Range(tabs)
    BY DEF WsSound, TabsSound
  <2> QED
    BY <2>1 DEF LayoutFits, WsSound, PanesSound
<1> QED
  BY <1>1, WsAlways, PTL

\* A tab goes only with its session: the merge of a poll removes none that the managers have,
\* because who was seen and is gone stays gone; the pages of tabs that stay are left alone.
THEOREM TabsStay == WsSpec => TabsKept
<1> DEFINE Kept ==
      \A s \in Sessions :
        /\ (s \in Range(tabs) /\ s \notin Range(tabs')) => s \notin alive
        /\ (s \in pages /\ s \notin pages' /\ s \in Range(tabs')) => calls' = calls /\ polls' = polls
<1>1. WsSound /\ [WsNext]_wsVars => [Kept]_wsVars
  <2> SUFFICES ASSUME WsSound, WsNext PROVE Kept
    BY DEF wsVars
  <2>1. tabs \in Seq(Sessions) /\ Range(tabs) \subseteq Sessions
    BY RangeTyped DEF WsSound, TabsSound
  <2>2. CASE UNCHANGED <<tabs, pages>>
    BY <2>2
  <2>3. ASSUME NEW s \in Sessions, NEW agent \in BOOLEAN, FinishCreate(s, agent) PROVE Kept
    <3>1. pages' = pages /\ (tabs' = tabs \/ tabs' = Append(tabs, s))
      BY <2>3 DEF FinishCreate, Upsert
    <3>2. Range(tabs) \subseteq Range(tabs')
      <4>1. Range(Append(tabs, s)) = Range(tabs) \cup {s}
        BY <2>1, AppendKeeps
      <4> QED
        BY <3>1, <4>1
    <3> QED
      BY <3>1, <3>2
  <2>4. ASSUME NEW s \in Sessions, FinishClose(s) PROVE Kept
    <3>1. CASE UNCHANGED Layout
      BY <2>2, <3>1 DEF Layout
    <3>2. CASE calls[s] = "killed" /\ RemoveSession(s)
      <4> DEFINE others == Sessions \ {s}
      <4>1. tabs' = KeepOnly(tabs, others) /\ pages' = pages \cap others
        BY <3>2 DEF RemoveSession, Retain
      <4>2. Range(tabs') = Range(tabs) \cap others
        <5> HIDE DEF others
        <5> QED
          BY <2>1, <4>1, KeepOnlyKeeps
      <4>3. s \notin alive
        BY <3>2 DEF WsSound, SessionsSound
      <4> QED
        BY <4>1, <4>2, <4>3
    <3> QED
      BY <2>4, <3>1, <3>2 DEF FinishClose
  <2>5. ASSUME NEW p \in Polls, MergePoll(p) PROVE Kept
    <3> DEFINE q == polls[p]
               stay == Sessions \ Stale(q)
               l == KeepOnly(tabs, stay)
               m == SetToSeq(NewIn(q, tabs))
    <3>1. CASE q.ssh = {None}
      BY <2>2, <2>5, <3>1 DEF MergePoll, Layout
    <3>2. CASE q.ssh # {None}
      <4>1. tabs' = l \o m /\ pages' = pages \cap Range(tabs')
        BY <2>5, <3>2 DEF MergePoll, Retain
      <4>3. l \in Seq(Sessions) /\ Range(l) = Range(tabs) \cap stay
        <5> HIDE DEF stay
        <5> QED
          BY <2>1, KeepOnlyKeeps
      <4>4. Range(l) \subseteq Range(tabs')
        <5>1. m \in Seq(Sessions)
          BY <2>5, <3>2, PollLists DEF MergePoll
        <5> HIDE DEF l, m
        <5>2. Range(l \o m) = Range(l) \cup Range(m)
          BY <4>3, <5>1, ConcatKeeps
        <5> QED
          BY <4>1, <5>2
      <4>5. \A s \in Stale(q) : s \notin alive
        BY <2>5, <3>2 DEF Stale, MergePoll, WsSound, PollsSound, PollSound
      <4> QED
        BY <4>1, <4>3, <4>4, <4>5
    <3> QED
      BY <3>1, <3>2
  <2>6. ASSUME NEW s \in Sessions, OpenPage(s) \/ ClosePage(s) \/ SelectSession(s) PROVE Kept
    BY <2>6 DEF OpenPage, ClosePage, SelectSession, Quiet
  <2>7. ASSUME NEW target, NEW source, NEW before, Dock(target, source, before) PROVE Kept
    BY <2>2, <2>7 DEF Dock
  <2>8. ASSUME NEW leaf, RemoveTerminalPane(leaf) PROVE Kept
    BY <2>2, <2>8 DEF RemoveTerminalPane
  <2>9. ASSUME NEW s \in Sessions, NEW target, Create(s, target) PROVE Kept
    BY <2>2, <2>9 DEF Create, Layout
  <2>10. ASSUME NEW s \in Sessions, BackendCreates(s) \/ AgentCreates(s) \/ SessionDies(s) PROVE Kept
    BY <2>2, <2>10 DEF BackendCreates, AgentCreates, SessionDies, Layout
  <2>11. ASSUME NEW s \in Sessions, Close(s) \/ BackendKills(s) PROVE Kept
    BY <2>2, <2>11 DEF Close, BackendKills, Layout
  <2>12. ASSUME NEW p \in Polls, StartPoll(p) PROVE Kept
    BY <2>2, <2>12 DEF StartPoll, Layout
  <2>13. ASSUME NEW p \in Polls, NEW which, AnswerList(p, which) PROVE Kept
    BY <2>2, <2>13 DEF AnswerList, Layout
  <2> HIDE DEF Kept
  <2> QED
    BY <2>3, <2>4, <2>5, <2>6, <2>7, <2>8, <2>9, <2>10, <2>11, <2>12, <2>13 DEF WsNext
<1> QED
  BY <1>1, WsAlways, PTL DEF WsSpec, TabsKept

-----------------------------------------------------------------------------
(* Databases. *)

KeyPairs == [key : Int, salt : Int]
Rows == [host : Hosts, text : Secrets \cup {Blank}, under : KeyPairs]
Wishes == [host : Hosts, secret : Secrets \cup {Blank}]

LoaderStages == {"lock", "read", "newkey", "newsalt", "refused"}
SaveOps == [stage : LoaderStages \cup {"save"}, next : {"save"}, id : DbIds, host : Hosts,
            secret : Secrets \cup {Blank}, existing : Rows \cup {NoConnection}]
UseOps == [stage : LoaderStages \cup {"decrypt", "connect"}, next : {"decrypt"}, id : DbIds,
           what : {"list", "query"}, row : Rows, limit : Int, expected : Wishes]
AnswerOps == [stage : {"touch", "done"}, what : {"list", "query"}, id : DbIds, row : Rows, size : Int, got : Int,
              truncated : BOOLEAN]

\* A key that encrypts: the first one, or one whose salt was cut when something had gone wrong.
KeyOf(k) == k = original \/ (CutSalt(k) /\ harm > 0)

\* Each row is what the user saved, and its password was encrypted with a key of this device.
RowFits(i) ==
    \/ rows[i] = NoConnection /\ intended[i] = NoConnection
    \/ /\ rows[i] \in Rows /\ intended[i] \in Wishes
       /\ rows[i].host = intended[i].host /\ rows[i].text = intended[i].secret
       /\ rows[i].text # Blank => KeyOf(rows[i].under) /\ original # NoKey

\* A save goes on from the row as it is; nobody else changes it meanwhile.
SaveFits(r) ==
    /\ r \in SaveOps /\ rows[r.id] = r.existing
    /\ r.stage = "save" /\ r.secret # Blank => crypto # NoKey
    /\ r.stage = "refused" => harm > 0

\* A task has a row as it was saved, under a key of this device.
UseFits(r) ==
    /\ r \in UseOps
    /\ r.row.host = r.expected.host /\ r.row.text = r.expected.secret
    /\ r.row.text # Blank => KeyOf(r.row.under) /\ original # NoKey
    /\ r.stage # "connect" => r.row.text # Blank
    /\ r.stage = "decrypt" => crypto # NoKey
    /\ r.stage = "refused" => harm > 0

AnswerFits(r) == r \in AnswerOps /\ (r.what = "query" /\ r.got < r.size => r.truncated)

OpFits(t, r) ==
    \/ r = Unused
    \/ t = Main /\ SaveFits(r)
    \/ t # Main /\ (UseFits(r) \/ AnswerFits(r))

\* Who holds the lock reads the files or makes them, and they are made only where there was none.
Making(t) ==
    /\ op[t].stage \in {"read", "newkey", "newsalt"} <=> lockedBy = t
    /\ op[t].stage = "newkey" => original = NoKey /\ file = NoKey
    /\ op[t].stage = "newsalt" => original = NoKey /\ file.key > 0 /\ file.salt = Missing

\* One part of the key that was made is where it was, or in the backup.
PartFits(now, there, first) == there \in {Missing, first} /\ (now = first \/ (now <= 0 /\ there = first))

FilesFit ==
    /\ crypto # NoKey => KeyOf(crypto) /\ original # NoKey
    /\ original = NoKey =>
         /\ away["key"] = Missing /\ away["salt"] = Missing /\ file.salt <= 0
         /\ harm = 0 => file = NoKey \/ \E t \in Threads : op[t].stage = "newsalt"
    /\ original # NoKey =>
         /\ Usable(original)
         /\ PartFits(file.key, away["key"], original.key) /\ PartFits(file.salt, away["salt"], original.salt)
         /\ file.key = original.key \/ file.salt = original.salt
         /\ harm = 0 => file = original

DbShape ==
    /\ rows \in [DbIds -> Rows \cup {NoConnection}] /\ intended \in [DbIds -> Wishes \cup {NoConnection}]
    /\ file \in KeyPairs /\ crypto \in KeyPairs /\ original \in KeyPairs /\ away \in [KeyFiles -> Int]
    /\ lockedBy \in Threads \cup {Blank}
    /\ op \in [Threads -> SaveOps \cup UseOps \cup AnswerOps \cup {Unused}]
    /\ dbSaves \in 0..MaxDbSaves /\ harm \in 0..MaxHarm

DbInv ==
    /\ DbShape /\ FilesFit
    /\ \A i \in DbIds : RowFits(i)
    /\ \A t \in Threads : OpFits(t, op[t]) /\ Making(t)

LEMMA RowFact == \A r \in Rows \cup Wishes : r # NoConnection
  BY DatabasesAssumption DEF Rows, Wishes, NoConnection

LEMMA NoKeyFact == NoKey \in KeyPairs /\ NoKey.key = 0 /\ NoKey.salt = 0 /\ \A k \in KeyPairs : k.key = 0 /\ k.salt = 0 => k = NoKey
  BY DEF NoKey, Missing, KeyPairs

LEMMA MinFact ==
    ASSUME NEW x \in Int, NEW y \in Int
    PROVE  Min({x, y}) \in Int /\ Min({x, y}) \in {x, y} /\ Min({x, y}) <= x /\ Min({x, y}) <= y
  <1>1. \E z \in {x, y} : \A w \in {x, y} : z <= w
    <2>1. CASE x <= y
      BY <2>1
    <2>2. CASE ~(x <= y)
      BY <2>2
    <2>3. QED
      BY <2>1, <2>2
  <1>2. Min({x, y}) \in {x, y} /\ \A w \in {x, y} : Min({x, y}) <= w
    BY <1>1 DEF Min
  <1>3. QED
    BY <1>2

LEMMA DbInitially == ASSUME DbInit PROVE DbInv
  <1>1. DbShape
    <2>1. away \in [KeyFiles -> Int] /\ lockedBy \in Threads \cup {Blank}
      BY DEF DbInit, Missing
    <2>2. op \in [Threads -> SaveOps \cup UseOps \cup AnswerOps \cup {Unused}]
      BY DEF DbInit
    <2>3. dbSaves \in 0..MaxDbSaves /\ harm \in 0..MaxHarm
      BY DatabasesAssumption DEF DbInit
    <2>4. rows \in [DbIds -> Rows \cup {NoConnection}] /\ intended \in [DbIds -> Wishes \cup {NoConnection}]
      BY DEF DbInit
    <2>5. QED
      BY <2>1, <2>2, <2>3, <2>4, NoKeyFact DEF DbInit, DbShape
  <1>2. FilesFit
    BY NoKeyFact DEF DbInit, FilesFit, Missing, KeyFiles
  <1>3. ASSUME NEW i \in DbIds PROVE RowFits(i)
    BY <1>3 DEF DbInit, RowFits
  <1>4. ASSUME NEW t \in Threads PROVE OpFits(t, op[t]) /\ Making(t)
    BY <1>4, DatabasesAssumption DEF DbInit, OpFits, Making, Unused
  <1>5. QED
    BY <1>1, <1>2, <1>3, <1>4 DEF DbInv

-----------------------------------------------------------------------------

LEMMA PairFact == \A k, m \in KeyPairs : k.key = m.key /\ k.salt = m.salt => k = m
  BY DEF KeyPairs

\* Where the files can be used they are the first key, or the backup has its salt.
LEMMA UsableFact ==
    ASSUME DbShape, FilesFit, Usable(file), original # NoKey
    PROVE  file = original \/ (away["salt"] # Missing /\ CutSalt(file))
  <1>1. file \in KeyPairs /\ original \in KeyPairs /\ file.key \in Int /\ file.salt \in Int
    BY DEF DbShape, KeyPairs
  <1>2. file.key = original.key
    BY <1>1 DEF FilesFit, Usable, PartFits
  <1>3. CASE file.salt = original.salt
    BY <1>1, <1>2, <1>3, PairFact
  <1>4. CASE file.salt # original.salt
    BY <1>1, <1>4 DEF FilesFit, Usable, PartFits, CutSalt, Missing, Damaged
  <1>5. QED
    BY <1>3, <1>4

\* What fits goes on to fit when a key is made or taken into memory.
LEMMA FitsStill ==
    ASSUME NEW t, NEW r, OpFits(t, r), t = Main => rows' = rows,
           crypto = NoKey \/ crypto' = crypto, original = NoKey \/ original' = original,
           harm \in Nat, harm' \in Nat, harm' >= harm
    PROVE  OpFits(t, r)'
  BY DEF OpFits, SaveFits, UseFits, AnswerFits, KeyOf, CutSalt

LEMMA StageFact ==
    /\ \A r \in SaveOps, s \in LoaderStages \cup {"save"} :
         [r EXCEPT !.stage = s] \in SaveOps /\ [r EXCEPT !.stage = s].stage = s
    /\ \A r \in UseOps, s \in LoaderStages \cup {"decrypt", "connect"} :
         [r EXCEPT !.stage = s] \in UseOps /\ [r EXCEPT !.stage = s].stage = s
    /\ \A r \in AnswerOps : /\ [r EXCEPT !.stage = "done"] \in AnswerOps
                             /\ [r EXCEPT !.stage = "done"].what = r.what
                             /\ [r EXCEPT !.stage = "done"].got = r.got
                             /\ [r EXCEPT !.stage = "done"].size = r.size
                             /\ [r EXCEPT !.stage = "done"].truncated = r.truncated
    /\ \A r \in SaveOps : \A s : /\ [r EXCEPT !.stage = s].id = r.id
                              /\ [r EXCEPT !.stage = s].existing = r.existing
                              /\ [r EXCEPT !.stage = s].secret = r.secret
    /\ \A r \in UseOps : \A s : /\ [r EXCEPT !.stage = s].row = r.row
                             /\ [r EXCEPT !.stage = s].expected = r.expected
  BY DEF SaveOps, UseOps, AnswerOps, LoaderStages

\* A step of thread t in the loader.
LEMMA LoadFact ==
    ASSUME DbInv, NEW t \in Threads, NEW s \in LoaderStages \cup {op[t].next}, Load(t, s),
           op[t].stage \in LoaderStages \ {"refused"}, UNCHANGED rows,
           crypto = NoKey \/ crypto' = crypto, original = NoKey \/ original' = original,
           UNCHANGED harm, s = "refused" => harm > 0, s \notin LoaderStages => crypto' # NoKey
    PROVE  /\ op' \in [Threads -> SaveOps \cup UseOps \cup AnswerOps \cup {Unused}]
           /\ OpFits(t, op[t])' /\ op'[t].stage = s
           /\ \A x \in Threads \ {t} : OpFits(x, op[x])' /\ op'[x] = op[x]
  <1> DEFINE r == op[t]
             n == [r EXCEPT !.stage = s]
  <1>1. op \in [Threads -> SaveOps \cup UseOps \cup AnswerOps \cup {Unused}] /\ harm \in Nat
    BY DatabasesAssumption DEF DbInv, DbShape
  <1>2. op' = [op EXCEPT ![t] = n]
    BY DEF Load
  <1>3. OpFits(t, r) /\ r.stage \in LoaderStages \ {"refused"}
    BY DEF DbInv
  <1>4. ASSUME NEW x \in Threads \ {t} PROVE OpFits(x, op[x])' /\ op'[x] = op[x]
    <2>1. op'[x] = op[x]
      BY <1>1, <1>2
    <2>2. SUFFICES ASSUME NEW o, o = op[x] PROVE OpFits(x, o)'
      BY <2>1
    <2>3. OpFits(x, o)
      BY <2>2 DEF DbInv
    <2>4. QED
      BY <1>1, <2>3, FitsStill
  <1>5. CASE t = Main
    <2>1. SaveFits(r)
      BY <1>3, <1>5 DEF OpFits, Unused, LoaderStages
    <2>2. r \in SaveOps /\ s \in LoaderStages \cup {"save"}
      BY <2>1 DEF SaveFits, SaveOps
    <2>3. n \in SaveOps /\ n.stage = s /\ n.id = r.id /\ n.existing = r.existing /\ n.secret = r.secret
      BY <2>2, StageFact
    <2> HIDE DEF n
    <2>4. op'[t] = n
      BY <1>1, <1>2
    <2>5. SaveFits(op[t])'
      BY <2>1, <2>3, <2>4 DEF SaveFits, LoaderStages
    <2>6. QED
      BY <1>1, <1>2, <1>4, <1>5, <2>3, <2>4, <2>5 DEF OpFits
  <1>6. CASE t # Main
    <2>1. UseFits(r)
      BY <1>3, <1>6 DEF OpFits, Unused, AnswerFits, AnswerOps, LoaderStages
    <2>2. r \in UseOps /\ s \in LoaderStages \cup {"decrypt"}
      BY <2>1 DEF UseFits, UseOps
    <2>3. n \in UseOps /\ n.stage = s /\ n.row = r.row /\ n.expected = r.expected
      BY <2>2, StageFact
    <2>4. r.row.text # Blank
      BY <1>3, <2>1 DEF UseFits, LoaderStages
    <2> HIDE DEF n
    <2>5. op'[t] = n
      BY <1>1, <1>2
    <2>6. UseFits(op[t])'
      BY <2>1, <2>3, <2>4, <2>5 DEF UseFits, LoaderStages, KeyOf, CutSalt
    <2>7. QED
      BY <1>1, <1>2, <1>4, <1>6, <2>3, <2>5, <2>6 DEF OpFits
  <1>7. QED
    BY <1>5, <1>6

\* What a step of the loader keeps, which changes only what t is at, the lock and the key.
LEMMA LoaderKeeps ==
    ASSUME DbInv, NEW t \in Threads, NEW s \in LoaderStages \cup {op[t].next}, Load(t, s),
           op[t].stage \in LoaderStages \ {"refused"}, UNCHANGED <<rows, intended, harm, dbSaves, away>>,
           crypto = NoKey \/ crypto' = crypto, original = NoKey \/ original' = original,
           s = "refused" => harm > 0, s \notin LoaderStages => crypto' # NoKey,
           file' \in KeyPairs, crypto' \in KeyPairs, original' \in KeyPairs, FilesFit',
           lockedBy \in {t, Blank},
           IF s \in {"read", "newkey", "newsalt"} THEN lockedBy' = t ELSE lockedBy' = Blank,
           s = "newkey" => original' = NoKey /\ file' = NoKey,
           s = "newsalt" => original' = NoKey /\ file'.key > 0 /\ file'.salt = Missing
    PROVE  DbInv'
  <1>1. /\ op' \in [Threads -> SaveOps \cup UseOps \cup AnswerOps \cup {Unused}]
        /\ OpFits(t, op[t])' /\ op'[t].stage = s
        /\ \A x \in Threads \ {t} : OpFits(x, op[x])' /\ op'[x] = op[x]
    BY LoadFact
  <1>2. DbShape'
    BY <1>1 DEF DbInv, DbShape
  <1>3. ASSUME NEW i \in DbIds PROVE RowFits(i)'
    BY DEF DbInv, RowFits, KeyOf, CutSalt
  <1>4. t # Blank /\ \A x \in Threads : x # Blank
    BY DatabasesAssumption
  <1>5. Making(t)'
    BY <1>1, <1>4 DEF Making
  <1>6. ASSUME NEW x \in Threads \ {t} PROVE Making(x)'
    <2>1. Making(x) /\ lockedBy # x /\ lockedBy' # x
      BY <1>4, <1>6 DEF DbInv
    <2>2. op'[x] = op[x]
      BY <1>1
    <2>3. QED
      BY <2>1, <2>2 DEF Making
  <1>7. QED
    BY <1>1, <1>2, <1>3, <1>5, <1>6 DEF DbInv

LEMMA LoaderStep ==
    ASSUME DbInv, NEW t \in Threads, LockKeys(t) \/ ReadKeys(t) \/ WriteKey(t) \/ WriteSalt(t)
    PROVE  DbInv'
  <1>1. /\ DbShape /\ FilesFit /\ Making(t) /\ lockedBy \in Threads \cup {Blank}
        /\ op[t] \in SaveOps \cup UseOps \cup AnswerOps \cup {Unused}
        /\ file \in KeyPairs /\ file.key \in Int /\ file.salt \in Int /\ t # Blank
    BY DatabasesAssumption DEF DbInv, DbShape, KeyPairs
  <1>2. CASE LockKeys(t)
    <2>1. /\ op[t].stage = "lock" /\ lockedBy = Blank /\ lockedBy' = t /\ Load(t, "read")
          /\ UNCHANGED <<rows, file, away, original, crypto, intended, dbSaves, harm>>
      BY <1>2 DEF LockKeys, keyFileVars
    <2>2. \A x \in Threads : op[x].stage # "newsalt"
      BY <2>1, DatabasesAssumption DEF DbInv, Making
    <2>3. FilesFit'
      BY <1>1, <2>1, <2>2 DEF FilesFit, PartFits, Usable, KeyOf, CutSalt
    <2>4. QED
      BY <1>1, <2>1, <2>3, LoaderKeeps DEF DbShape, LoaderStages
  <1>3. CASE ReadKeys(t)
    <2>1. /\ op[t].stage = "read" /\ lockedBy = t
          /\ UNCHANGED <<rows, away, intended, dbSaves, harm>>
      BY <1>1, <1>3 DEF ReadKeys, Making
    <2>2. \A x \in Threads : op[x].stage # "newsalt"
      BY <2>1 DEF DbInv, Making
    <2>3. CASE Usable(file) /\ Loaded(t, file) /\ UNCHANGED file
      <3>1. /\ lockedBy' = Blank /\ Load(t, op[t].next)
            /\ crypto' = (IF crypto = NoKey THEN file ELSE crypto)
            /\ original' = (IF original = NoKey THEN file ELSE original)
        BY <2>3 DEF Loaded
      <3>2. file # NoKey /\ original' # NoKey /\ crypto' # NoKey
        BY <1>1, <2>3, <3>1, NoKeyFact DEF Usable, Missing
      <3>3. FilesFit'
        <4>1. CASE original # NoKey
          <5>1. original' = original /\ (file = original \/ CutSalt(file))
            BY <1>1, <2>3, <3>1, <4>1, UsableFact
          <5>2. KeyOf(crypto)'
            BY <1>1, <2>1, <3>1, <4>1, <5>1, DatabasesAssumption DEF FilesFit, KeyOf, CutSalt, DbShape
          <5>3. QED
            BY <1>1, <2>1, <2>3, <3>2, <4>1, <5>1, <5>2 DEF FilesFit, PartFits, Usable
        <4>2. CASE original = NoKey
          <5>1. original' = file /\ crypto' = file
            BY <1>1, <3>1, <4>2 DEF FilesFit
          <5>2. away["key"] = Missing /\ away["salt"] = Missing
            BY <1>1, <4>2 DEF FilesFit
          <5>3. QED
            BY <2>1, <2>3, <3>2, <5>1, <5>2 DEF FilesFit, PartFits, Usable, KeyOf
        <4>3. QED
          BY <4>1, <4>2
      <3>4. op[t].next \notin LoaderStages
        BY <1>1, <2>1 DEF SaveOps, UseOps, AnswerOps, Unused, LoaderStages
      <3>5. QED
        BY <1>1, <2>1, <2>3, <3>1, <3>2, <3>3, <3>4, LoaderKeeps DEF DbShape, LoaderStages
    <2>4. CASE file = NoKey /\ Load(t, "newkey") /\ UNCHANGED <<lockedBy, crypto, file, original>>
      <3>1. original = NoKey
        BY <1>1, <2>4, NoKeyFact DEF FilesFit, Usable, PartFits, Missing, DbShape, KeyPairs
      <3>2. FilesFit'
        BY <1>1, <2>1, <2>4, <3>1 DEF FilesFit, KeyOf, CutSalt
      <3>3. QED
        BY <1>1, <2>1, <2>4, <3>1, <3>2, LoaderKeeps DEF DbShape, LoaderStages
    <2>5. CASE ~Usable(file) /\ file # NoKey /\ Refuse(t)
      <3>1. UNCHANGED <<file, away, original, crypto>> /\ lockedBy' = Blank /\ Load(t, "refused")
        BY <2>5 DEF Refuse, keyFileVars
      <3>2. harm > 0
        BY <1>1, <2>2, <2>5, DatabasesAssumption DEF FilesFit, Usable, DbShape
      <3>3. FilesFit'
        BY <1>1, <2>1, <3>1, <3>2 DEF FilesFit, PartFits, Usable, KeyOf, CutSalt
      <3>4. QED
        BY <1>1, <2>1, <3>1, <3>2, <3>3, LoaderKeeps DEF DbShape, LoaderStages
    <2>6. QED
      BY <1>3, <2>3, <2>4, <2>5 DEF ReadKeys
  <1>4. CASE WriteKey(t)
    <2>1. /\ op[t].stage = "newkey" /\ lockedBy = t /\ original = NoKey /\ file = NoKey
          /\ UNCHANGED <<rows, intended, dbSaves, harm>>
      BY <1>1, <1>4 DEF WriteKey, Making
    <2>2. away["key"] = 0 /\ away["salt"] = 0 /\ original.key = 0 /\ file.key = 0
      BY <1>1, <2>1, NoKeyFact DEF FilesFit, Missing
    <2>3. 1 + Max({original.key, away.key, 0}) = 1
      <3>1. {original.key, away.key, 0} = {0}
        BY <2>2
      <3>2. Max({0}) = 0
        BY DEF Max
      <3>3. QED
        BY <3>1, <3>2
    <2>4. /\ file' = [file EXCEPT !.key = 1] /\ Load(t, "newsalt")
          /\ UNCHANGED <<lockedBy, crypto, original, away>>
      BY <1>4, <2>2, <2>3 DEF WriteKey, Missing
    <2>5. file' \in KeyPairs /\ file'.key = 1 /\ file'.salt = 0
      BY <1>1, <2>1, <2>4, NoKeyFact DEF KeyPairs
    <2>6. op'[t].stage = "newsalt"
      BY <1>1, <2>1, <2>4 DEF Load, DbShape, SaveOps, UseOps, AnswerOps, Unused
    <2>7. FilesFit'
      BY <1>1, <2>1, <2>4, <2>5, <2>6 DEF FilesFit, KeyOf, CutSalt
    <2>8. QED
      BY <1>1, <2>1, <2>4, <2>5, <2>7, LoaderKeeps DEF DbShape, LoaderStages, Missing
  <1>5. CASE WriteSalt(t)
    <2> DEFINE f == [file EXCEPT !.salt = file.key]
    <2>1. /\ op[t].stage = "newsalt" /\ lockedBy = t /\ original = NoKey /\ file.key > 0
          /\ file.salt = Missing /\ UNCHANGED <<rows, intended, dbSaves, harm>>
      BY <1>1, <1>5 DEF WriteSalt, Making
    <2>2. f \in KeyPairs /\ f.key = file.key /\ f.salt = file.key
      BY <1>1 DEF KeyPairs
    <2>3. crypto = NoKey
      BY <1>1, <2>1 DEF FilesFit
    <2>4. file' = f /\ Loaded(t, f) /\ UNCHANGED away
      BY <1>5, <2>1 DEF WriteSalt
    <2> HIDE DEF f
    <2>5. crypto' = f /\ original' = f /\ lockedBy' = Blank /\ Load(t, op[t].next)
      BY <2>1, <2>3, <2>4 DEF Loaded
    <2>6. f # NoKey /\ away["key"] = Missing /\ away["salt"] = Missing
      BY <1>1, <2>1, <2>2, NoKeyFact DEF FilesFit
    <2>7. FilesFit'
      BY <1>1, <2>1, <2>2, <2>4, <2>5, <2>6 DEF FilesFit, PartFits, Usable, KeyOf, CutSalt, Missing, Damaged
    <2>8. op[t].next \notin LoaderStages
      BY <1>1, <2>1 DEF SaveOps, UseOps, AnswerOps, Unused, LoaderStages
    <2>9. QED
      BY <1>1, <2>1, <2>2, <2>3, <2>4, <2>5, <2>6, <2>7, <2>8, LoaderKeeps DEF LoaderStages
  <1>6. QED
    BY <1>2, <1>3, <1>4, <1>5

-----------------------------------------------------------------------------

Outside == {"idle", "lock", "save", "decrypt", "connect", "refused", "touch", "done"}

\* What is left of the loader's lock when t is outside it and stays there.
LEMMA MakingStill ==
    ASSUME DbInv, NEW t \in Threads, op[t].stage \in Outside, op'[t].stage \in Outside,
           \A x \in Threads \ {t} : op'[x] = op[x], UNCHANGED <<lockedBy, file, original, away, crypto, harm>>
    PROVE  (\A x \in Threads : Making(x)') /\ FilesFit'
  <1>1. ASSUME NEW x \in Threads PROVE Making(x)'
    BY <1>1 DEF DbInv, Making, Outside
  <1>2. \A x \in Threads : op[x].stage = "newsalt" => op'[x].stage = "newsalt"
    BY DEF Outside
  <1>3. FilesFit'
    BY <1>2 DEF DbInv, FilesFit, PartFits, Usable, KeyOf, CutSalt
  <1>4. QED
    BY <1>1, <1>3

\* A step that changes only what thread t is at, outside the loader.
LEMMA OpStep ==
    ASSUME DbInv, NEW t \in Threads, NEW r, op' = [op EXCEPT ![t] = r], OpFits(t, r),
           r \in SaveOps \cup UseOps \cup AnswerOps \cup {Unused},
           op[t].stage \in Outside, r.stage \in Outside,
           UNCHANGED <<rows, file, away, lockedBy, crypto, original, intended, harm>>,
           dbSaves' \in 0..MaxDbSaves
    PROVE  DbInv'
  <1>1. op \in [Threads -> SaveOps \cup UseOps \cup AnswerOps \cup {Unused}] /\ harm \in Nat
    BY DatabasesAssumption DEF DbInv, DbShape
  <1>2. op'[t] = r /\ \A x \in Threads \ {t} : op'[x] = op[x]
    BY <1>1
  <1>3. op' \in [Threads -> SaveOps \cup UseOps \cup AnswerOps \cup {Unused}]
    BY <1>1
  <1>4. DbShape'
    BY <1>3 DEF DbInv, DbShape
  <1>5. ASSUME NEW x \in Threads PROVE OpFits(x, op[x])'
    <2>1. SUFFICES ASSUME NEW o, o = op'[x] PROVE OpFits(x, o)'
      OBVIOUS
    <2>2. OpFits(x, o)
      BY <1>2, <2>1 DEF DbInv
    <2>3. QED
      BY <1>1, <2>2, FitsStill
  <1>6. ASSUME NEW i \in DbIds PROVE RowFits(i)'
    BY DEF DbInv, RowFits, KeyOf, CutSalt
  <1>7. (\A x \in Threads : Making(x)') /\ FilesFit'
    BY <1>2, MakingStill
  <1>8. QED
    BY <1>4, <1>5, <1>6, <1>7 DEF DbInv

LEMMA MainFact == Main \in Threads /\ \A t \in Tasks : t # Main /\ t \in Threads
  BY DatabasesAssumption DEF Threads

LEMMA StartSaveStep ==
    ASSUME DbInv, NEW id \in DbIds, NEW host \in Hosts, NEW secret \in Secrets \cup {Blank},
           StartSave(id, host, secret)
    PROVE  DbInv'
  <1> DEFINE i == IF rows[id] # NoConnection THEN id ELSE CHOOSE k \in DbIds : rows[k] = NoConnection
             stage == IF secret = Blank THEN "save" ELSE WithKey("save")
             r == [stage |-> stage, next |-> "save", id |-> i, host |-> host, secret |-> secret,
                   existing |-> rows[i]]
  <1>1. i \in DbIds
    <2>1. CASE rows[id] # NoConnection
      BY <2>1
    <2>2. CASE rows[id] = NoConnection
      <3>1. \E k \in DbIds : rows[k] = NoConnection
        BY <2>2
      <3>2. (CHOOSE k \in DbIds : rows[k] = NoConnection) \in DbIds
        BY <3>1
      <3>3. QED
        BY <2>2, <3>2
    <2>3. QED
      BY <2>1, <2>2
  <1>2. op' = [op EXCEPT ![Main] = r]
    BY DEF StartSave
  <1>3. /\ UNCHANGED <<rows, file, away, lockedBy, crypto, original, intended, harm>>
        /\ op[Main] = Unused /\ dbSaves' \in 0..MaxDbSaves
    BY DatabasesAssumption DEF StartSave, keyFileVars, DbInv, DbShape
  <1>4. stage \in {"save", "lock"} /\ (stage = "save" /\ secret # Blank => crypto # NoKey)
    BY DEF WithKey
  <1> HIDE DEF i, stage
  <1>5. rows[i] \in Rows \cup {NoConnection}
    BY <1>1 DEF DbInv, DbShape
  <1>6. r \in SaveOps /\ r.id = i /\ r.existing = rows[i] /\ r.stage = stage /\ r.secret = secret
    BY <1>1, <1>4, <1>5 DEF SaveOps, LoaderStages
  <1> HIDE DEF r
  <1>7. OpFits(Main, r)
    BY <1>4, <1>6 DEF OpFits, SaveFits
  <1>8. op[Main].stage \in Outside /\ r.stage \in Outside
    BY <1>3, <1>4, <1>6 DEF Outside, Unused
  <1>9. QED
    BY <1>2, <1>3, <1>6, <1>7, <1>8, OpStep, MainFact

\* The row changes under a save that is ready, or that nobody makes.
LEMMA RowStep ==
    ASSUME DbInv, NEW i \in DbIds, NEW row, NEW wish, op[Main].stage \in Outside,
           rows' = [rows EXCEPT ![i] = row], intended' = [intended EXCEPT ![i] = wish],
           op' = [op EXCEPT ![Main] = Unused],
           UNCHANGED <<file, away, original, lockedBy, crypto, dbSaves, harm>>,
           \/ row = NoConnection /\ wish = NoConnection
           \/ /\ row \in Rows /\ wish \in Wishes /\ row.host = wish.host /\ row.text = wish.secret
              /\ row.text # Blank => KeyOf(row.under) /\ original # NoKey
    PROVE  DbInv'
  <1>1. /\ op \in [Threads -> SaveOps \cup UseOps \cup AnswerOps \cup {Unused}] /\ harm \in Nat
        /\ rows \in [DbIds -> Rows \cup {NoConnection}] /\ intended \in [DbIds -> Wishes \cup {NoConnection}]
    BY DatabasesAssumption DEF DbInv, DbShape
  <1>2. op'[Main] = Unused /\ \A x \in Threads \ {Main} : op'[x] = op[x]
    BY <1>1, MainFact
  <1>3. /\ op' \in [Threads -> SaveOps \cup UseOps \cup AnswerOps \cup {Unused}]
        /\ rows' \in [DbIds -> Rows \cup {NoConnection}] /\ intended' \in [DbIds -> Wishes \cup {NoConnection}]
    BY <1>1
  <1>4. DbShape'
    BY <1>3 DEF DbInv, DbShape
  <1>5. ASSUME NEW x \in Threads PROVE OpFits(x, op[x])'
    <2>1. CASE x = Main
      BY <1>2, <2>1 DEF OpFits
    <2>2. CASE x # Main
      <3>1. SUFFICES ASSUME NEW o, o = op'[x] PROVE OpFits(x, o)'
        OBVIOUS
      <3>2. OpFits(x, o)
        BY <1>2, <2>2, <3>1 DEF DbInv
      <3>3. QED
        BY <1>1, <2>2, <3>2, FitsStill
    <2>3. QED
      BY <2>1, <2>2
  <1>6. ASSUME NEW j \in DbIds PROVE RowFits(j)'
    <2>1. CASE j = i
      BY <1>1, <2>1 DEF RowFits, KeyOf, CutSalt
    <2>2. CASE j # i
      <3>1. RowFits(j) /\ rows'[j] = rows[j] /\ intended'[j] = intended[j]
        BY <1>1, <2>2 DEF DbInv
      <3>2. QED
        BY <3>1 DEF RowFits, KeyOf, CutSalt
    <2>3. QED
      BY <2>1, <2>2
  <1>7. (\A x \in Threads : Making(x)') /\ FilesFit'
    <2>1. op'[Main].stage \in Outside
      BY <1>2 DEF Outside, Unused
    <2>2. QED
      BY <1>2, <2>1, MakingStill, MainFact
  <1>8. QED
    BY <1>4, <1>5, <1>6, <1>7 DEF DbInv

LEMMA MainKeeps ==
    ASSUME DbInv, FinishDbSave \/ \E id \in DbIds : DeleteConnection(id) PROVE DbInv'
  <1>1. ASSUME NEW id \in DbIds, DeleteConnection(id) PROVE DbInv'
    <2>1. /\ rows' = [rows EXCEPT ![id] = NoConnection] /\ intended' = [intended EXCEPT ![id] = NoConnection]
          /\ op[Main] = Unused /\ UNCHANGED <<file, away, original, lockedBy, crypto, op, dbSaves, harm>>
      BY <1>1 DEF DeleteConnection, keyFileVars
    <2>2. op' = [op EXCEPT ![Main] = Unused]
      BY <2>1, MainFact DEF DbInv, DbShape
    <2>3. op[Main].stage \in Outside
      BY <2>1 DEF Outside, Unused
    <2>4. QED
      BY <2>1, <2>2, <2>3, RowStep
  <1>2. CASE FinishDbSave
    <2> DEFINE o == op[Main]
               kept == o.existing # NoConnection /\ o.secret = Blank
               i == o.id
               row == Upserted(o)
               wish == [host |-> o.host, secret |-> IF kept THEN intended[o.id].secret ELSE o.secret]
    <2>1. /\ o.stage = "save" /\ rows' = [rows EXCEPT ![i] = row]
          /\ intended' = [intended EXCEPT ![i] = wish]
          /\ op' = [op EXCEPT ![Main] = Unused] /\ op[Main].stage \in Outside
          /\ UNCHANGED <<file, away, original, lockedBy, crypto, dbSaves, harm>>
      BY <1>2 DEF FinishDbSave, keyFileVars, Outside
    <2>2. SaveFits(o)
      BY <2>1, MainFact DEF DbInv, OpFits, Unused
    <2>3. i \in DbIds /\ o.host \in Hosts /\ o.secret \in Secrets \cup {Blank} /\ rows[i] = o.existing
      BY <2>2 DEF SaveFits, SaveOps
    <2>4. /\ crypto \in KeyPairs /\ original \in KeyPairs /\ RowFits(i)
          /\ crypto # NoKey => KeyOf(crypto) /\ original # NoKey
      BY <2>3 DEF DbInv, DbShape, FilesFit
    <2>5. CASE kept
      <3>1. /\ o.existing \in Rows /\ intended[i] \in Wishes /\ o.existing.text = intended[i].secret
            /\ o.existing.text # Blank => KeyOf(o.existing.under) /\ original # NoKey
        BY <2>3, <2>4, <2>5 DEF RowFits
      <3>2. o.existing.text \in Secrets \cup {Blank} /\ o.existing.under \in KeyPairs
        BY <3>1 DEF Rows
      <3>3. row = [host |-> o.host, text |-> o.existing.text, under |-> o.existing.under]
        BY <2>5 DEF Upserted
      <3>4. wish = [host |-> o.host, secret |-> o.existing.text]
        BY <2>5, <3>1
      <3>5. row \in Rows /\ wish \in Wishes
        BY <2>3, <3>2, <3>3, <3>4 DEF Rows, Wishes
      <3>6. /\ row.host = wish.host /\ row.text = wish.secret
            /\ row.text # Blank => KeyOf(row.under) /\ original # NoKey
        BY <3>1, <3>3, <3>4
      <3> HIDE DEF i, row, wish
      <3>7. QED
        BY <2>1, <2>3, <3>5, <3>6, RowStep
    <2>6. CASE ~kept
      <3> DEFINE under == IF o.secret = Blank THEN NoKey ELSE crypto
      <3>1. row = [host |-> o.host, text |-> o.secret, under |-> under]
        BY <2>6 DEF Upserted
      <3>2. wish = [host |-> o.host, secret |-> o.secret]
        BY <2>6
      <3>3. under \in KeyPairs /\ (o.secret # Blank => KeyOf(under) /\ original # NoKey)
        BY <2>1, <2>2, <2>4, NoKeyFact DEF SaveFits
      <3> HIDE DEF under
      <3>4. row \in Rows /\ wish \in Wishes
        BY <2>3, <3>1, <3>2, <3>3 DEF Rows, Wishes
      <3>5. /\ row.host = wish.host /\ row.text = wish.secret
            /\ row.text # Blank => KeyOf(row.under) /\ original # NoKey
        BY <3>1, <3>2, <3>3
      <3> HIDE DEF i, row, wish
      <3>6. QED
        BY <2>1, <2>3, <3>4, <3>5, RowStep
    <2>7. QED
      BY <2>5, <2>6
  <1>3. QED
    BY <1>1, <1>2

LEMMA StartUseStep ==
    ASSUME DbInv, NEW t \in Tasks, NEW id \in DbIds, NEW what \in {"list", "query"}, NEW limit \in Int,
           StartUse(t, id, what, limit)
    PROVE  DbInv'
  <1> DEFINE stage == IF rows[id].text = Blank THEN "connect" ELSE WithKey("decrypt")
             most == Clamped(limit)
             r == [stage |-> stage, next |-> "decrypt", id |-> id, what |-> what, row |-> rows[id],
                   limit |-> most, expected |-> intended[id]]
  <1>1. op' = [op EXCEPT ![t] = r]
    BY DEF StartUse
  <1>2. /\ UNCHANGED <<rows, file, away, lockedBy, crypto, original, intended, harm>>
        /\ op[t] = Unused /\ dbSaves' \in 0..MaxDbSaves /\ rows[id] # NoConnection
    BY DEF StartUse, keyFileVars, DbInv, DbShape
  <1>3. /\ rows[id] \in Rows /\ intended[id] \in Wishes
        /\ rows[id].host = intended[id].host /\ rows[id].text = intended[id].secret
        /\ rows[id].text # Blank => KeyOf(rows[id].under) /\ original # NoKey
    BY <1>2 DEF DbInv, RowFits
  <1>4. /\ stage \in {"connect", "decrypt", "lock"} /\ (stage # "connect" => rows[id].text # Blank)
        /\ stage = "decrypt" => crypto # NoKey
    BY DEF WithKey
  <1>5. most \in Int
    <2>1. HardMaxRows \in Int
      BY DatabasesAssumption
    <2>2. QED
      BY <2>1, MinFact DEF Clamped
  <1> HIDE DEF stage, most
  <1>6. r \in UseOps /\ r.row = rows[id] /\ r.expected = intended[id] /\ r.stage = stage
    BY <1>3, <1>4, <1>5 DEF UseOps, LoaderStages
  <1> HIDE DEF r
  <1>7. OpFits(t, r)
    BY <1>3, <1>4, <1>6, MainFact DEF OpFits, UseFits
  <1>8. op[t].stage \in Outside /\ r.stage \in Outside
    BY <1>2, <1>4, <1>6 DEF Outside, Unused
  <1>9. QED
    BY <1>1, <1>2, <1>6, <1>7, <1>8, OpStep, MainFact

LEMMA AnsweredStep ==
    ASSUME DbInv, NEW t \in Tasks, NEW size \in Tables, Answered(t, size) PROVE DbInv'
  <1> DEFINE got == Taken(size, op[t].limit)
             query == op[t].what = "query"
             stage == IF query THEN "touch" ELSE "done"
             cut == query /\ Cut(got, op[t].limit)
             r == [stage |-> stage, what |-> op[t].what, id |-> op[t].id, row |-> op[t].row, size |-> size,
                   got |-> got, truncated |-> cut]
  <1>1. op' = [op EXCEPT ![t] = r] /\ op[t].stage = "connect"
    BY DEF Answered
  <1>2. /\ UNCHANGED <<rows, file, away, lockedBy, crypto, original, intended, harm>>
        /\ dbSaves' \in 0..MaxDbSaves
    BY DEF Answered, keyFileVars, DbInv, DbShape
  <1>3. UseFits(op[t])
    BY <1>1, MainFact DEF DbInv, OpFits, Unused, AnswerFits, AnswerOps
  <1>4. op[t].what \in {"list", "query"} /\ op[t].id \in DbIds /\ op[t].row \in Rows /\ op[t].limit \in Int /\ size \in Int
    BY <1>3, DatabasesAssumption DEF UseFits, UseOps
  <1>5. got \in Int /\ (got < size => got = op[t].limit)
    <2>1. SUFFICES ASSUME NEW limit \in Int, limit = op[t].limit
                   PROVE  got \in Int /\ (got < size => got = limit)
      BY <1>4
    <2>2. got = Min({size, limit})
      BY <2>1 DEF Taken
    <2> HIDE DEF got
    <2>3. size \in Int /\ limit \in Int
      BY <1>4, <2>1
    <2>4. Min({size, limit}) \in Int /\ Min({size, limit}) \in {size, limit}
      BY <2>3, MinFact
    <2>5. QED
      BY <2>2, <2>3, <2>4
  <1>6. cut \in BOOLEAN /\ (query /\ got < size => cut)
    BY <1>4, <1>5 DEF Cut
  <1>7. stage \in {"touch", "done"}
    OBVIOUS
  <1> HIDE DEF got, stage, cut
  <1>8. /\ r \in AnswerOps /\ r.stage = stage /\ r.got = got /\ r.size = size
        /\ r.truncated = cut /\ r.what = op[t].what
    BY <1>4, <1>5, <1>6, <1>7 DEF AnswerOps
  <1> HIDE DEF r
  <1>9. OpFits(t, r)
    BY <1>6, <1>8, MainFact DEF OpFits, AnswerFits
  <1>10. op[t].stage \in Outside /\ r.stage \in Outside
    BY <1>1, <1>7, <1>8 DEF Outside
  <1>11. QED
    BY <1>1, <1>2, <1>8, <1>9, <1>10, OpStep, MainFact

LEMMA TaskKeeps ==
    ASSUME DbInv, NEW t \in Tasks, Decrypt(t) \/ NotAnswered(t) \/ Touch(t) PROVE DbInv'
  <1>1. /\ op \in [Threads -> SaveOps \cup UseOps \cup AnswerOps \cup {Unused}]
        /\ rows \in [DbIds -> Rows \cup {NoConnection}] /\ dbSaves \in 0..MaxDbSaves
        /\ t \in Threads /\ t # Main /\ OpFits(t, op[t])
    BY MainFact DEF DbInv, DbShape
  <1>2. CASE Decrypt(t)
    <2>1. /\ op[t].stage = "decrypt" /\ Load(t, IF op[t].row.under = crypto THEN "connect" ELSE "refused")
          /\ UNCHANGED <<rows, file, away, lockedBy, crypto, original, intended, dbSaves, harm>>
      BY <1>2 DEF Decrypt, keyFileVars
    <2>2. UseFits(op[t])
      BY <1>1, <2>1 DEF OpFits, Unused, AnswerFits, AnswerOps
    <2> DEFINE s == IF op[t].row.under = crypto THEN "connect" ELSE "refused"
               r == [op[t] EXCEPT !.stage = s]
    <2>3. s = "refused" => harm > 0
      BY <2>1, <2>2 DEF UseFits, DbInv, FilesFit, KeyOf
    <2>4. op' = [op EXCEPT ![t] = r]
      BY <2>1 DEF Load
    <2>9. s \in {"connect", "refused"}
      OBVIOUS
    <2> HIDE DEF s
    <2>5. r \in UseOps /\ r.stage = s /\ r.row = op[t].row /\ r.expected = op[t].expected
      BY <2>2, <2>9, StageFact DEF UseFits, LoaderStages
    <2> HIDE DEF r
    <2>6. OpFits(t, r)
      BY <1>1, <2>1, <2>2, <2>3, <2>5, <2>9 DEF OpFits, UseFits
    <2>7. op[t].stage \in Outside /\ r.stage \in Outside
      BY <2>1, <2>5, <2>9 DEF Outside
    <2>8. QED
      BY <1>1, <2>1, <2>4, <2>5, <2>6, <2>7, OpStep
  <1>3. CASE NotAnswered(t)
    <2>1. OpFits(t, Unused) /\ op[t].stage \in Outside /\ Unused.stage \in Outside
      BY <1>3 DEF OpFits, NotAnswered, Outside, Unused
    <2>2. QED
      BY <1>1, <1>3, <2>1, OpStep DEF NotAnswered, keyFileVars
  <1>4. CASE Touch(t)
    <2>1. AnswerFits(op[t]) /\ op[t].stage = "touch"
      BY <1>1, <1>4 DEF Touch, OpFits, Unused, UseFits, UseOps, LoaderStages
    <2> DEFINE r == [op[t] EXCEPT !.stage = "done"]
    <2>2. op' = [op EXCEPT ![t] = r]
      BY <1>4 DEF Touch, Load
    <2>3. rows' = rows
      BY <1>1, <1>4 DEF Touch, Touched
    <2>4. r \in AnswerOps /\ r.stage = "done" /\ r.got = op[t].got /\ r.size = op[t].size
          /\ r.truncated = op[t].truncated /\ r.what = op[t].what
      BY <2>1, StageFact DEF AnswerFits, AnswerOps
    <2> HIDE DEF r
    <2>5. OpFits(t, r)
      BY <1>1, <2>1, <2>4 DEF OpFits, AnswerFits
    <2>6. op[t].stage \in Outside /\ r.stage \in Outside
      BY <2>1, <2>4 DEF Outside
    <2>7. UNCHANGED <<file, away, lockedBy, crypto, original, intended, dbSaves, harm>>
      BY <1>4 DEF Touch, keyFileVars
    <2>8. QED
      BY <1>1, <2>2, <2>3, <2>4, <2>5, <2>6, <2>7, OpStep
  <1>5. QED
    BY <1>2, <1>3, <1>4

LEMMA AnswerReturns == ASSUME DbInv, NEW t \in Threads, Return(t) PROVE DbInv'
  <1>1. OpFits(t, Unused) /\ op[t].stage \in Outside /\ Unused.stage \in Outside
    BY DEF OpFits, Return, Outside, Unused
  <1>2. dbSaves' \in 0..MaxDbSaves
    BY DEF Return, DbInv, DbShape
  <1>3. QED
    BY <1>1, <1>2, OpStep DEF Return, keyFileVars

-----------------------------------------------------------------------------

LEMMA HarmKeeps ==
    ASSUME DbInv, StopProcess \/ \E f \in KeyFiles : LoseFile(f) \/ RestoreFile(f) PROVE DbInv'
  <1>1. /\ DbShape /\ FilesFit /\ harm \in Nat /\ MaxHarm \in Nat
        /\ file \in KeyPairs /\ original \in KeyPairs /\ file.key \in Int /\ file.salt \in Int
        /\ away \in [KeyFiles -> Int] /\ "key" \in KeyFiles /\ "salt" \in KeyFiles
    BY DatabasesAssumption DEF DbInv, DbShape, KeyPairs, KeyFiles
  <1>2. CASE StopProcess
    <2>1. /\ harm' = harm + 1 /\ harm' \in 0..MaxHarm /\ op' = [t \in Threads |-> Unused]
          /\ lockedBy' = Blank /\ crypto' = NoKey /\ UNCHANGED <<rows, away, intended, original, dbSaves>>
      BY <1>1, <1>2 DEF StopProcess
    <2>2. \/ file' = file
          \/ original = NoKey /\ \E left \in {Missing, Damaged} : file' = [file EXCEPT !.key = left]
          \/ original = NoKey /\ \E left \in {Missing, Damaged, SaltLeft} : file' = [file EXCEPT !.salt = left]
      <3>1. CASE \E t \in Threads : op[t].stage = "newkey" /\ file.key = Missing
        BY <1>2, <3>1 DEF StopProcess, DbInv, Making
      <3>2. CASE \E t \in Threads : op[t].stage = "newsalt" /\ file.salt = Missing
        <4>1. original = NoKey
          BY <3>2 DEF DbInv, Making
        <4>2. ~ \E t \in Threads : op[t].stage = "newkey" /\ file.key = Missing
          BY <1>1, <3>2 DEF DbInv, Making, Missing
        <4>3. QED
          BY <1>2, <3>2, <4>1, <4>2 DEF StopProcess
      <3>3. CASE /\ ~ \E t \in Threads : op[t].stage = "newkey" /\ file.key = Missing
                 /\ ~ \E t \in Threads : op[t].stage = "newsalt" /\ file.salt = Missing
        BY <1>2, <3>3 DEF StopProcess
      <3>4. QED
        BY <3>1, <3>2, <3>3
    <2>3. SaltLeft \in Int /\ SaltLeft <= 0 /\ Missing \in Int /\ Damaged \in Int /\ Missing <= 0 /\ Damaged <= 0
      BY <1>1 DEF SaltLeft, Missing, Damaged
    <2>4. file' \in KeyPairs /\ (original = NoKey => file'.salt <= 0) /\ (original # NoKey => file' = file)
      <3>1. CASE file' = file
        BY <1>1, <3>1 DEF FilesFit
      <3>2. ASSUME NEW left \in Int, original = NoKey, file' = [file EXCEPT !.key = left]
            PROVE  file' \in KeyPairs /\ (original = NoKey => file'.salt <= 0) /\ (original # NoKey => file' = file)
        BY <1>1, <3>2 DEF KeyPairs, FilesFit
      <3>3. ASSUME NEW left \in Int, left <= 0, original = NoKey, file' = [file EXCEPT !.salt = left]
            PROVE  file' \in KeyPairs /\ (original = NoKey => file'.salt <= 0) /\ (original # NoKey => file' = file)
        BY <1>1, <3>3 DEF KeyPairs, FilesFit
      <3>4. QED
        BY <2>2, <2>3, <3>1, <3>2, <3>3
    <2>5. FilesFit'
      BY <1>1, <2>1, <2>4 DEF FilesFit, PartFits, Usable, KeyOf, CutSalt
    <2>6. DbShape'
      BY <2>1, <2>4, NoKeyFact DEF DbInv, DbShape
    <2>7. ASSUME NEW t \in Threads PROVE OpFits(t, op[t])' /\ Making(t)'
      BY <2>1, <2>7, DatabasesAssumption DEF OpFits, Making, Unused
    <2>8. ASSUME NEW i \in DbIds PROVE RowFits(i)'
      BY <1>1, <2>1 DEF DbInv, RowFits, KeyOf, CutSalt
    <2>9. QED
      BY <2>5, <2>6, <2>7, <2>8 DEF DbInv
  <1>3. ASSUME NEW f \in KeyFiles, LoseFile(f) \/ RestoreFile(f) PROVE DbInv'
    <2>1. /\ UNCHANGED <<rows, lockedBy, crypto, op, intended, original, dbSaves>>
          /\ harm' \in 0..MaxHarm /\ harm' >= harm
      BY <1>1, <1>3 DEF LoseFile, RestoreFile, DbShape
    <2>2. original # NoKey /\ file' \in KeyPairs /\ away' \in [KeyFiles -> Int] /\ FilesFit'
      <3>1. CASE LoseFile(f)
        <4>1. PICK left \in {Missing, Damaged} \cup (IF f = "salt" THEN {SaltLeft} ELSE {}) :
                file' = [file EXCEPT ![f] = left]
          BY <3>1 DEF LoseFile
        <4>2. /\ file = original /\ original # NoKey /\ away' = [away EXCEPT ![f] = file[f]] /\ harm' > 0
          BY <1>1, <3>1 DEF LoseFile
        <4>6. left \in Int /\ left <= 0
          BY <1>1 DEF SaltLeft, Missing, Damaged
        <4>7. away["key"] \in {Missing, file.key} /\ away["salt"] \in {Missing, file.salt} /\ Usable(original)
          BY <1>1, <4>2 DEF FilesFit, PartFits
        <4>3. CASE f = "key"
          <5>1. file' \in KeyPairs /\ file'.key = left /\ file'.salt = file.salt
            BY <1>1, <4>1, <4>3, <4>6 DEF KeyPairs
          <5>2. away' \in [KeyFiles -> Int] /\ away'["key"] = file.key /\ away'["salt"] = away["salt"]
            BY <1>1, <4>2, <4>3
          <5>3. crypto # NoKey => KeyOf(crypto)
            BY <1>1 DEF FilesFit
          <5>4. QED
            BY <1>1, <2>1, <4>2, <4>6, <4>7, <5>1, <5>2, <5>3 DEF FilesFit, PartFits, Usable, KeyOf, CutSalt
        <4>4. CASE f = "salt"
          <5>1. file' \in KeyPairs /\ file'.salt = left /\ file'.key = file.key
            BY <1>1, <4>1, <4>4, <4>6 DEF KeyPairs
          <5>2. away' \in [KeyFiles -> Int] /\ away'["salt"] = file.salt /\ away'["key"] = away["key"]
            BY <1>1, <4>2, <4>4
          <5>3. crypto # NoKey => KeyOf(crypto)
            BY <1>1 DEF FilesFit
          <5>4. QED
            BY <1>1, <2>1, <4>2, <4>6, <4>7, <5>1, <5>2, <5>3 DEF FilesFit, PartFits, Usable, KeyOf, CutSalt
        <4>5. QED
          BY <4>3, <4>4 DEF KeyFiles
      <3>2. CASE RestoreFile(f)
        <4>1. /\ away[f] # Missing /\ away' = [away EXCEPT ![f] = Missing]
              /\ file' = [file EXCEPT ![f] = away[f]] /\ harm' = harm
          BY <3>2 DEF RestoreFile
        <4>2. original # NoKey
          BY <1>1, <4>1 DEF FilesFit, KeyFiles
        <4>3. CASE f = "key"
          <5>1. away["key"] = original.key
            BY <1>1, <4>1, <4>2, <4>3 DEF FilesFit, PartFits
          <5>2. file' \in KeyPairs /\ file'.key = original.key /\ file'.salt = file.salt
            BY <1>1, <4>1, <4>3, <5>1 DEF KeyPairs
          <5>3. away' \in [KeyFiles -> Int] /\ away'["key"] = Missing /\ away'["salt"] = away["salt"]
            BY <1>1, <4>1, <4>3 DEF Missing
          <5>4. harm = 0 => file' = original
            BY <1>1, <4>2, <5>2, PairFact DEF FilesFit
          <5>5. QED
            BY <1>1, <2>1, <4>1, <4>2, <5>2, <5>3, <5>4 DEF FilesFit, PartFits, Usable, KeyOf, CutSalt
        <4>4. CASE f = "salt"
          <5>1. away["salt"] = original.salt
            BY <1>1, <4>1, <4>2, <4>4 DEF FilesFit, PartFits
          <5>2. file' \in KeyPairs /\ file'.salt = original.salt /\ file'.key = file.key
            BY <1>1, <4>1, <4>4, <5>1 DEF KeyPairs
          <5>3. away' \in [KeyFiles -> Int] /\ away'["salt"] = Missing /\ away'["key"] = away["key"]
            BY <1>1, <4>1, <4>4 DEF Missing
          <5>4. harm = 0 => file' = original
            BY <1>1, <4>2, <5>2, PairFact DEF FilesFit
          <5>5. QED
            BY <1>1, <2>1, <4>1, <4>2, <5>2, <5>3, <5>4 DEF FilesFit, PartFits, Usable, KeyOf, CutSalt
        <4>5. QED
          BY <4>3, <4>4 DEF KeyFiles
      <3>3. QED
        BY <1>3, <3>1, <3>2
    <2>3. DbShape'
      BY <1>1, <2>1, <2>2 DEF DbShape
    <2>4. ASSUME NEW t \in Threads PROVE OpFits(t, op[t])' /\ Making(t)'
      <3>1. OpFits(t, op[t])'
        <4>1. SUFFICES ASSUME NEW o, o = op'[t] PROVE OpFits(t, o)'
          OBVIOUS
        <4>2. OpFits(t, o)
          BY <2>1, <4>1 DEF DbInv
        <4>3. harm' \in Nat
          BY <1>1, <2>1
        <4>4. QED
          BY <1>1, <2>1, <4>2, <4>3, FitsStill
      <3>2. Making(t)'
        BY <2>1, <2>2 DEF DbInv, Making
      <3>3. QED
        BY <3>1, <3>2
    <2>5. ASSUME NEW i \in DbIds PROVE RowFits(i)'
      BY <1>1, <2>1 DEF DbInv, RowFits, KeyOf, CutSalt
    <2>6. QED
      BY <2>2, <2>3, <2>4, <2>5 DEF DbInv
  <1>4. QED
    BY <1>2, <1>3

-----------------------------------------------------------------------------

LEMMA DbStep == ASSUME DbInv, [DbNext]_dbVars PROVE DbInv'
  <1>1. CASE UNCHANGED dbVars
    BY <1>1 DEF dbVars, DbInv, DbShape, FilesFit, PartFits, Usable, KeyOf, CutSalt, RowFits, OpFits, SaveFits,
                UseFits, AnswerFits, Making
  <1>2. ASSUME NEW listing \in Listings, Adopt(listing) PROVE DbInv'
    <2>1. PICK id \in DbIds, s \in Suggested(listing) : StartSave(id, s.host, Blank)
      BY <1>2 DEF Adopt
    <2>2. QED
      BY <2>1, ListingsAssumption, StartSaveStep
  <1>3. ASSUME NEW t \in Tasks, NEW id \in DbIds,
               StartList(t, id) \/ \E limit \in Requests : StartUse(t, id, "query", limit)
        PROVE  DbInv'
    BY <1>3, DatabasesAssumption, StartUseStep DEF StartList
  <1>4. CASE DbNext
    BY <1>2, <1>3, <1>4, LoaderStep, AnswerReturns, MainKeeps, StartSaveStep, TaskKeeps, AnsweredStep, HarmKeeps
    DEF DbNext
  <1>5. QED
    BY <1>1, <1>4

LEMMA DbInvariant == DbSpec => []DbInv
  <1>1. DbInit => DbInv
    BY DbInitially
  <1>2. DbInv /\ [DbNext]_dbVars => DbInv'
    BY DbStep
  <1>3. QED
    BY <1>1, <1>2, PTL DEF DbSpec

\* The table, the key files and what each command is at are well-typed, and the key in memory is
\* the first that was made, or one whose salt was cut.
THEOREM DatabasesTypes == DbSpec => []DbTypeOK
  <1>1. ASSUME DbInv PROVE DbTypeOK
    <2>1. ASSUME NEW i \in DbIds, rows[i] # NoConnection
          PROVE  rows[i].host \in Hosts /\ (rows[i].text # Blank => rows[i].under # NoKey)
      BY <1>1, <2>1, NoKeyFact DEF DbInv, RowFits, Rows, KeyOf, CutSalt, Damaged
    <2>2. lockedBy # Blank => op[lockedBy].stage \in {"read", "newkey", "newsalt"}
      BY <1>1 DEF DbInv, DbShape, Making
    <2>3. ASSUME NEW t \in Tasks PROVE op[t].stage # "save"
      BY <1>1, MainFact DEF DbInv, OpFits, Unused, UseFits, UseOps, AnswerFits, AnswerOps, LoaderStages
    <2>4. QED
      BY <1>1, <2>1, <2>2, <2>3 DEF DbTypeOK, DbInv, DbShape, FilesFit, KeyOf
  <1>2. QED
    BY <1>1, DbInvariant, PTL

\* A connection stays as its user saved it whatever commands were under way, its password was
\* encrypted with the first key, which the files give whenever nothing of them is away, or with one
\* whose salt was cut, and a query's result that was cut says so, for any number of connections,
\* commands, stops and losses (commands/dbconn.rs, storage/crypto.rs).
THEOREM ConnectionsStay == DbSpec => []ConnectionsKept
  <1>1. ASSUME DbInv PROVE RowsAsSaved
    BY <1>1, RowFact DEF DbInv, RowFits, RowsAsSaved
  <1>2. ASSUME DbInv PROVE KeyIsKept
    <2>1. ASSUME NEW t \in Threads, op[t].stage = "refused" PROVE harm > 0
      BY <1>2, <2>1 DEF DbInv, OpFits, Unused, SaveFits, UseFits, AnswerFits, AnswerOps
    <2>2. QED
      BY <1>2, <2>1, UsableFact DEF DbInv, RowFits, KeyIsKept, KeyOf
  <1>3. ASSUME DbInv PROVE AnswersAreWhole
    <2>1. ASSUME NEW t \in Tasks
          PROVE  op[t].stage \in {"idle"} \/ UseFits(op[t]) \/ AnswerFits(op[t])
      BY <1>3, MainFact DEF DbInv, OpFits, Unused
    <2>2. QED
      BY <2>1 DEF AnswersAreWhole, UseFits, UseOps, AnswerFits, AnswerOps, LoaderStages
  <1>4. DbInv => ConnectionsKept
    BY <1>1, <1>2, <1>3 DEF ConnectionsKept
  <1>5. QED
    BY <1>4, DbInvariant, PTL

-----------------------------------------------------------------------------
(* RemoteFiles. *)

Kinds == {"init", "list", "look", "upload", "write", "edit", "mkdir", "delete", "rename"}
Moments == {"init", "opened", "list", "listed", "look", "aim", "stat", "edit", "open", "reopen", "mkdir", "walk",
            "writing", "rename", "size", "delete", "scan", "clear", "rmdir"}
Ways == Paths \cup Dirs
OpRecords ==
    [place : Places, kind : Kinds, stage : Moments, path : Ways, asked : Ways, overwrite : BOOLEAN,
     parents : BOOLEAN, keep : BOOLEAN, recursive : BOOLEAN, to : Paths \cup {NoOp}, at : Paths \cup {NoOp},
     todo : Seq(Paths), entries : SUBSET Paths]
Trees == [Paths -> {Absent, Dir} \cup Bodies]

\* What may be touched, of the record of a request.
Reach(r) ==
    LET above == IF r.parents THEN {ParentOf(r.asked)} ELSE {}
    IN  CASE r.kind = "write" -> {r.asked} \cup above
          [] r.kind = "upload" -> {r.asked, ParentOf(r.asked)} \cup (IF r.asked \in Dirs THEN {Join(r.asked)} ELSE {})
          [] r.kind = "edit" -> {r.asked} \cup above
          [] r.kind = "mkdir" -> {r.asked} \cup above
          [] r.kind = "delete" -> {r.asked} \cup Below(r.asked)
          [] r.kind = "rename" -> {r.asked, r.to, ParentOf(r.to)}
          [] OTHER -> {}

\* The path of a request is the one that was asked for: only an upload goes on into it, and once.
KindFits(r) ==
    /\ r.kind \notin {"init", "list", "look"} => r.path \in Paths /\ r.asked \in Paths
    /\ r.kind # "upload" => r.path = r.asked
    /\ r.kind = "upload" => r.path = r.asked \/ (r.asked = Sub /\ r.path = InSub)
    /\ r.kind = "rename" => r.to \in Paths
    /\ r.kind # "write" => r.overwrite
    /\ r.kind \notin {"write", "mkdir"} => r.parents

\* What a request is about at each of its stages.
StageFits(r, s) ==
    /\ s \in {"list", "listed"} => r.path \in Dirs
    /\ s = "aim" => r.kind = "upload"
    /\ s \in {"stat", "edit"} => r.kind = "edit"
    /\ s \in {"open", "reopen", "writing"} => r.kind \in {"write", "upload", "edit"}
    /\ s \in {"mkdir", "walk"} => r.kind \in {"write", "upload", "edit", "mkdir", "rename"}
    /\ s = "walk" \/ (s = "mkdir" /\ r.kind = "write") => r.parents
    /\ s = "rename" => r.kind = "rename"
    /\ s \in {"size", "delete", "scan", "clear", "rmdir"} => r.kind = "delete"
    /\ r.at # NoOp => s = "writing"

RequestFits(r) ==
    /\ KindFits(r) /\ StageFits(r, r.stage)
    /\ r.todo \in Seq(Reach(r) \cap Paths) /\ r.entries \subseteq Below(r.asked)

Underway == {r \in OpRecords : RequestFits(r)}
OpValues == {Unasked, Done} \cup Underway

\* What is in the only directory there may be below the home directory keeps it.
TreeWhole(t) == t \in Trees /\ (t[InSub] # Absent => t[Sub] = Dir)

\* The lock is never with a request that sets up a context.
Working(o) == Running(o) /\ ops[o].stage \notin {"init", "opened"}
LockFits == lock \in Ops \cup {NoOp} /\ (lock # NoOp => Working(lock))
HandlesFit == \A o \in Ops : Running(o) /\ ops[o].at # NoOp => tree[ops[o].at] \in Bodies
SessionFits == connected \in BOOLEAN /\ kills \in 0..MaxKills /\ cwd \in [Contexts -> Dirs \cup {NoOp}]

FilesInv == TreeWhole(tree) /\ ops \in [Ops -> OpValues] /\ SessionFits /\ LockFits /\ HandlesFit

-----------------------------------------------------------------------------
\* Paths and trees.
LEMMA PathsFact ==
    /\ Paths = {Sub, InHome, InSub} /\ Dirs = {Home, Sub} /\ Home \notin Paths
    /\ ParentOf(Sub) = Home /\ ParentOf(InHome) = Home /\ ParentOf(InSub) = Sub /\ ParentOf(Home) = Home
    /\ Sub # InHome /\ Sub # InSub /\ InHome # InSub /\ Home # Sub
    /\ Join(Home) = InHome /\ Join(Sub) = InSub
    /\ NoOp \notin Paths /\ NoOp \notin Dirs
  BY FilesAssumption DEF Paths, Dirs, ParentOf, Join

LEMMA BelowFact ==
    /\ Below(Sub) = {InSub} /\ Below(InHome) = {} /\ Below(InSub) = {}
    /\ Home \notin Paths /\ \A p \in Paths : At(p) = tree[p] /\ At(p)' = tree'[p]
    /\ At(Home) = Dir /\ At(Home)' = Dir
  BY PathsFact DEF Below, At

LEMMA NamesFact ==
    /\ Absent # Dir /\ Absent \notin Bodies /\ Dir \notin Bodies /\ "empty" \in Bodies /\ Ops \subseteq Bodies
    /\ NoOp \notin Ops
  BY FilesAssumption DEF Bodies, Absent, Dir, NoOp

LEMMA TreeFact ==
    ASSUME tree \in Trees
    PROVE  TreeWhole(tree) <=> \A p \in Paths : At(p) # Absent => IsDir(ParentOf(p))
  BY PathsFact, BelowFact, NamesFact DEF TreeWhole, IsDir

LEMMA FileFact ==
    ASSUME TreeWhole(tree), NEW p \in Paths PROVE IsFile(p) <=> tree[p] \in Bodies
  BY BelowFact, NamesFact DEF IsFile, TreeWhole, Trees

LEMMA TreeSteps ==
    ASSUME TreeWhole(tree), NEW p \in Paths
    PROVE  /\ CanCreate(p) => TreeWhole([tree EXCEPT ![p] = Dir])
           /\ CanOpen(p) => TreeWhole([tree EXCEPT ![p] = "empty"])
           /\ IsFile(p) => \A v \in Bodies : TreeWhole([tree EXCEPT ![p] = v])
           /\ (\A q \in Below(p) : At(q) = Absent) \/ IsFile(p) => TreeWhole([tree EXCEPT ![p] = Absent])
  BY PathsFact, BelowFact, NamesFact DEF TreeWhole, Trees, CanCreate, CanOpen, IsFile, IsDir

LEMMA TreeMoves ==
    ASSUME TreeWhole(tree), NEW p \in Paths, NEW q \in Paths, p # q, \A c \in Below(p) : At(c) = Absent,
           IsDir(ParentOf(q)), ParentOf(q) # p, At(q) = Absent \/ IsFile(q)
    PROVE  TreeWhole([tree EXCEPT ![p] = Absent, ![q] = tree[p]])
  <1> DEFINE new == [tree EXCEPT ![p] = Absent, ![q] = tree[p]]
  <1>1. tree \in Trees /\ tree[p] \in {Absent, Dir} \cup Bodies
    BY DEF TreeWhole, Trees
  <1>2. new \in Trees /\ new[p] = Absent /\ new[q] = tree[p] /\ \A c \in Paths \ {p, q} : new[c] = tree[c]
    BY <1>1 DEF Trees
  <1> HIDE DEF new
  <1>3. new[InSub] # Absent => new[Sub] = Dir
    BY <1>2, PathsFact, BelowFact, NamesFact DEF TreeWhole, IsDir, IsFile
  <1>4. QED
    BY <1>2, <1>3 DEF TreeWhole, new

-----------------------------------------------------------------------------
\* Requests.
LEMMA RunningFact ==
    ASSUME ops \in [Ops -> OpValues], NEW o \in Ops
    PROVE  Running(o) <=> ops[o] \in Underway
  BY DEF OpValues, Underway, OpRecords, Moments, Running, Unasked, Done

LEMMA RunningNextFact ==
    ASSUME ops' \in [Ops -> OpValues], NEW o \in Ops
    PROVE  Running(o)' <=> ops'[o] \in Underway
  BY DEF OpValues, Underway, OpRecords, Moments, Running, Unasked, Done

LEMMA StageChange ==
    ASSUME NEW r \in Underway, NEW s \in Moments, StageFits(r, s)
    PROVE  /\ [r EXCEPT !.stage = s] \in Underway
           /\ [r EXCEPT !.stage = s].stage = s /\ [r EXCEPT !.stage = s].at = r.at
  <1> DEFINE n == [r EXCEPT !.stage = s]
  <1>1. r \in OpRecords /\ RequestFits(r)
    BY DEF Underway
  <1>2. n \in OpRecords /\ n.stage = s /\ n.at = r.at
    BY <1>1 DEF OpRecords
  <1>3. /\ n.path = r.path /\ n.asked = r.asked /\ n.kind = r.kind /\ n.to = r.to /\ n.parents = r.parents
        /\ n.overwrite = r.overwrite /\ n.todo = r.todo /\ n.entries = r.entries
    BY <1>1 DEF OpRecords
  <1> HIDE DEF n
  <1>4. RequestFits(n)
    <2>1. Reach(n) = Reach(r)
      BY <1>3 DEF Reach
    <2>2. KindFits(n) /\ StageFits(n, n.stage)
      BY <1>1, <1>2, <1>3 DEF RequestFits, KindFits, StageFits
    <2>3. QED
      BY <1>1, <1>3, <2>1, <2>2 DEF RequestFits
  <1>5. QED
    BY <1>2, <1>4 DEF Underway, n

LEMMA KeepChange ==
    ASSUME NEW r \in Underway
    PROVE  /\ [r EXCEPT !.keep = TRUE] \in Underway /\ [r EXCEPT !.keep = TRUE].at = r.at
           /\ [r EXCEPT !.keep = TRUE].stage = r.stage
  <1> DEFINE n == [r EXCEPT !.keep = TRUE]
  <1>1. r \in OpRecords /\ RequestFits(r)
    BY DEF Underway
  <1>2. n \in OpRecords /\ n.stage = r.stage /\ n.at = r.at
    BY <1>1 DEF OpRecords
  <1>3. /\ n.path = r.path /\ n.asked = r.asked /\ n.kind = r.kind /\ n.to = r.to /\ n.parents = r.parents
        /\ n.overwrite = r.overwrite /\ n.todo = r.todo /\ n.entries = r.entries
    BY <1>1 DEF OpRecords
  <1> HIDE DEF n
  <1>4. RequestFits(n)
    <2>1. Reach(n) = Reach(r)
      BY <1>3 DEF Reach
    <2>2. KindFits(n) /\ StageFits(n, n.stage)
      BY <1>1, <1>2, <1>3 DEF RequestFits, KindFits, StageFits
    <2>3. QED
      BY <1>1, <1>3, <2>1, <2>2 DEF RequestFits
  <1>5. QED
    BY <1>2, <1>4 DEF Underway, n

LEMMA HandleChange ==
    ASSUME NEW r \in Underway, r.at # NoOp, NEW p \in Paths \cup {NoOp}
    PROVE  /\ [r EXCEPT !.at = p] \in Underway /\ [r EXCEPT !.at = p].at = p
           /\ [r EXCEPT !.at = p].stage = r.stage
  <1> DEFINE n == [r EXCEPT !.at = p]
  <1>1. r \in OpRecords /\ RequestFits(r)
    BY DEF Underway
  <1>2. n \in OpRecords /\ n.stage = r.stage /\ n.at = p
    BY <1>1 DEF OpRecords
  <1>3. /\ n.path = r.path /\ n.asked = r.asked /\ n.kind = r.kind /\ n.to = r.to /\ n.parents = r.parents
        /\ n.overwrite = r.overwrite /\ n.todo = r.todo /\ n.entries = r.entries
    BY <1>1 DEF OpRecords
  <1> HIDE DEF n
  <1>4. RequestFits(n)
    <2>1. Reach(n) = Reach(r)
      BY <1>3 DEF Reach
    <2>2. KindFits(n) /\ StageFits(n, n.stage)
      BY <1>1, <1>2, <1>3 DEF RequestFits, KindFits, StageFits
    <2>3. QED
      BY <1>1, <1>3, <2>1, <2>2 DEF RequestFits
  <1>5. QED
    BY <1>2, <1>4 DEF Underway, n

LEMMA CreatedChange ==
    ASSUME NEW r \in Underway, NEW p \in Paths, r.kind \in {"write", "upload", "edit"}
    PROVE  /\ [r EXCEPT !.stage = "writing", !.at = p] \in Underway
           /\ [r EXCEPT !.stage = "writing", !.at = p].at = p
           /\ [r EXCEPT !.stage = "writing", !.at = p].stage = "writing"
  <1> DEFINE n == [r EXCEPT !.stage = "writing", !.at = p]
  <1>1. r \in OpRecords /\ RequestFits(r)
    BY DEF Underway
  <1>2. n \in OpRecords /\ n.stage = "writing" /\ n.at = p
    BY <1>1 DEF OpRecords, Moments
  <1>3. /\ n.path = r.path /\ n.asked = r.asked /\ n.kind = r.kind /\ n.to = r.to /\ n.parents = r.parents
        /\ n.overwrite = r.overwrite /\ n.todo = r.todo /\ n.entries = r.entries
    BY <1>1 DEF OpRecords
  <1> HIDE DEF n
  <1>4. RequestFits(n)
    <2>1. Reach(n) = Reach(r)
      BY <1>3 DEF Reach
    <2>2. KindFits(n) /\ StageFits(n, n.stage)
      BY <1>1, <1>2, <1>3 DEF RequestFits, KindFits, StageFits
    <2>3. QED
      BY <1>1, <1>3, <2>1, <2>2 DEF RequestFits
  <1>5. QED
    BY <1>2, <1>4 DEF Underway, n

LEMMA WalkChange ==
    ASSUME NEW r \in Underway, StageFits(r, "walk"), NEW t \in Seq(Reach(r) \cap Paths)
    PROVE  /\ [r EXCEPT !.stage = "walk", !.todo = t] \in Underway
           /\ [r EXCEPT !.stage = "walk", !.todo = t].at = r.at /\ [r EXCEPT !.stage = "walk", !.todo = t].todo = t
           /\ [r EXCEPT !.stage = "walk", !.todo = t].stage = "walk"
  <1> DEFINE n == [r EXCEPT !.stage = "walk", !.todo = t]
  <1>1. r \in OpRecords /\ RequestFits(r) /\ t \in Seq(Paths)
    BY DEF Underway
  <1>2. n \in OpRecords /\ n.stage = "walk" /\ n.at = r.at /\ n.todo = t
    BY <1>1 DEF OpRecords, Moments
  <1>3. /\ n.path = r.path /\ n.asked = r.asked /\ n.kind = r.kind /\ n.to = r.to /\ n.parents = r.parents
        /\ n.overwrite = r.overwrite /\ n.entries = r.entries
    BY <1>1 DEF OpRecords
  <1> HIDE DEF n
  <1>4. RequestFits(n)
    <2>1. Reach(n) = Reach(r)
      BY <1>3 DEF Reach
    <2>2. KindFits(n) /\ StageFits(n, n.stage)
      BY <1>1, <1>2, <1>3 DEF RequestFits, KindFits, StageFits
    <2>3. QED
      BY <1>1, <1>2, <1>3, <2>1, <2>2 DEF RequestFits
  <1>5. QED
    BY <1>2, <1>4 DEF Underway, n

LEMMA EntriesChange ==
    ASSUME NEW r \in Underway, NEW e \in SUBSET Below(r.asked), r.stage \in {"scan", "clear"}
    PROVE  /\ [r EXCEPT !.stage = "clear", !.entries = e] \in Underway
           /\ [r EXCEPT !.stage = "clear", !.entries = e].at = r.at
           /\ [r EXCEPT !.stage = "clear", !.entries = e].stage = "clear"
           /\ [r EXCEPT !.stage = "clear", !.entries = e].entries = e
  <1> DEFINE n == [r EXCEPT !.stage = "clear", !.entries = e]
  <1>1. r \in OpRecords /\ RequestFits(r) /\ e \subseteq Paths
    BY DEF Underway, Below
  <1>2. n \in OpRecords /\ n.stage = "clear" /\ n.at = r.at /\ n.entries = e
    BY <1>1 DEF OpRecords, Moments
  <1>3. /\ n.path = r.path /\ n.asked = r.asked /\ n.kind = r.kind /\ n.to = r.to /\ n.parents = r.parents
        /\ n.overwrite = r.overwrite /\ n.todo = r.todo
    BY <1>1 DEF OpRecords
  <1> HIDE DEF n
  <1>4. RequestFits(n)
    <2>1. Reach(n) = Reach(r)
      BY <1>3 DEF Reach
    <2>2. KindFits(n) /\ StageFits(n, n.stage)
      BY <1>1, <1>2, <1>3 DEF RequestFits, KindFits, StageFits
    <2>3. QED
      BY <1>1, <1>2, <1>3, <2>1, <2>2 DEF RequestFits
  <1>5. QED
    BY <1>2, <1>4 DEF Underway, n

\* An upload to a directory goes to the file of that name in it.
LEMMA AimChange ==
    ASSUME NEW r \in Underway, NEW s \in {"mkdir", "open"}, r.stage = "aim",
           NEW p \in {r.path, Join(r.path)}, p = r.path \/ r.path \in Dirs
    PROVE  /\ [r EXCEPT !.stage = s, !.path = p] \in Underway
           /\ [r EXCEPT !.stage = s, !.path = p].at = r.at /\ [r EXCEPT !.stage = s, !.path = p].stage = s
  <1> DEFINE n == [r EXCEPT !.stage = s, !.path = p]
  <1>1. r \in OpRecords /\ RequestFits(r) /\ r.kind = "upload" /\ r.at = NoOp
    BY DEF Underway, RequestFits, StageFits
  <1>2. /\ p \in Paths /\ (p = r.asked \/ (r.asked = Sub /\ p = InSub))
    BY <1>1, PathsFact DEF RequestFits, KindFits
  <1>3. n \in OpRecords /\ n.stage = s /\ n.at = r.at /\ n.path = p
    BY <1>1, <1>2 DEF OpRecords, Moments, Ways
  <1>4. /\ n.asked = r.asked /\ n.kind = r.kind /\ n.to = r.to /\ n.parents = r.parents
        /\ n.overwrite = r.overwrite /\ n.todo = r.todo /\ n.entries = r.entries
    BY <1>1 DEF OpRecords
  <1> HIDE DEF n
  <1>5. RequestFits(n)
    <2>1. Reach(n) = Reach(r)
      BY <1>4 DEF Reach
    <2>2. KindFits(n) /\ StageFits(n, n.stage)
      BY <1>1, <1>2, <1>3, <1>4 DEF RequestFits, KindFits, StageFits
    <2>3. QED
      BY <1>1, <1>4, <2>1, <2>2 DEF RequestFits
  <1>6. QED
    BY <1>3, <1>5 DEF Underway, n

\* The components of the directory that a request needs are ones that it may touch.
LEMMA ChainFact ==
    ASSUME NEW o \in Ops, ops[o] \in Underway, ops[o].stage = "mkdir", ops[o].parents
    PROVE  Chain(DirWanted(o)) \in Seq(Reach(ops[o]) \cap Paths)
  <1> DEFINE r == ops[o]
             p == DirWanted(o)
             S == Reach(r) \cap Paths
  <1>1. r \in OpRecords /\ KindFits(r) /\ r.kind \in {"write", "upload", "edit", "mkdir", "rename"}
    BY DEF Underway, RequestFits, StageFits
  <1>2. p \in Ways /\ (p \in Paths => p \in S) /\ (ParentOf(p) \in Paths => ParentOf(p) \in S)
    BY <1>1, PathsFact DEF OpRecords, KindFits, Reach, DirWanted, Ways
  <1> HIDE DEF p, S
  <1>3. Chain(p) = <<>> \/ (Chain(p) = <<p>> /\ p \in S) \/ (Chain(p) = <<ParentOf(p), p>> /\ p \in S /\ ParentOf(p) \in S)
    BY <1>2, PathsFact DEF Chain, Ways
  <1>4. <<>> \in Seq(S) /\ \A q \in S : <<q>> \in Seq(S) /\ \A t \in S : <<t, q>> \in Seq(S)
    OBVIOUS
  <1>5. Chain(p) \in Seq(S)
    BY <1>3, <1>4
  <1>6. QED
    BY <1>5 DEF p, S

\* A path that the step may create, and that a request needs for itself or for its file.
LEMMA WantedFact ==
    ASSUME NEW o \in Ops, ops[o] \in Underway, ops[o].stage = "mkdir", DirWanted(o) \in Paths
    PROVE  DirWanted(o) \in Reach(ops[o])
  <1>1. ops[o] \in OpRecords /\ KindFits(ops[o]) /\ StageFits(ops[o], "mkdir")
    BY DEF Underway, RequestFits
  <1>2. QED
    BY <1>1, PathsFact DEF OpRecords, KindFits, StageFits, Reach, DirWanted, Ways

LEMMA WantedIsPath ==
    ASSUME NEW o \in Ops, ops[o] \in Underway, ops[o].stage = "mkdir"
    PROVE  DirWanted(o) \in Ways
  <1>1. ops[o] \in OpRecords /\ KindFits(ops[o]) /\ StageFits(ops[o], "mkdir")
    BY DEF Underway, RequestFits
  <1>2. QED
    BY <1>1, PathsFact DEF OpRecords, KindFits, StageFits, DirWanted, Ways

-----------------------------------------------------------------------------
LEMMA FilesInvInit == FilesInit => FilesInv
  <1> SUFFICES ASSUME FilesInit PROVE FilesInv
    OBVIOUS
  <1>1. TreeWhole(tree)
    BY PathsFact, NamesFact DEF FilesInit, TreeWhole, Trees, Bodies
  <1>2. ops \in [Ops -> OpValues] /\ \A o \in Ops : ~Running(o)
    BY DEF FilesInit, OpValues, Running, Unasked
  <1>3. SessionFits
    BY PathsFact, FilesAssumption DEF FilesInit, SessionFits
  <1>4. QED
    BY <1>1, <1>2, <1>3 DEF FilesInv, LockFits, HandlesFit, FilesInit

\* A step of one request that leaves the files alone.
LEMMA SoloKeeps ==
    ASSUME FilesInv, NEW o \in Ops, NEW r \in OpValues, ops' = [ops EXCEPT ![o] = r], UNCHANGED tree, SessionFits',
           r \in Underway => r.at = NoOp \/ (Running(o) /\ r.at = ops[o].at),
           \/ lock' \in {lock, o} /\ r \in Underway /\ (lock' = o => r.stage \notin {"init", "opened"})
           \/ Unlocked(o)
    PROVE  FilesInv'
  <1>1. ops \in [Ops -> OpValues] /\ ops' \in [Ops -> OpValues] /\ ops'[o] = r /\ \A q \in Ops : q # o => ops'[q] = ops[q]
    BY DEF FilesInv
  <1>2. /\ \A q \in Ops : q # o => (Running(q)' <=> Running(q)) /\ (Working(q)' <=> Working(q))
        /\ Running(o)' <=> r \in Underway
    BY <1>1, RunningNextFact DEF Running, Working
  <1>3. LockFits'
    BY <1>1, <1>2, NamesFact DEF FilesInv, LockFits, Unlocked, Working
  <1>4. HandlesFit'
    BY <1>1, <1>2 DEF FilesInv, HandlesFit
  <1>5. QED
    BY <1>1, <1>3, <1>4 DEF FilesInv, TreeWhole

\* A step of a request that changes the files.
LEMMA FileStepKeeps ==
    ASSUME FilesInv, NEW o \in Ops, Running(o), TreeWhole(tree'), ops' \in [Ops -> OpValues], SessionKept,
           \A q \in Ops : q # o => (Working(q) => Working(q)'),
           (lock' = lock /\ (Working(o) => Working(o)')) \/ Unlocked(o), HandlesFit'
    PROVE  FilesInv'
  <1>1. LockFits'
    BY NamesFact DEF FilesInv, LockFits, Unlocked
  <1>2. SessionFits'
    BY DEF FilesInv, SessionFits, SessionKept
  <1>3. QED
    BY <1>1, <1>2 DEF FilesInv

LEMMA GotoKeeps ==
    ASSUME FilesInv, NEW o \in Ops, Running(o), NEW s \in Moments, Goto(o, s), StageFits(ops[o], s), UNCHANGED tree,
           SessionKept, s = "opened" => ops[o].stage = "init", s # "init"
    PROVE  FilesInv'
  <1>1. ops[o] \in Underway
    BY RunningFact DEF FilesInv
  <1> DEFINE r == [ops[o] EXCEPT !.stage = s]
  <1>2. r \in Underway /\ r.at = ops[o].at /\ r.stage = s
    BY <1>1, StageChange
  <1>3. ops' = [ops EXCEPT ![o] = r] /\ lock' = lock /\ (s = "opened" => lock # o)
    BY NamesFact DEF Goto, FilesInv, LockFits, Working
  <1>4. SessionFits'
    BY DEF FilesInv, SessionFits, SessionKept
  <1> HIDE DEF r
  <1>5. QED
    BY <1>2, <1>3, <1>4, SoloKeeps DEF OpValues

LEMMA EndKeeps ==
    ASSUME FilesInv, NEW o \in Ops, Running(o), End(o), UNCHANGED tree, SessionFits'
    PROVE  FilesInv'
  <1>1. Done \in OpValues /\ Done \notin Underway
    BY DEF OpValues, Underway, OpRecords, Moments, Done
  <1>2. QED
    BY <1>1, SoloKeeps DEF End

-----------------------------------------------------------------------------
(* Requests. *)

Opens(kind, stage, path, more) ==
    \/ kind = "init" /\ stage \in {"init", "opened"} /\ more.overwrite /\ more.parents
    \/ kind = "look" /\ stage = "look" /\ more.overwrite /\ more.parents
    \/ kind = "list" /\ stage = "list" /\ path \in Dirs /\ more.overwrite /\ more.parents
    \/ /\ path \in Paths
       /\ \/ kind = "upload" /\ stage = "aim"
          \/ kind = "write" /\ stage = "open"
          \/ kind = "edit" /\ stage = "stat"
          \/ kind = "mkdir" /\ stage = "mkdir"
          \/ kind = "delete" /\ stage \in {"delete", "size"}
          \/ kind = "rename" /\ stage \in {"rename", "mkdir"} /\ more.to \in Paths
       /\ kind # "write" => more.overwrite
       /\ kind \notin {"write", "mkdir"} => more.parents

LEMMA StartKeeps ==
    ASSUME FilesInv, NEW o \in Ops, NEW place \in Places, NEW kind, NEW stage, NEW path \in Ways, NEW more \in Options,
           Opens(kind, stage, path, more), Start(o, place, kind, stage, path, more),
           lock' = lock \/ (lock' = o /\ kind # "init")
    PROVE  FilesInv'
  <1> DEFINE r == Request(place, kind, stage, path, more)
  <1>1. /\ r.path = path /\ r.asked = path /\ r.kind = kind /\ r.to = more.to /\ r.parents = more.parents
        /\ r.overwrite = more.overwrite /\ r.todo = <<>> /\ r.entries = {} /\ r.stage = stage /\ r.at = NoOp
    BY DEF Request
  <1>2. kind \in Kinds /\ stage \in Moments
    BY DEF Opens, Kinds, Moments
  <1>3. r \in OpRecords
    BY <1>2 DEF Request, OpRecords, Options
  <1>4. ops' = [ops EXCEPT ![o] = r] /\ UNCHANGED tree /\ SessionFits'
    BY DEF Start, FilesInv, SessionFits
  <1>5. lock # o /\ (kind # "init" => stage \notin {"init", "opened"})
    BY NamesFact DEF Start, Opens, FilesInv, LockFits, Working, Running, Unasked
  <1> HIDE DEF r
  <1>6. KindFits(r) /\ StageFits(r, stage)
    BY <1>1, PathsFact DEF Opens, KindFits, StageFits
  <1>7. r \in Underway
    <2>1. <<>> \in Seq(Reach(r) \cap Paths)
      OBVIOUS
    <2>2. QED
      BY <1>1, <1>3, <1>6, <2>1 DEF Underway, RequestFits
  <1>8. r \in OpValues /\ lock' \in {lock, o} /\ (lock' = o => r.stage \notin {"init", "opened"})
    BY <1>1, <1>5, <1>7 DEF OpValues
  <1>9. QED
    BY <1>1, <1>4, <1>7, <1>8, SoloKeeps

LEMMA OptionsFact ==
    /\ Plainly \in Options /\ Plainly.overwrite /\ Plainly.parents
    /\ \A b \in BOOLEAN : LET m == [Plainly EXCEPT !.recursive = b] IN m \in Options /\ m.overwrite /\ m.parents
    /\ \A b \in BOOLEAN : LET m == [Plainly EXCEPT !.keep = b] IN m \in Options /\ m.overwrite /\ m.parents
    /\ \A b \in BOOLEAN : LET m == [Plainly EXCEPT !.parents = b] IN m \in Options /\ m.overwrite
    /\ \A b, c \in BOOLEAN : [Plainly EXCEPT !.overwrite = b, !.parents = c] \in Options
    /\ \A p \in Paths : LET m == [Plainly EXCEPT !.to = p]
                        IN  m \in Options /\ m.overwrite /\ m.parents /\ m.to = p
  BY DEF Plainly, Options

LEMMA ResolvedFact ==
    ASSUME NEW q \in Requested, NEW d \in Dirs PROVE Resolved(q, d) \in Paths
  BY PathsFact DEF Requested, Resolved

\* The requests of the window, of a shell, of the daemon's clients and of an agent: what their paths
\* resolve to, and how they open.
LEMMA WindowKeeps ==
    ASSUME FilesInv, NEW o \in Ops,
           \/ WindowInit(o) \/ WindowList(o) \/ WindowRead(o) \/ WindowDownload(o) \/ WindowUpload(o)
           \/ WindowWrite(o) \/ WindowMkdir(o) \/ WindowDelete(o) \/ WindowRename(o)
    PROVE  FilesInv'
  <1>1. ASSUME NEW kind, NEW stage, NEW path \in Ways, NEW more \in Options, NEW holds \in BOOLEAN,
               Opens(kind, stage, path, more), kind # "init", Window(o, kind, stage, path, more, holds)
        PROVE  FilesInv'
    BY <1>1, StartKeeps DEF Window, Places, Contexts
  <1>2. cwd["window"] \in Dirs \cup {NoOp}
    BY DEF FilesInv, SessionFits, Contexts
  <1>3. cwd["window"] # NoOp => \A q \in Requested : InWindow(q) \in Paths
    BY <1>2, ResolvedFact DEF InWindow
  <1>4. CASE WindowInit(o)
    BY <1>4, StartKeeps, OptionsFact DEF WindowInit, Opens, Places, Contexts, Ways, Dirs
  <1>5. CASE WindowList(o)
    BY <1>1, <1>2, <1>5, OptionsFact DEF WindowList, Window, Opens, Ways
  <1>6. CASE WindowRead(o) \/ WindowDownload(o)
    BY <1>1, <1>3, <1>6, OptionsFact DEF WindowRead, WindowDownload, Window, Opens, Ways
  <1>7. CASE WindowUpload(o) \/ WindowWrite(o) \/ WindowMkdir(o)
    BY <1>1, <1>3, <1>7, OptionsFact DEF WindowUpload, WindowWrite, WindowMkdir, Window, Opens, Ways
  <1>8. CASE WindowDelete(o)
    BY <1>1, <1>3, <1>8, OptionsFact DEF WindowDelete, Window, Opens, Ways
  <1>9. CASE WindowRename(o)
    BY <1>1, <1>3, <1>9, OptionsFact DEF WindowRename, Window, Opens, Ways
  <1>10. QED
    BY <1>4, <1>5, <1>6, <1>7, <1>8, <1>9

LEMMA ShellKeeps ==
    ASSUME FilesInv, NEW o \in Ops,
           \/ ShellInit(o) \/ ShellList(o) \/ ShellRead(o) \/ ShellCopy(o) \/ ShellWrite(o)
           \/ ShellMkdir(o) \/ ShellDelete(o) \/ ShellRename(o)
    PROVE  FilesInv'
  <1>1. ASSUME NEW kind, NEW stage, NEW path \in Ways, NEW more \in Options,
               Opens(kind, stage, path, more), Shell(o, kind, stage, path, more)
        PROVE  FilesInv'
    BY <1>1, StartKeeps DEF Shell, Places, Contexts
  <1>2. \A q \in Requested : InShell(q) \in Paths
    <2>1. cwd["shell"] \in Dirs \cup {NoOp}
      BY DEF FilesInv, SessionFits, Contexts
    <2>2. QED
      BY <2>1, ResolvedFact DEF InShell, Dirs
  <1>3. CASE ShellInit(o) \/ ShellList(o)
    BY <1>1, <1>3, OptionsFact DEF ShellInit, ShellList, Opens, Ways, Dirs
  <1>4. CASE ShellRead(o) \/ ShellCopy(o) \/ ShellMkdir(o)
    BY <1>1, <1>2, <1>4, OptionsFact DEF ShellRead, ShellCopy, ShellMkdir, Opens, Ways
  <1>5. CASE ShellWrite(o)
    BY <1>1, <1>2, <1>5, OptionsFact DEF ShellWrite, Opens, Ways
  <1>6. CASE ShellDelete(o)
    BY <1>1, <1>2, <1>6, OptionsFact DEF ShellDelete, Opens, Ways
  <1>7. CASE ShellRename(o)
    BY <1>1, <1>2, <1>7, OptionsFact DEF ShellRename, Opens, Ways
  <1>8. QED
    BY <1>3, <1>4, <1>5, <1>6, <1>7

LEMMA DaemonKeeps ==
    ASSUME FilesInv, NEW o \in Ops,
           \/ DaemonInit(o) \/ DaemonList(o) \/ DaemonStat(o) \/ DaemonRead(o) \/ DaemonDownload(o)
           \/ DaemonUpload(o) \/ DaemonWrite(o) \/ DaemonAdd(o) \/ DaemonMkdir(o) \/ DaemonDelete(o)
           \/ DaemonRename(o)
    PROVE  FilesInv'
  <1>1. ASSUME NEW kind, NEW stage, NEW path \in Ways, NEW more \in Options,
               Opens(kind, stage, path, more), Daemon(o, kind, stage, path, more)
        PROVE  FilesInv'
    BY <1>1, StartKeeps DEF Daemon, Places, Contexts
  <1>2. cwd["daemon"] # NoOp => \A q \in Requested : InDaemon(q) \in Paths
    <2>1. cwd["daemon"] \in Dirs \cup {NoOp}
      BY DEF FilesInv, SessionFits, Contexts
    <2>2. QED
      BY <2>1, ResolvedFact DEF InDaemon
  <1>3. CASE DaemonInit(o)
    BY <1>3, StartKeeps, OptionsFact DEF DaemonInit, Opens, Places, Contexts, Ways, Dirs
  <1>4. CASE DaemonList(o)
    BY <1>1, <1>4, OptionsFact DEF DaemonList, Opens, Ways
  <1>5. CASE DaemonStat(o) \/ DaemonRead(o) \/ DaemonDownload(o)
    BY <1>1, <1>2, <1>5, OptionsFact DEF DaemonStat, DaemonRead, DaemonDownload, Daemon, Opens, Ways
  <1>6. CASE DaemonUpload(o) \/ DaemonWrite(o) \/ DaemonMkdir(o)
    BY <1>1, <1>2, <1>6, OptionsFact DEF DaemonUpload, DaemonWrite, DaemonMkdir, Daemon, Opens, Ways
  <1>7. CASE DaemonAdd(o)
    BY <1>1, <1>2, <1>7, OptionsFact DEF DaemonAdd, Daemon, Opens, Ways
  <1>8. CASE DaemonDelete(o)
    BY <1>1, <1>2, <1>8, OptionsFact DEF DaemonDelete, Daemon, Opens, Ways
  <1>9. CASE DaemonRename(o)
    BY <1>1, <1>2, <1>9, OptionsFact DEF DaemonRename, Daemon, Opens, Ways
  <1>10. QED
    BY <1>3, <1>4, <1>5, <1>6, <1>7, <1>8, <1>9

LEMMA AgentKeeps ==
    ASSUME FilesInv, NEW o \in Ops,
           \/ AgentList(o) \/ AgentRead(o) \/ AgentDownload(o) \/ AgentUpload(o) \/ AgentWrite(o)
           \/ AgentAdd(o) \/ AgentEdit(o) \/ AgentMkdir(o) \/ AgentRemove(o) \/ AgentMove(o)
    PROVE  FilesInv'
  <1>1. ASSUME NEW kind, NEW stage, NEW path \in Ways, NEW more \in Options,
               Opens(kind, stage, path, more), Agent(o, kind, stage, path, more)
        PROVE  FilesInv'
    BY <1>1, StartKeeps DEF Agent, Places
  <1>2. \A q \in Requested : AtHome(q) \in Paths
    BY ResolvedFact DEF AtHome, Dirs
  <1>3. CASE AgentList(o)
    BY <1>1, <1>3, OptionsFact DEF AgentList, Opens, Ways
  <1>4. CASE AgentRead(o) \/ AgentDownload(o)
    BY <1>1, <1>2, <1>4, OptionsFact DEF AgentRead, AgentDownload, Opens, Ways
  <1>5. CASE AgentUpload(o) \/ AgentWrite(o) \/ AgentEdit(o)
    BY <1>1, <1>2, <1>5, OptionsFact DEF AgentUpload, AgentWrite, AgentEdit, Opens, Ways
  <1>6. CASE AgentAdd(o)
    BY <1>1, <1>2, <1>6, OptionsFact DEF AgentAdd, Opens, Ways
  <1>7. CASE AgentMkdir(o)
    BY <1>1, <1>2, <1>7, OptionsFact DEF AgentMkdir, Opens, Ways
  <1>8. CASE AgentRemove(o)
    BY <1>1, <1>2, <1>8, OptionsFact DEF AgentRemove, Opens, Ways
  <1>9. CASE AgentMove(o)
    BY <1>1, <1>2, <1>9, OptionsFact DEF AgentMove, Opens, Ways
  <1>10. QED
    BY <1>3, <1>4, <1>5, <1>6, <1>7, <1>8, <1>9

-----------------------------------------------------------------------------
(* What requests do. *)

\* What LandsWhereAsked says of a step of one request.
Lands(o) ==
    \A p \in Paths : tree'[p] # tree[p] =>
      /\ Running(o) /\ ops'[o] # ops[o]
      /\ p \in Touches(o) \cup {ops[o].at}
      /\ (~ops[o].overwrite /\ ops[o].at = NoOp) => tree[p] = Absent

LEMMA TouchesFact == \A o \in Ops : Touches(o) = Reach(ops[o])
  BY DEF Touches, Reach

LEMMA AtWork ==
    ASSUME FilesInv, NEW o \in Ops, NEW s \in Moments, ops[o].stage = s
    PROVE  /\ Running(o) /\ ops[o] \in Underway /\ ops[o] \in OpRecords /\ KindFits(ops[o]) /\ StageFits(ops[o], s)
           /\ ops[o].todo \in Seq(Reach(ops[o]) \cap Paths) /\ ops[o].entries \subseteq Below(ops[o].asked)
           /\ (s # "writing" => ops[o].at = NoOp) /\ ops[o] # Done
  <1>1. Running(o)
    BY DEF Running, Moments
  <1>2. ops[o] \in Underway
    BY <1>1, RunningFact DEF FilesInv
  <1>3. QED
    BY <1>1, <1>2 DEF Underway, RequestFits, StageFits, Done, Moments

LEMMA ReadingKeeps ==
    ASSUME FilesInv, NEW o \in Ops,
           \/ InitStep(o) \/ ListStep(o) \/ LookStep(o) \/ AimStep(o) \/ EditStat(o) \/ EditRead(o)
           \/ SizeStep(o) \/ ScanStep(o) \/ Fail(o)
    PROVE  FilesInv'
  <1>1. SessionKept => SessionFits'
    BY DEF FilesInv, SessionFits, SessionKept
  <1>2. CASE InitStep(o)
    <2>1. StageFits(ops[o], "opened") /\ Running(o)
      BY <1>2, AtWork DEF InitStep, Doing, StageFits, Moments
    <2>2. QED
      BY <1>2, <2>1, GotoKeeps DEF InitStep, Doing, FilesKept, Moments
  <1>3. CASE ListStep(o)
    <2>1. Running(o) /\ ops[o] \in Underway /\ StageFits(ops[o], "listed") /\ ops[o].at = NoOp
      BY <1>3, AtWork DEF ListStep, Doing, StageFits, Moments
    <2> DEFINE r == [ops[o] EXCEPT !.stage = "listed"]
    <2>2. r \in Underway /\ r.at = NoOp
      BY <2>1, StageChange DEF Moments
    <2>3. CASE End(o)
      BY <1>1, <1>3, <2>1, <2>3, EndKeeps DEF ListStep, FilesKept
    <2>4. CASE ~End(o)
      <3>1. ops' = [ops EXCEPT ![o] = r] /\ Unlocked(o) /\ UNCHANGED tree /\ SessionFits'
        BY <1>1, <1>3, <2>4 DEF ListStep, FilesKept
      <3> HIDE DEF r
      <3>2. QED
        BY <2>2, <3>1, SoloKeeps DEF OpValues
    <2>5. QED
      BY <2>3, <2>4
  <1>4. CASE LookStep(o)
    BY <1>1, <1>4, AtWork, EndKeeps DEF LookStep, Doing, FilesKept, Moments
  <1>5. CASE AimStep(o)
    <2> DEFINE s == IF Local(o) THEN "mkdir" ELSE "open"
               p == IF IsDir(ops[o].path) THEN Join(ops[o].path) ELSE ops[o].path
               r == [ops[o] EXCEPT !.stage = s, !.path = p]
    <2>a. ops[o].stage = "aim" /\ (IsDir(ops[o].path) => ops[o].path \in Dirs)
      BY <1>5 DEF AimStep, Doing
    <2>b. ops[o] \in Underway /\ Running(o)
      BY <2>a, AtWork DEF Moments
    <2>1. ops[o] \in Underway /\ ops[o].stage = "aim" /\ s \in {"mkdir", "open"} /\ Running(o)
          /\ p \in {ops[o].path, Join(ops[o].path)} /\ (p = ops[o].path \/ ops[o].path \in Dirs)
      BY <2>a, <2>b
    <2>2. ops' = [ops EXCEPT ![o] = r] /\ lock' = lock /\ UNCHANGED tree /\ SessionFits'
      BY <1>1, <1>5 DEF AimStep, FilesKept
    <2> HIDE DEF s, p
    <2>3. r \in Underway
      BY <2>1, AimChange
    <2>4. r.stage = s /\ r.at = ops[o].at
      BY <2>1 DEF Underway, OpRecords
    <2> HIDE DEF r
    <2>5. r \in OpValues /\ lock' \in {lock, o} /\ (lock' = o => r.stage \notin {"init", "opened"})
      BY <2>1, <2>2, <2>3, <2>4 DEF OpValues
    <2>6. QED
      BY <2>1, <2>2, <2>3, <2>4, <2>5, SoloKeeps
  <1>6. CASE EditStat(o)
    <2>1. StageFits(ops[o], "edit") /\ StageFits(ops[o], "open") /\ Running(o)
      BY <1>6, AtWork DEF EditStat, Doing, StageFits, KindFits, Moments
    <2>2. QED
      BY <1>6, <2>1, GotoKeeps DEF EditStat, FilesKept, Moments
  <1>7. CASE EditRead(o)
    <2>1. StageFits(ops[o], "open") /\ Running(o)
      BY <1>7, AtWork DEF EditRead, Doing, StageFits, KindFits, Moments
    <2>2. QED
      BY <1>7, <2>1, GotoKeeps DEF EditRead, FilesKept, Moments
  <1>8. CASE SizeStep(o)
    <2>1. StageFits(ops[o], "delete") /\ StageFits(ops[o], "scan") /\ StageFits(ops[o], "rmdir") /\ Running(o)
      BY <1>8, AtWork DEF SizeStep, Doing, StageFits, KindFits, Moments
    <2>2. QED
      BY <1>8, <2>1, GotoKeeps DEF SizeStep, FilesKept, Moments
  <1>9. CASE ScanStep(o)
    <2> DEFINE e == {q \in Below(ops[o].path) : At(q) # Absent}
               r == [ops[o] EXCEPT !.stage = "clear", !.entries = e]
    <2>1. ops[o] \in Underway /\ ops[o].stage = "scan" /\ ops[o].path = ops[o].asked /\ Running(o)
      BY <1>9, AtWork DEF ScanStep, Doing, StageFits, KindFits, Moments
    <2>2. e \in SUBSET Below(ops[o].asked)
      BY <2>1
    <2>3. ops' = [ops EXCEPT ![o] = r] /\ lock' = lock /\ UNCHANGED tree /\ SessionFits'
      BY <1>1, <1>9 DEF ScanStep, FilesKept
    <2> HIDE DEF e
    <2>4. r \in Underway /\ r.at = ops[o].at /\ r.stage = "clear"
      BY <2>1, <2>2, EntriesChange
    <2> HIDE DEF r
    <2>5. QED
      BY <2>1, <2>3, <2>4, SoloKeeps DEF OpValues
  <1>10. CASE Fail(o)
    BY <1>1, <1>10, EndKeeps DEF Fail, FilesKept
  <1>11. QED
    BY <1>2, <1>3, <1>4, <1>5, <1>6, <1>7, <1>8, <1>9, <1>10

LEMMA DetachedFact ==
    ASSUME FilesInv, NEW q \in Ops, NEW place
    PROVE  /\ Detached(place, q) \in OpValues /\ (Detached(place, q) \in Underway <=> Running(q))
           /\ Running(q) => Detached(place, q).at = ops[q].at /\ Detached(place, q).stage = ops[q].stage
  <1>1. ops[q] \in OpValues /\ (ops[q] \in Underway <=> Running(q))
    BY RunningFact DEF FilesInv
  <1>2. Running(q) => LET r == [ops[q] EXCEPT !.keep = TRUE]
                      IN  r \in Underway /\ r.at = ops[q].at /\ r.stage = ops[q].stage
    BY <1>1, KeepChange
  <1>3. QED
    BY <1>1, <1>2 DEF Detached, OpValues

\* A new context detaches the listings that belong to the one before.
LEMMA StoreKeeps ==
    ASSUME FilesInv, NEW o \in Ops, InitStore(o) PROVE FilesInv'
  <1>1. Running(o) /\ UNCHANGED <<tree, connected, lock, kills>> /\ ~Working(o)
    BY AtWork DEF InitStore, FilesKept, Moments, Working
  <1>2. Done \in OpValues /\ Done \notin Underway
    BY DEF OpValues, Underway, OpRecords, Moments, Done
  <1>3. ops' \in [Ops -> OpValues]
    BY <1>2, DetachedFact DEF InitStore
  <1>4. ASSUME NEW q \in Ops, q # o
        PROVE  (Running(q)' <=> Running(q)) /\ (Running(q) => ops'[q].at = ops[q].at /\ ops'[q].stage = ops[q].stage)
    BY <1>4, <1>3, DetachedFact, RunningNextFact DEF InitStore
  <1>5. ~Running(o)'
    BY <1>2, <1>3, RunningNextFact DEF InitStore
  <1>6. LockFits'
    BY <1>1, <1>4 DEF FilesInv, LockFits, Working
  <1>7. HandlesFit'
    BY <1>1, <1>4, <1>5 DEF FilesInv, HandlesFit
  <1>8. SessionFits'
    BY <1>1, PathsFact DEF FilesInv, SessionFits, InitStore
  <1>9. QED
    BY <1>1, <1>3, <1>6, <1>7, <1>8 DEF FilesInv, TreeWhole

LEMMA MoveKeeps ==
    ASSUME FilesInv, NEW o \in Ops, MoveContext(o) PROVE FilesInv'
  <1>1. Running(o) /\ ops[o].path \in Dirs
    BY AtWork DEF MoveContext, Moments, StageFits
  <1>2. SessionFits'
    BY <1>1 DEF MoveContext, FilesInv, SessionFits
  <1>3. QED
    BY <1>1, <1>2, EndKeeps DEF MoveContext, FilesKept

LEMMA KillKeeps ==
    ASSUME FilesInv, KillSession PROVE FilesInv'
  <1>1. PICK place \in Places \ {"shell"} :
          /\ cwd' = [w \in Contexts |-> IF w = place THEN NoOp ELSE cwd[w]]
          /\ ops' = [q \in Ops |-> Detached(place, q)]
    BY DEF KillSession
  <1>2. UNCHANGED <<tree, lock>>
    BY DEF KillSession
  <1>3. ops' \in [Ops -> OpValues]
    BY <1>1, DetachedFact
  <1>4. ASSUME NEW q \in Ops
        PROVE  (Running(q)' <=> Running(q)) /\ (Running(q) => ops'[q].at = ops[q].at /\ ops'[q].stage = ops[q].stage)
    BY <1>1, <1>3, DetachedFact, RunningNextFact
  <1>5. LockFits'
    BY <1>2, <1>4 DEF FilesInv, LockFits, Working
  <1>6. HandlesFit'
    BY <1>2, <1>4 DEF FilesInv, HandlesFit
  <1>7. SessionFits'
    <2>1. cwd' \in [Contexts -> Dirs \cup {NoOp}]
      BY <1>1 DEF FilesInv, SessionFits
    <2>2. kills \in Nat /\ kills < MaxKills /\ kills' = kills + 1 /\ MaxKills \in Nat /\ connected' = FALSE
      BY FilesAssumption DEF FilesInv, SessionFits, KillSession
    <2>3. kills' \in 0..MaxKills
      BY <2>2
    <2>4. connected' \in BOOLEAN
      BY DEF KillSession
    <2>5. QED
      BY <2>1, <2>3, <2>4 DEF SessionFits
  <1>8. QED
    BY <1>2, <1>3, <1>5, <1>6, <1>7 DEF FilesInv, TreeWhole

-----------------------------------------------------------------------------
\* Requests that change the files.

\* One path changes, and no open handle is on a file that goes.
LEMMA ChangeKeeps ==
    ASSUME FilesInv, NEW o \in Ops, Running(o), NEW r \in OpValues, ops' = [ops EXCEPT ![o] = r], SessionKept,
           NEW p \in Paths, NEW v \in {Absent, Dir} \cup Bodies, tree' = [tree EXCEPT ![p] = v], TreeWhole(tree'),
           v \notin Bodies => ~IsFile(p),
           r \in Underway => r.at = NoOp \/ (r.at = p /\ v \in Bodies),
           (lock' = lock /\ r \in Underway /\ r.stage \notin {"init", "opened"}) \/ Unlocked(o)
    PROVE  FilesInv'
  <1>1. ops \in [Ops -> OpValues] /\ ops' \in [Ops -> OpValues] /\ ops'[o] = r /\ \A q \in Ops : q # o => ops'[q] = ops[q]
    BY DEF FilesInv
  <1>2. tree'[p] = v /\ \A q \in Paths : q # p => tree'[q] = tree[q]
    BY DEF FilesInv, TreeWhole, Trees
  <1>3. (Running(o)' <=> r \in Underway) /\ \A q \in Ops : q # o => (Running(q)' <=> Running(q)) /\ (Working(q)' <=> Working(q))
    BY <1>1, RunningNextFact DEF Running, Working
  <1>4. \A q \in Ops : Running(q) => ops[q].at \in Paths \cup {NoOp}
    BY RunningFact DEF FilesInv, Underway, OpRecords
  <1>5. HandlesFit'
    <2>1. ASSUME NEW q \in Ops, Running(q)', ops'[q].at # NoOp PROVE tree'[ops'[q].at] \in Bodies
      <3>1. CASE q = o
        BY <1>1, <1>2, <1>3, <2>1, <3>1
      <3>2. CASE q # o
        <4>1. tree[ops[q].at] \in Bodies /\ ops'[q].at = ops[q].at /\ ops[q].at \in Paths
          BY <1>1, <1>3, <1>4, <2>1, <3>2 DEF FilesInv, HandlesFit
        <4>2. p = ops[q].at => v \in Bodies
          BY <4>1, FileFact DEF FilesInv
        <4>3. QED
          BY <1>2, <4>1, <4>2
      <3>3. QED
        BY <3>1, <3>2
    <2>2. QED
      BY <2>1 DEF HandlesFit
  <1>6. (lock' = lock /\ (Working(o) => Working(o)')) \/ Unlocked(o)
    BY <1>1, <1>3 DEF Working
  <1>7. QED
    BY <1>1, <1>3, <1>5, <1>6, FileStepKeeps

\* A path changes under a request that reaches it, and the request goes on.
LEMMA ChangeLands ==
    ASSUME FilesInv, NEW o \in Ops, Running(o), ops'[o] # ops[o], NEW p \in Paths,
           \A q \in Paths : q # p => tree'[q] = tree[q],
           p \in Reach(ops[o]) \cup {ops[o].at},
           ops[o].overwrite \/ ops[o].at # NoOp \/ tree[p] = Absent
    PROVE  Lands(o)
  BY TouchesFact DEF Lands

\* Directories are made where nothing was, for the request itself or for its file.
LEMMA AfterFact ==
    ASSUME FilesInv, NEW o \in Ops, ops[o].stage \in {"mkdir", "walk"}, AfterDirs(o)
    PROVE  \E r \in OpValues : /\ ops' = [ops EXCEPT ![o] = r] /\ r # ops[o]
                               /\ r \in Underway => r.at = NoOp /\ r.stage \notin {"init", "opened"}
                               /\ (lock' = lock /\ r \in Underway) \/ Unlocked(o)
  <1>1. /\ ops[o] \in Underway /\ KindFits(ops[o]) /\ ops[o].at = NoOp /\ ops[o] # Done
        /\ ops[o].kind \in {"write", "upload", "edit", "mkdir", "rename"}
    BY AtWork DEF StageFits, Moments
  <1>2. CASE ops[o].kind = "mkdir"
    <2>1. Done \in OpValues /\ Done \notin Underway
      BY DEF OpValues, Underway, OpRecords, Moments, Done
    <2>2. ops' = [ops EXCEPT ![o] = Done] /\ Unlocked(o)
      BY <1>2 DEF AfterDirs, End
    <2>3. QED
      BY <1>1, <2>1, <2>2
  <1>3. CASE ops[o].kind # "mkdir"
    <2> DEFINE s == IF ops[o].kind = "rename" THEN "rename" ELSE "reopen"
               r == [ops[o] EXCEPT !.stage = s]
    <2>1. s \in Moments /\ StageFits(ops[o], s) /\ s \notin {"init", "opened", "mkdir", "walk"}
      BY <1>1, <1>3 DEF StageFits, Moments
    <2>2. ops' = [ops EXCEPT ![o] = r] /\ lock' = lock
      BY <1>3 DEF AfterDirs, Goto
    <2> HIDE DEF s
    <2>3. r \in Underway /\ r.stage = s /\ r.at = NoOp
      BY <1>1, <2>1, StageChange
    <2> HIDE DEF r
    <2>4. r \in OpValues /\ r # ops[o]
      BY <2>1, <2>3 DEF OpValues
    <2>5. QED
      BY <2>1, <2>2, <2>3, <2>4
  <1>4. QED
    BY <1>2, <1>3

LEMMA MakeStep ==
    ASSUME FilesInv, NEW o \in Ops, ops[o].stage \in {"mkdir", "walk"}, AfterDirs(o) \/ ops[o].stage = "walk",
           NEW r \in OpValues, ops' = [ops EXCEPT ![o] = r], r # ops[o], SessionKept,
           r \in Underway => r.at = NoOp /\ r.stage \notin {"init", "opened"},
           (lock' = lock /\ r \in Underway) \/ Unlocked(o),
           NEW p \in Reach(ops[o]) \cap Paths, CanCreate(p), tree' = [tree EXCEPT ![p] = Dir]
    PROVE  FilesInv' /\ Lands(o)
  <1>1. Running(o) /\ ops[o].at = NoOp /\ ops'[o] = r
    BY AtWork DEF FilesInv, Moments
  <1>2. TreeWhole(tree') /\ tree[p] = Absent /\ Dir \in {Absent, Dir} \cup Bodies /\ Dir \notin Bodies /\ ~IsFile(p)
    BY TreeSteps, BelowFact, NamesFact DEF FilesInv, CanCreate, IsFile
  <1>3. FilesInv'
    BY <1>1, <1>2, ChangeKeeps
  <1>4. \A q \in Paths : q # p => tree'[q] = tree[q]
    BY DEF FilesInv, TreeWhole, Trees
  <1>5. Lands(o)
    BY <1>1, <1>2, <1>4, ChangeLands
  <1>6. QED
    BY <1>3, <1>5

LEMMA MkdirKeeps ==
    ASSUME FilesInv, NEW o \in Ops, MkdirStep(o) PROVE FilesInv' /\ Lands(o)
  <1> DEFINE p == DirWanted(o)
  <1>1. /\ ops[o].stage = "mkdir" /\ ops[o] \in Underway /\ Running(o) /\ KindFits(ops[o]) /\ ops[o].at = NoOp
        /\ p \in Ways /\ (p \in Paths => p \in Reach(ops[o])) /\ SessionKept
    BY AtWork, WantedFact, WantedIsPath DEF MkdirStep, Doing, Moments
  <1>2. CASE CanCreate(p)
    <2>1. p \in Reach(ops[o]) \cap Paths /\ tree' = [tree EXCEPT ![p] = Dir] /\ AfterDirs(o)
      BY <1>1, <1>2, PathsFact DEF MkdirStep, CanCreate, Ways
    <2>2. PICK r \in OpValues : /\ ops' = [ops EXCEPT ![o] = r] /\ r # ops[o]
                                /\ r \in Underway => r.at = NoOp /\ r.stage \notin {"init", "opened"}
                                /\ (lock' = lock /\ r \in Underway) \/ Unlocked(o)
      BY <1>1, <2>1, AfterFact
    <2> HIDE DEF p
    <2>3. QED
      BY <1>1, <1>2, <2>1, <2>2, MakeStep
  <1>3. CASE ~CanCreate(p)
    <2> DEFINE t == Chain(p)
               r == [ops[o] EXCEPT !.stage = "walk", !.todo = t]
    <2>1. ops[o].parents /\ ops' = [ops EXCEPT ![o] = r] /\ UNCHANGED <<tree, lock>>
      BY <1>3 DEF MkdirStep
    <2>2. t \in Seq(Reach(ops[o]) \cap Paths)
      BY <1>1, <2>1, ChainFact
    <2>3. StageFits(ops[o], "walk") /\ "walk" \in Moments
      BY <1>1, <2>1, AtWork DEF StageFits, Moments
    <2> HIDE DEF t
    <2>4. r \in Underway /\ r.at = ops[o].at /\ r.stage = "walk"
      BY <1>1, <2>2, <2>3, WalkChange
    <2>5. SessionFits'
      BY <1>1 DEF FilesInv, SessionFits, SessionKept
    <2> HIDE DEF r
    <2>6. QED
      BY <1>1, <2>1, <2>4, <2>5, SoloKeeps DEF OpValues, Lands
  <1>4. QED
    BY <1>2, <1>3

LEMMA WalkKeeps ==
    ASSUME FilesInv, NEW o \in Ops, WalkStep(o) PROVE FilesInv' /\ Lands(o)
  <1> DEFINE S == Reach(ops[o]) \cap Paths
             todo == ops[o].todo
  <1>1. /\ ops[o].stage = "walk" /\ ops[o] \in Underway /\ ops[o] \in OpRecords /\ Running(o) /\ StageFits(ops[o], "walk")
        /\ ops[o].at = NoOp /\ todo \in Seq(S) /\ SessionKept
    BY AtWork DEF WalkStep, Doing, Moments
  <1>2. SessionFits'
    BY <1>1 DEF FilesInv, SessionFits, SessionKept
  <1>3. CASE todo = <<>>
    <2>1. UNCHANGED tree /\ AfterDirs(o)
      BY <1>3 DEF WalkStep
    <2>2. PICK r \in OpValues : /\ ops' = [ops EXCEPT ![o] = r] /\ r # ops[o]
                                /\ r \in Underway => r.at = NoOp /\ r.stage \notin {"init", "opened"}
                                /\ (lock' = lock /\ r \in Underway) \/ Unlocked(o)
      BY <1>1, <2>1, AfterFact
    <2>3. (lock' \in {lock, o} /\ r \in Underway /\ (lock' = o => r.stage \notin {"init", "opened"})) \/ Unlocked(o)
      BY <2>2
    <2>4. QED
      BY <1>2, <2>1, <2>2, <2>3, SoloKeeps DEF Lands
  <1>4. CASE todo # <<>>
    <2> DEFINE next == Head(todo)
               t == Tail(todo)
               r == [ops[o] EXCEPT !.stage = "walk", !.todo = t]
    <2>1. next \in S /\ t \in Seq(S) /\ Len(t) # Len(todo)
      BY <1>1, <1>4
    <2>2. /\ CanCreate(next) \/ IsDir(next)
          /\ tree' = IF CanCreate(next) THEN [tree EXCEPT ![next] = Dir] ELSE tree
          /\ ops' = [ops EXCEPT ![o].todo = t] /\ lock' = lock
      BY <1>4 DEF WalkStep
    <2> HIDE DEF next, t
    <2>3. ops' = [ops EXCEPT ![o] = r]
      <3>1. [ops[o] EXCEPT !.todo = t] = r
        BY <1>1 DEF OpRecords
      <3>2. QED
        BY <2>2, <3>1
    <2>4. r \in Underway /\ r.at = NoOp /\ r.stage = "walk" /\ r.todo = t
      BY <1>1, <2>1, WalkChange DEF Moments
    <2> HIDE DEF r
    <2>5. r \in OpValues /\ r # ops[o]
      BY <2>1, <2>4 DEF OpValues
    <2>6. CASE CanCreate(next)
      <3>1. tree' = [tree EXCEPT ![next] = Dir] /\ next \in Reach(ops[o]) \cap Paths
        BY <2>1, <2>2, <2>6
      <3>2. QED
        BY <1>1, <2>2, <2>3, <2>4, <2>5, <2>6, <3>1, MakeStep
    <2>7. CASE ~CanCreate(next)
      BY <1>2, <2>2, <2>3, <2>4, <2>5, <2>7, SoloKeeps DEF Lands
    <2>8. QED
      BY <2>6, <2>7
  <1>5. QED
    BY <1>3, <1>4

\* What is opened is the path of the request, and it is new unless the request may overwrite.
LEMMA OpenedKeeps ==
    ASSUME FilesInv, NEW o \in Ops, OpenStep(o) PROVE FilesInv' /\ Lands(o)
  <1> DEFINE p == ops[o].path
             r == [ops[o] EXCEPT !.stage = "writing", !.at = p]
  <1>1. /\ ops[o].stage \in {"open", "reopen"} /\ ops[o] \in Underway /\ Running(o) /\ KindFits(ops[o]) /\ ops[o].at = NoOp
        /\ ops[o].kind \in {"write", "upload", "edit"} /\ SessionKept
    BY AtWork DEF OpenStep, Doing, StageFits, Moments
  <1>2. p \in Paths /\ p \in Reach(ops[o])
    BY <1>1, PathsFact DEF KindFits, Reach
  <1>3. CASE CanOpen(p) /\ (ops[o].overwrite \/ At(p) = Absent)
    <2>1. tree' = [tree EXCEPT ![p] = "empty"] /\ ops' = [ops EXCEPT ![o] = r] /\ lock' = lock
      BY <1>3 DEF OpenStep, Created
    <2>2. TreeWhole(tree') /\ "empty" \in Bodies /\ (ops[o].overwrite \/ tree[p] = Absent)
      BY <1>2, <1>3, <2>1, TreeSteps, BelowFact, NamesFact DEF FilesInv
    <2> HIDE DEF p
    <2>3. r \in Underway /\ r.at = p /\ r.stage = "writing"
      BY <1>1, <1>2, CreatedChange
    <2> HIDE DEF r
    <2>4. r \in OpValues /\ ops'[o] # ops[o]
      BY <1>1, <2>1, <2>3 DEF OpValues, FilesInv
    <2>5. FilesInv'
      BY <1>1, <1>2, <2>1, <2>2, <2>3, <2>4, ChangeKeeps
    <2>6. \A q \in Paths : q # p => tree'[q] = tree[q]
      BY <2>1 DEF FilesInv, TreeWhole, Trees
    <2>7. Lands(o)
      BY <1>1, <1>2, <2>2, <2>4, <2>6, ChangeLands
    <2>8. QED
      BY <2>5, <2>7
  <1>4. CASE ~(CanOpen(p) /\ (ops[o].overwrite \/ At(p) = Absent))
    <2>1. ops[o].parents /\ Goto(o, "mkdir") /\ UNCHANGED tree
      BY <1>4 DEF OpenStep, FilesKept
    <2>2. StageFits(ops[o], "mkdir") /\ "mkdir" \in Moments
      BY <1>1, <2>1 DEF StageFits, Moments
    <2>3. QED
      BY <1>1, <2>1, <2>2, GotoKeeps DEF Lands
  <1>5. QED
    BY <1>3, <1>4

\* The content goes to the file that was opened, wherever that is by now.
LEMMA WriteKeeps ==
    ASSUME FilesInv, NEW o \in Ops, WriteStep(o) PROVE FilesInv' /\ Lands(o)
  <1> DEFINE p == ops[o].at
  <1>1. /\ ops[o].stage = "writing" /\ ops[o] \in OpRecords /\ Running(o) /\ SessionKept
        /\ ops' = [ops EXCEPT ![o] = Done] /\ Unlocked(o) /\ End(o) /\ ops'[o] # ops[o]
    BY AtWork DEF WriteStep, Doing, Moments, End, FilesInv
  <1>2. CASE p = NoOp
    BY <1>1, <1>2, EndKeeps DEF WriteStep, Lands, SessionKept, FilesInv, SessionFits
  <1>3. CASE p # NoOp
    <2>1. p \in Paths /\ tree[p] \in Bodies /\ tree' = [tree EXCEPT ![p] = o] /\ o \in Bodies
      BY <1>1, <1>3, NamesFact DEF WriteStep, OpRecords, FilesInv, HandlesFit
    <2>2. TreeWhole(tree')
      BY <2>1, FileFact, TreeSteps DEF FilesInv
    <2>3. Done \in OpValues /\ Done \notin Underway
      BY DEF OpValues, Underway, OpRecords, Moments, Done
    <2>4. FilesInv'
      BY <1>1, <2>1, <2>2, <2>3, ChangeKeeps
    <2>5. \A q \in Paths : q # p => tree'[q] = tree[q]
      BY <2>1 DEF FilesInv, TreeWhole, Trees
    <2>6. Lands(o)
      BY <1>1, <1>3, <2>1, <2>5, ChangeLands
    <2>7. QED
      BY <2>4, <2>6
  <1>4. QED
    BY <1>2, <1>3

LEMMA RmdirKeeps ==
    ASSUME FilesInv, NEW o \in Ops, RmdirStep(o) PROVE FilesInv' /\ Lands(o)
  <1> DEFINE p == ops[o].path
  <1>1. /\ ops[o].stage \in {"rmdir", "clear"} /\ ops[o] \in OpRecords /\ Running(o) /\ KindFits(ops[o]) /\ SessionKept
        /\ ops[o].kind = "delete" /\ ops' = [ops EXCEPT ![o] = Done] /\ Unlocked(o) /\ ops'[o] # ops[o]
    BY AtWork DEF RmdirStep, Doing, Moments, End, FilesInv, StageFits
  <1>2. /\ p \in Paths /\ p \in Reach(ops[o]) /\ IsDir(p) /\ tree' = [tree EXCEPT ![p] = Absent] /\ ops[o].overwrite
        /\ \A q \in Below(p) : At(q) = Absent
    BY <1>1 DEF KindFits, Reach, RmdirStep, Removed
  <1> HIDE DEF p
  <1>3. TreeWhole(tree') /\ ~IsFile(p) /\ Absent \in {Absent, Dir} \cup Bodies
    BY <1>2, TreeSteps DEF FilesInv, IsDir, IsFile
  <1>4. Done \in OpValues /\ Done \notin Underway
    BY DEF OpValues, Underway, OpRecords, Moments, Done
  <1>5. FilesInv'
    BY <1>1, <1>2, <1>3, <1>4, NamesFact, ChangeKeeps
  <1>6. \A q \in Paths : q # p => tree'[q] = tree[q]
    BY <1>2 DEF FilesInv, TreeWhole, Trees
  <1>7. Lands(o)
    BY <1>1, <1>2, <1>6, ChangeLands
  <1>8. QED
    BY <1>5, <1>7

-----------------------------------------------------------------------------
\* Steps that take the file away from under open handles.
LEMMA MovedFact ==
    ASSUME FilesInv, NEW q \in Ops, NEW from \in Paths, NEW to \in Paths \cup {NoOp}
    PROVE  /\ Moved(from, to, q) \in OpValues /\ (Moved(from, to, q) \in Underway <=> Running(q))
           /\ Running(q) => /\ Moved(from, to, q).stage = ops[q].stage
                            /\ Moved(from, to, q).at = IF ops[q].at = from THEN to ELSE ops[q].at
  <1>1. ops[q] \in OpValues /\ (ops[q] \in Underway <=> Running(q))
    BY RunningFact DEF FilesInv
  <1>2. Running(q) /\ ops[q].at = from => LET r == [ops[q] EXCEPT !.at = to]
                                          IN  r \in Underway /\ r.at = to /\ r.stage = ops[q].stage
    BY <1>1, HandleChange, PathsFact
  <1>3. QED
    BY <1>1, <1>2 DEF Moved, OpValues

\* A step after which every handle is where its file is.
LEMMA HandlesKeep ==
    ASSUME FilesInv, NEW o \in Ops, Running(o), ops' \in [Ops -> OpValues], SessionKept, TreeWhole(tree'),
           \A q \in Ops \ {o} : ops'[q] \in Underway <=> Running(q),
           \A q \in Ops \ {o} : Running(q) =>
             ops'[q].stage = ops[q].stage /\ (ops'[q].at # NoOp => tree'[ops'[q].at] \in Bodies),
           \/ ops'[o] = Done /\ Unlocked(o)
           \/ ops'[o] \in Underway /\ ops'[o].at = NoOp /\ ops'[o].stage = ops[o].stage /\ lock' = lock
    PROVE  FilesInv'
  <1>1. Done \notin Underway
    BY DEF Underway, OpRecords, Moments, Done
  <1>2. \A q \in Ops : Running(q)' <=> ops'[q] \in Underway
    BY RunningNextFact
  <1>3. HandlesFit'
    BY <1>1, <1>2 DEF HandlesFit
  <1>4. \A q \in Ops : q # o => (Working(q) => Working(q)')
    BY <1>2 DEF Working
  <1>5. (lock' = lock /\ (Working(o) => Working(o)')) \/ Unlocked(o)
    BY <1>2 DEF Working
  <1>6. QED
    BY <1>3, <1>4, <1>5, FileStepKeeps

\* One file or directory goes, and handles on it go nowhere.
LEMMA RemovalKeeps ==
    ASSUME FilesInv, NEW o \in Ops, Running(o), ops[o].kind = "delete", KindFits(ops[o]), ops[o].at = NoOp, SessionKept,
           NEW p \in Paths, p \in Reach(ops[o]), (\A q \in Below(p) : At(q) = Absent) \/ IsFile(p), Removed(p),
           NEW r \in OpValues, r # ops[o], ops' = [q \in Ops |-> IF q = o THEN r ELSE Moved(p, NoOp, q)],
           \/ r = Done /\ Unlocked(o)
           \/ r \in Underway /\ r.at = NoOp /\ r.stage = ops[o].stage /\ lock' = lock
    PROVE  FilesInv' /\ Lands(o)
  <1>1. tree' = [tree EXCEPT ![p] = Absent]
    BY DEF Removed
  <1>2. TreeWhole(tree') /\ \A q \in Paths : q # p => tree'[q] = tree[q]
    BY <1>1, TreeSteps DEF FilesInv, TreeWhole, Trees
  <1>3. ops' \in [Ops -> OpValues] /\ ops'[o] = r /\ \A q \in Ops \ {o} : ops'[q] = Moved(p, NoOp, q)
    BY MovedFact
  <1>4. \A q \in Ops \ {o} : ops'[q] \in Underway <=> Running(q)
    BY <1>3, MovedFact
  <1>5. ASSUME NEW q \in Ops \ {o}, Running(q)
        PROVE  ops'[q].stage = ops[q].stage /\ (ops'[q].at # NoOp => tree'[ops'[q].at] \in Bodies)
    <2>1. ops'[q].stage = ops[q].stage /\ ops'[q].at = IF ops[q].at = p THEN NoOp ELSE ops[q].at
      BY <1>3, <1>5, MovedFact
    <2>2. ops[q].at # NoOp => ops[q].at \in Paths /\ tree[ops[q].at] \in Bodies
      BY <1>5, RunningFact DEF FilesInv, HandlesFit, Underway, OpRecords
    <2>3. QED
      BY <1>2, <2>1, <2>2
  <1>6. FilesInv'
    BY <1>2, <1>3, <1>4, <1>5, HandlesKeep
  <1>7. ops[o].overwrite
    BY DEF KindFits
  <1>8. Lands(o)
    BY <1>2, <1>3, <1>7, ChangeLands
  <1>9. QED
    BY <1>6, <1>8

LEMMA DeleteKeeps ==
    ASSUME FilesInv, NEW o \in Ops, DeleteStep(o) PROVE FilesInv' /\ Lands(o)
  <1> DEFINE p == ops[o].path
  <1>1. /\ ops[o].stage = "delete" /\ ops[o] \in Underway /\ Running(o) /\ KindFits(ops[o]) /\ ops[o].kind = "delete"
        /\ ops[o].at = NoOp /\ ops[o] # Done /\ SessionKept /\ StageFits(ops[o], "delete")
    BY AtWork DEF DeleteStep, Doing, StageFits, Moments
  <1>2. p \in Paths /\ p \in Reach(ops[o])
    BY <1>1 DEF KindFits, Reach
  <1>3. CASE IsFile(p) /\ Removed(p) /\ Unlocked(o) /\ ops' = [q \in Ops |-> IF q = o THEN Done ELSE Moved(p, NoOp, q)]
    <2>1. Done \in OpValues
      BY DEF OpValues
    <2>2. QED
      BY <1>1, <1>2, <1>3, <2>1, RemovalKeeps
  <1>4. CASE FilesKept /\ Goto(o, IF ops[o].recursive THEN "scan" ELSE "rmdir")
    <2>1. StageFits(ops[o], "scan") /\ StageFits(ops[o], "rmdir") /\ {"scan", "rmdir"} \subseteq Moments
      BY <1>1 DEF StageFits, Moments
    <2>2. FilesInv'
      BY <1>1, <1>4, <2>1, GotoKeeps DEF FilesKept
    <2>3. QED
      BY <1>4, <2>2 DEF FilesKept, Lands
  <1>5. QED
    BY <1>3, <1>4 DEF DeleteStep

LEMMA ClearKeeps ==
    ASSUME FilesInv, NEW o \in Ops, ClearStep(o) PROVE FilesInv' /\ Lands(o)
  <1>1. /\ ops[o].stage = "clear" /\ ops[o] \in Underway /\ ops[o] \in OpRecords /\ Running(o) /\ KindFits(ops[o])
        /\ ops[o].kind = "delete" /\ ops[o].at = NoOp /\ SessionKept /\ lock' = lock
        /\ ops[o].entries \subseteq Below(ops[o].asked)
    BY AtWork DEF ClearStep, Doing, StageFits, Moments
  <1>2. PICK p \in ops[o].entries :
          /\ \A q \in Below(p) : At(q) = Absent
          /\ Removed(p)
          /\ ops' = [q \in Ops |-> IF q = o THEN [ops[o] EXCEPT !.entries = @ \ {p}] ELSE Moved(p, NoOp, q)]
    BY DEF ClearStep
  <1>3. p \in Paths /\ p \in Reach(ops[o])
    BY <1>1 DEF Reach, Below
  <1> DEFINE e == ops[o].entries \ {p}
             r == [ops[o] EXCEPT !.stage = "clear", !.entries = e]
  <1>4. [ops[o] EXCEPT !.entries = e] = r /\ e \in SUBSET Below(ops[o].asked) /\ e # ops[o].entries
    BY <1>1 DEF OpRecords
  <1>5. ops' = [q \in Ops |-> IF q = o THEN r ELSE Moved(p, NoOp, q)]
    BY <1>2, <1>4
  <1> HIDE DEF e
  <1>6. r \in Underway /\ r.at = NoOp /\ r.entries = e
    BY <1>1, <1>4, EntriesChange
  <1>7. r.stage = "clear"
    BY <1>1 DEF OpRecords
  <1> HIDE DEF r
  <1>8. r \in OpValues /\ r # ops[o]
    BY <1>4, <1>6 DEF OpValues
  <1>9. QED
    BY <1>1, <1>2, <1>3, <1>5, <1>6, <1>7, <1>8, RemovalKeeps

\* A handle on what is renamed follows it, and one on what is replaced goes nowhere.
LEMMA RenameKeeps ==
    ASSUME FilesInv, NEW o \in Ops, RenameStep(o) PROVE FilesInv' /\ Lands(o)
  <1> DEFINE from == ops[o].path
             to == ops[o].to
  <1>1. /\ ops[o].stage = "rename" /\ ops[o] \in Underway /\ Running(o) /\ KindFits(ops[o]) /\ ops[o].kind = "rename"
        /\ ops[o].at = NoOp /\ ops[o] # Done /\ SessionKept
    BY AtWork DEF RenameStep, Doing, StageFits, Moments
  <1>2. from \in Paths /\ to \in Paths /\ {from, to} \subseteq Reach(ops[o]) /\ ops[o].overwrite
    BY <1>1 DEF KindFits, Reach
  <1>3. /\ from # to /\ (At(to) = Absent \/ IsFile(to)) /\ IsDir(ParentOf(to)) /\ ParentOf(to) # from
        /\ \A q \in Below(from) : At(q) = Absent
        /\ tree' = [tree EXCEPT ![from] = Absent, ![to] = tree[from]]
        /\ Unlocked(o)
    BY DEF RenameStep
  <1>4. ops' = [q \in Ops |-> CASE q = o -> Done
                                [] Running(q) /\ ops[q].at = to -> Moved(to, NoOp, q)
                                [] OTHER -> Moved(from, to, q)]
    BY DEF RenameStep
  <1> HIDE DEF from, to
  <1>5. TreeWhole(tree')
    BY <1>2, <1>3, TreeMoves DEF FilesInv
  <1>6. tree'[to] = tree[from] /\ \A q \in Paths \ {from, to} : tree'[q] = tree[q]
    BY <1>2, <1>3 DEF FilesInv, TreeWhole, Trees
  <1>7. Done \in OpValues /\ ops'[o] = Done
    BY <1>1, <1>2, <1>4, PathsFact DEF OpValues
  <1>8. ops' \in [Ops -> OpValues]
    BY <1>2, <1>4, <1>7, MovedFact
  <1>9. ASSUME NEW q \in Ops \ {o}
        PROVE  /\ ops'[q] \in Underway <=> Running(q)
               /\ Running(q) => /\ ops'[q].stage = ops[q].stage
                                /\ ops'[q].at # NoOp => tree'[ops'[q].at] \in Bodies
    <2>1. CASE Running(q) /\ ops[q].at = to
      <3>1. ops'[q] = Moved(to, NoOp, q)
        BY <1>4, <2>1
      <3>2. QED
        BY <1>2, <2>1, <3>1, MovedFact
    <2>2. CASE ~(Running(q) /\ ops[q].at = to)
      <3>1. ops'[q] = Moved(from, to, q)
        BY <1>4, <2>2
      <3>2. /\ ops'[q] \in Underway <=> Running(q)
            /\ Running(q) => /\ ops'[q].stage = ops[q].stage
                             /\ ops'[q].at = IF ops[q].at = from THEN to ELSE ops[q].at
        BY <1>2, <3>1, MovedFact
      <3>3. Running(q) /\ ops[q].at # NoOp => ops[q].at \in Paths /\ tree[ops[q].at] \in Bodies
        BY RunningFact DEF FilesInv, HandlesFit, Underway, OpRecords
      <3>4. from # NoOp
        BY <1>2, PathsFact
      <3>5. QED
        BY <1>6, <2>2, <3>2, <3>3, <3>4
    <2>3. QED
      BY <2>1, <2>2
  <1>10. FilesInv'
    BY <1>1, <1>3, <1>5, <1>7, <1>8, <1>9, HandlesKeep
  <1>11. Lands(o)
    BY <1>1, <1>2, <1>6, <1>7, TouchesFact DEF Lands
  <1>12. QED
    BY <1>10, <1>11

-----------------------------------------------------------------------------
LEMMA ReadingIsQuiet ==
    ASSUME NEW o \in Ops,
           \/ WindowInit(o) \/ WindowList(o) \/ WindowRead(o) \/ WindowDownload(o)
           \/ WindowUpload(o) \/ WindowWrite(o) \/ WindowMkdir(o) \/ WindowDelete(o) \/ WindowRename(o)
           \/ ShellInit(o) \/ ShellList(o) \/ ShellRead(o) \/ ShellCopy(o) \/ ShellWrite(o)
           \/ ShellMkdir(o) \/ ShellDelete(o) \/ ShellRename(o)
           \/ DaemonInit(o) \/ DaemonList(o) \/ DaemonStat(o) \/ DaemonRead(o) \/ DaemonDownload(o)
           \/ DaemonUpload(o) \/ DaemonWrite(o) \/ DaemonAdd(o) \/ DaemonMkdir(o) \/ DaemonDelete(o)
           \/ DaemonRename(o)
           \/ AgentList(o) \/ AgentRead(o) \/ AgentDownload(o) \/ AgentUpload(o) \/ AgentWrite(o)
           \/ AgentAdd(o) \/ AgentEdit(o) \/ AgentMkdir(o) \/ AgentRemove(o) \/ AgentMove(o)
           \/ InitStep(o) \/ InitStore(o) \/ ListStep(o) \/ MoveContext(o) \/ LookStep(o)
           \/ AimStep(o) \/ EditStat(o) \/ EditRead(o) \/ SizeStep(o) \/ ScanStep(o) \/ Fail(o)
    PROVE  UNCHANGED tree
  BY DEF WindowInit, WindowList, WindowRead, WindowDownload, WindowUpload, WindowWrite, WindowMkdir, WindowDelete,
         WindowRename, Window, ShellInit, ShellList, ShellRead, ShellCopy, ShellWrite, ShellMkdir, ShellDelete, ShellRename,
         Shell, DaemonInit, DaemonList, DaemonStat, DaemonRead, DaemonDownload, DaemonUpload, DaemonWrite, DaemonAdd,
         DaemonMkdir, DaemonDelete, DaemonRename, Daemon, AgentList, AgentRead, AgentDownload, AgentUpload, AgentWrite,
         AgentAdd, AgentEdit, AgentMkdir, AgentRemove, AgentMove, Agent, Start, InitStep, InitStore, ListStep, MoveContext,
         LookStep, AimStep, EditStat, EditRead, SizeStep, ScanStep, Fail, FilesKept

LEMMA FilesStepKeeps ==
    ASSUME FilesInv, FilesNext PROVE FilesInv' /\ (tree' = tree \/ \E o \in Ops : Lands(o))
  <1>1. CASE KillSession
    BY <1>1, KillKeeps DEF KillSession
  <1>2. ASSUME NEW o \in Ops,
               \/ MkdirStep(o) \/ WalkStep(o) \/ OpenStep(o) \/ WriteStep(o) \/ RenameStep(o) \/ DeleteStep(o)
               \/ ClearStep(o) \/ RmdirStep(o)
        PROVE  FilesInv' /\ Lands(o)
    BY <1>2, MkdirKeeps, WalkKeeps, OpenedKeeps, WriteKeeps, RenameKeeps, DeleteKeeps, ClearKeeps, RmdirKeeps
  <1>3. QED
    BY <1>1, <1>2, ReadingIsQuiet, ReadingKeeps, StoreKeeps, MoveKeeps, WindowKeeps, ShellKeeps, DaemonKeeps, AgentKeeps
       DEF FilesNext

LEMMA FilesSafe == FilesSpec => []FilesInv
  <1>1. FilesInv /\ [FilesNext]_fileVars => FilesInv'
    <2> SUFFICES ASSUME FilesInv, [FilesNext]_fileVars PROVE FilesInv'
      OBVIOUS
    <2>1. CASE UNCHANGED fileVars
      BY <2>1 DEF fileVars, FilesInv, TreeWhole, SessionFits, LockFits, Working, Running, HandlesFit
    <2>2. QED
      BY <2>1, FilesStepKeeps
  <1>2. QED
    BY <1>1, FilesInvInit, PTL DEF FilesSpec

\* Files, contexts and requests are well-typed; what is there is in a directory; and the window's mutex is
\* with a request that runs, so a failed or cut off request never keeps it.
THEOREM FilesTypes == FilesSpec => []FilesTypeOK
  <1>1. FilesInv => FilesTypeOK
    <2> SUFFICES ASSUME FilesInv PROVE FilesTypeOK
      OBVIOUS
    <2>1. \A p \in Paths : At(p) # Absent => IsDir(ParentOf(p))
      BY TreeFact DEF FilesInv, TreeWhole
    <2>2. \A o \in Ops : Running(o) => ops[o].path \in Paths \cup Dirs /\ ops[o].place \in Places
      BY RunningFact DEF FilesInv, Underway, OpRecords, Ways
    <2>3. QED
      BY <2>1, <2>2 DEF FilesTypeOK, FilesInv, TreeWhole, Trees, SessionFits, LockFits, Working
  <1>2. QED
    BY <1>1, FilesSafe, PTL

\* No request touches anything but what it was asked for, whatever listings move the directory, whoever
\* kills the session and whatever other requests do in between; and a write that
\* must not overwrite never empties a file.
THEOREM RequestsLand == FilesSpec => LandsWhereAsked
  <1>1. ASSUME FilesInv, [FilesNext]_fileVars
        PROVE  [\A p \in Paths : tree'[p] # tree[p] =>
                  \E o \in Ops : /\ Running(o) /\ ops'[o] # ops[o]
                                 /\ p \in Touches(o) \cup {ops[o].at}
                                 /\ (~ops[o].overwrite /\ ops[o].at = NoOp) => tree[p] = Absent]_fileVars
    <2>1. tree' = tree \/ \E o \in Ops : Lands(o)
      BY <1>1, FilesStepKeeps DEF fileVars
    <2>2. QED
      BY <2>1 DEF Lands
  <1>2. QED
    BY <1>1, FilesSafe, PTL DEF FilesSpec, LandsWhereAsked

-----------------------------------------------------------------------------
(* The desktop. *)

\* The components of MCDesktop share no state, so what each does there it may do alone.
LEMMA PartsStep ==
    ASSUME [DesktopNext]_desktopVars
    PROVE  /\ [ShellsNext]_shellVars /\ [TabsNext]_tabsVars /\ [LineNext]_lineVars
           /\ [WsNext]_wsVars /\ [DbNext]_dbVars /\ [FilesNext]_fileVars
<1>1. CASE UNCHANGED desktopVars
  BY <1>1 DEF desktopVars
<1>2. CASE TabsStep
  BY <1>2 DEF TabsStep
<1>3. CASE LayoutStep
  BY <1>3 DEF LayoutStep
<1>4. CASE FilesStep
  BY <1>4 DEF FilesStep
<1>5. CASE LineStep
  BY <1>5 DEF LineStep
<1>6. CASE DatabasesStep
  BY <1>6 DEF DatabasesStep
<1>7. CASE ShellsStep
  BY <1>7 DEF ShellsStep
<1> QED
  BY <1>1, <1>2, <1>3, <1>4, <1>5, <1>6, <1>7 DEF DesktopNext

LEMMA DesktopParts ==
    DesktopSpec => ShellsSpec /\ TabsSpec /\ LineSpec /\ WsSpec /\ DbSpec /\ FilesSpec
<1>1. DesktopInit => ShellsInit /\ TabsInit /\ LineInit /\ WsInit /\ DbInit /\ FilesInit
  BY DEF DesktopInit
<1>2. [DesktopNext]_desktopVars
        => /\ [ShellsNext]_shellVars /\ [TabsNext]_tabsVars /\ [LineNext]_lineVars
           /\ [WsNext]_wsVars /\ [DbNext]_dbVars /\ [FilesNext]_fileVars
  BY PartsStep
<1> QED
  BY <1>1, <1>2, PTL DEF DesktopSpec, ShellsSpec, TabsSpec, LineSpec, WsSpec, DbSpec, FilesSpec

\* The state of the desktop that one run checks, part by part, is well-typed in every
\* instance of it.
THEOREM DesktopTypes == DesktopSpec => []DesktopTypeOK
<1>1. TabsTypeOK /\ WsTypeOK /\ FilesTypeOK /\ LineTypeOK /\ DbTypeOK /\ ShellTypeOK => DesktopTypeOK
  BY DEF DesktopTypeOK
<1> QED
  BY <1>1, DesktopParts, ShellTypes, TabsTypes, LineTypes, WorkspaceTypes, DatabasesTypes, FilesTypes, PTL

\* What that run checks of the desktop holds for every instance of it: edits, layouts, the
\* shared line, connections and shells, and of every step the tabs and the requests on files.
THEOREM DesktopIsSound ==
    DesktopSpec => /\ [](EditsAreSafe /\ LayoutFits /\ LineIsTracked /\ ConnectionsKept /\ ShellsEndCleanly)
                   /\ TabsKept /\ LandsWhereAsked
<1>1. /\ DesktopSpec => []EditsAreSafe /\ []LayoutFits
      /\ DesktopSpec => []LineIsTracked /\ []ConnectionsKept
      /\ DesktopSpec => []ShellsEndCleanly
  BY DesktopParts, EditsSurvive, LayoutFitsAlways, LineTracked, ConnectionsStay, EndedCleanly, PTL
<1>2. DesktopSpec => TabsKept
  BY DesktopParts, TabsStay, PTL
<1>3. DesktopSpec => LandsWhereAsked
  BY DesktopParts, RequestsLand, PTL
<1> QED
  BY <1>1, <1>2, <1>3, PTL
==============================================================================
