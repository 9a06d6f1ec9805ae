--------------------------- MODULE CpuStart_proofs ---------------------------
(***************************************************************************)
(* Proofs about the start of the CPUs, for any number of them.               *)
(*                                                                          *)
(* A CPU has built what the steps before its place build (Built).  Its       *)
(* interrupts are enabled, and it is counted, only behind places (Enabled,   *)
(* Sequence, Reached) at which it has all that is used through them.  The    *)
(* lock is held between its places (Locked), so that one CPU at a time has   *)
(* read a number, which then is still the total (Counting).                  *)
(***************************************************************************)
EXTENDS CpuStart, FiniteSetTheorems, TLAPS

(* A CPU has built what the steps it has done build. *)
Built == \A c \in Cpus : \A i \in 1 .. at[c] - 1 :
            Steps(c)[i] \in Parts => Steps(c)[i] \in has[c]

(* Interrupts are enabled behind the first "sti" of the boot CPU, and the "sti" of
   the others. *)
Enabled == \A c \in iff : IF c = Boot THEN at[c] > 5 ELSE at[c] > 14

(* The others start when the boot CPU sends the start-up messages. *)
Sequence == \A c \in Aps :
    /\ at[Boot] < 13 => at[c] = 0
    /\ c \in reset => at[c] = 0

Inside == {5, 6, 9, 10, 11, 12}

Locked == /\ apLock # Boot
          /\ \A c \in Aps : at[c] \in Inside <=> apLock = c

(* The number a CPU has read is the total while it has the lock. *)
Counting == \A c \in Aps :
    /\ at[c] \in {10, 11} => seq[c] = total
    /\ at[c] = 11 => ids[total + 1] = c

(* Messages are sent to, and tasks created on, CPUs that are counted. *)
Reached ==
    /\ \A c \in irr : c \in Counted /\ at[Boot] > 12
    /\ \A c \in Cpus : choice[c] # None => choice[c] \in Counted /\ at[Boot] > 12

(* The CPUs that are counted, by their place. *)
Past == {c \in Cpus : c = Boot \/ at[c] > 11}

CountedPast == Counted = Past /\ Cardinality(Counted) = total

IInv == /\ TypeOK /\ Built /\ Enabled /\ Sequence /\ Locked /\ Counting
        /\ CountedPast /\ Reached /\ FindsAll

-----------------------------------------------------------------------------
(* The steps of an application CPU by their place. *)
LEMMA ApPlaces ==
    ASSUME NEW i \in 1 .. 15
    PROVE  /\ ApInitProc[i] = "sti" <=> i = 14
           /\ ApInitProc[i] = "enter" <=> i \in {4, 8}
           /\ ApInitProc[i] = "read" <=> i = 9
           /\ ApInitProc[i] = "name" <=> i = 10
           /\ ApInitProc[i] = "count" <=> i = 11
           /\ ApInitProc[i] = "leave" <=> i \in {6, 12}
           /\ ApInitProc[i] = "run" <=> i = 15
           /\ ApInitProc[i] \in Parts <=> i \in {1, 2, 3, 5, 7, 13}
           /\ ApInitProc[i] \notin {"cli", "files", "init", "sipi", "resipi", "await"}
  BY SMT DEF ApInitProc, Parts

(* The steps of the boot CPU by their place. *)
LEMMA BootPlaces ==
    ASSUME NEW i \in 1 .. 16
    PROVE  /\ KernelEntry[i] = "sti" <=> i \in {5, 9}
           /\ KernelEntry[i] = "files" <=> i = 6
           /\ KernelEntry[i] = "cli" <=> i = 7
           /\ KernelEntry[i] = "init" <=> i \in {11, 12}
           /\ KernelEntry[i] = "sipi" <=> i = 13
           /\ KernelEntry[i] = "resipi" <=> i = 14
           /\ KernelEntry[i] = "await" <=> i = 15
           /\ KernelEntry[i] = "run" <=> i = 16
           /\ KernelEntry[i] \in Parts <=> i \in {1, 2, 3, 4, 8, 10}
           /\ KernelEntry[i] \notin {"enter", "read", "name", "count", "leave"}
  BY SMT DEF KernelEntry, Parts

(* Where a CPU is that is about to take a step. *)
LEMMA Place ==
    ASSUME TypeOK, NEW c \in Cpus, NEW s, At(c, s)
    PROVE  \/ c = Boot /\ at[c] \in 1 .. 16 /\ KernelEntry[at[c]] = s
           \/ c \in Aps /\ at[c] \in 1 .. 15 /\ ApInitProc[at[c]] = s
<1>1. at[c] \in 0 .. 16 /\ (c \in Aps => at[c] <= 15)  BY DEF TypeOK
<1>2. at[c] # 0 /\ Steps(c)[at[c]] = s  BY DEF At
<1>3. at[c] \in 1 .. 16 /\ (c \in Aps => at[c] \in 1 .. 15)  BY <1>1, <1>2
<1> QED  BY <1>2, <1>3 DEF Steps, Aps

Fits(s, b, i) ==
    /\ s = "sti" => IF b THEN i \in {5, 9} ELSE i = 14
    /\ s = "cli" => b /\ i = 7
    /\ s = "files" => b /\ i = 6
    /\ s = "await" => b /\ i = 15
    /\ s = "init" => b /\ i \in {11, 12}
    /\ s = "sipi" => b /\ i = 13
    /\ s = "resipi" => b /\ i = 14
    /\ s = "run" => IF b THEN i = 16 ELSE i = 15
    /\ s = "enter" => ~b /\ i \in {4, 8}
    /\ s = "read" => ~b /\ i = 9
    /\ s = "name" => ~b /\ i = 10
    /\ s = "count" => ~b /\ i = 11
    /\ s = "leave" => ~b /\ i \in {6, 12}
    /\ s \in Parts => IF b THEN i \in {1, 2, 3, 4, 8, 10} ELSE i \in {1, 2, 3, 5, 7, 13}

LEMMA Places ==
    ASSUME TypeOK, NEW c \in Cpus, NEW s, At(c, s)
    PROVE  Fits(s, c = Boot, at[c])
<1>1. CASE c = Boot
  <2>1. at[c] \in 1 .. 16 /\ KernelEntry[at[c]] = s  BY <1>1, Place DEF Aps
  <2> QED  BY <1>1, <2>1, BootPlaces DEF Fits
<1>2. CASE c # Boot
  <2>1. c \in Aps /\ at[c] \in 1 .. 15 /\ ApInitProc[at[c]] = s  BY <1>2, Place
  <2> QED  BY <1>2, <2>1, ApPlaces DEF Fits
<1> QED  BY <1>1, <1>2

(* A step that is not "run" is not the last one. *)
LEMMA AdvanceType ==
    ASSUME TypeOK, NEW c \in Cpus, Advance(c), at[c] # 0,
           IF c = Boot THEN at[c] < 16 ELSE at[c] < 15
    PROVE  at' \in [Cpus -> 0 .. 16] /\ at'[Boot] # 0 /\ \A d \in Aps : at'[d] <= 15
<1>1. Boot \in Cpus  BY StartAssumption
<1>2. at \in [Cpus -> 0 .. 16] /\ at[Boot] # 0 /\ \A d \in Aps : at[d] <= 15  BY DEF TypeOK
<1>3. at' = [at EXCEPT ![c] = at[c] + 1]  BY DEF Advance
<1>4. at[c] + 1 \in 0 .. 16  BY <1>2
<1>5. at' \in [Cpus -> 0 .. 16]  BY <1>2, <1>3, <1>4
<1>6. \A d \in Cpus : at'[d] = IF d = c THEN at[c] + 1 ELSE at[d]  BY <1>2, <1>3
<1> QED  BY <1>1, <1>2, <1>5, <1>6 DEF Aps

(* What a CPU has built stays built, and a step that builds adds it. *)
LEMMA BuiltAdvance ==
    ASSUME TypeOK, Built, NEW c \in Cpus, Advance(c),
           \A d \in Cpus : has[d] \subseteq has'[d],
           Steps(c)[at[c]] \in Parts => Steps(c)[at[c]] \in has'[c]
    PROVE  Built'
<1>1. at \in [Cpus -> 0 .. 16]  BY DEF TypeOK
<1>2. \A d \in Cpus : at'[d] = IF d = c THEN at[c] + 1 ELSE at[d]  BY <1>1 DEF Advance
<1> SUFFICES ASSUME NEW d \in Cpus, NEW i \in 1 .. at'[d] - 1, Steps(d)[i] \in Parts
             PROVE  Steps(d)[i] \in has'[d]
  BY DEF Built, Steps
<1>3. i \in 1 .. at[d] - 1 \/ (d = c /\ i = at[c])  BY <1>1, <1>2
<1>4. CASE i \in 1 .. at[d] - 1  BY <1>4 DEF Built
<1>5. CASE d = c /\ i = at[c]  BY <1>5
<1> QED  BY <1>3, <1>4, <1>5

(* A CPU has what the steps before its place build. *)
LEMMA HasBuilt ==
    ASSUME TypeOK, Built, NEW c \in Cpus
    PROVE  /\ c = Boot /\ at[c] > 1 => "list" \in has[c]
           /\ c = Boot /\ at[c] > 4 => {"list", "tables", "timers", "clock"} \subseteq has[c]
           /\ c = Boot /\ at[c] > 10 => Parts \subseteq has[c]
           /\ c # Boot /\ at[c] > 7 =>
                 {"list", "tables", "clock", "levels", "slots"} \subseteq has[c]
           /\ c # Boot /\ at[c] > 13 => Parts \subseteq has[c]
<1>1. at[c] \in 0 .. 16  BY DEF TypeOK
<1>2. \A i \in 1 .. at[c] - 1 : Steps(c)[i] \in Parts => Steps(c)[i] \in has[c]
  BY DEF Built
<1>3. CASE c = Boot
  <2>1. \A i \in 1 .. at[c] - 1 : KernelEntry[i] \in Parts => KernelEntry[i] \in has[c]
    BY <1>2, <1>3 DEF Steps
  <2>2. at[c] > 4 => {"list", "tables", "timers", "clock"} \subseteq has[c]
    <3> SUFFICES ASSUME at[c] > 4
                 PROVE  {"list", "tables", "timers", "clock"} \subseteq has[c]
      OBVIOUS
    <3>1. {1, 2, 3, 4} \subseteq 1 .. at[c] - 1  BY <1>1
    <3> QED  BY <2>1, <3>1 DEF KernelEntry, Parts
  <2>3. at[c] > 10 => Parts \subseteq has[c]
    <3> SUFFICES ASSUME at[c] > 10 PROVE Parts \subseteq has[c]
      OBVIOUS
    <3>1. {1, 2, 3, 4, 8, 10} \subseteq 1 .. at[c] - 1  BY <1>1
    <3> QED  BY <2>1, <3>1 DEF KernelEntry, Parts
  <2>4. at[c] > 1 => "list" \in has[c]
    <3> SUFFICES ASSUME at[c] > 1 PROVE "list" \in has[c]
      OBVIOUS
    <3>1. 1 \in 1 .. at[c] - 1  BY <1>1
    <3> QED  BY <2>1, <3>1 DEF KernelEntry, Parts
  <2> QED  BY <1>3, <2>2, <2>3, <2>4
<1>4. CASE c # Boot
  <2>1. \A i \in 1 .. at[c] - 1 : ApInitProc[i] \in Parts => ApInitProc[i] \in has[c]
    BY <1>2, <1>4 DEF Steps
  <2>2. at[c] > 7 => {"list", "tables", "clock", "levels", "slots"} \subseteq has[c]
    <3> SUFFICES ASSUME at[c] > 7
                 PROVE  {"list", "tables", "clock", "levels", "slots"} \subseteq has[c]
      OBVIOUS
    <3>1. {1, 2, 3, 5, 7} \subseteq 1 .. at[c] - 1  BY <1>1
    <3> QED  BY <2>1, <3>1 DEF ApInitProc, Parts
  <2>3. at[c] > 13 => Parts \subseteq has[c]
    <3> SUFFICES ASSUME at[c] > 13 PROVE Parts \subseteq has[c]
      OBVIOUS
    <3>1. {1, 2, 3, 5, 7, 13} \subseteq 1 .. at[c] - 1  BY <1>1
    <3> QED  BY <2>1, <3>1 DEF ApInitProc, Parts
  <2> QED  BY <1>4, <2>2, <2>3
<1> QED  BY <1>3, <1>4

(* Facts about the places after a CPU has gone on. *)
LEMMA Moved ==
    ASSUME TypeOK, NEW c \in Cpus, Advance(c)
    PROVE  /\ at[c] \in 0 .. 16
           /\ \A d \in Cpus : at[d] \in 0 .. 16 /\ at'[d] = IF d = c THEN at[c] + 1 ELSE at[d]
<1>1. at \in [Cpus -> 0 .. 16]  BY DEF TypeOK
<1> QED  BY <1>1 DEF Advance

(* The places that matter to the conjuncts of IInv other than TypeOK and Built: a CPU
   that goes on from a place at which it neither starts others, nor enables
   interrupts, nor counts itself disturbs none. *)
LEMMA Quiet ==
    ASSUME IInv, NEW c \in Cpus, Advance(c),
           IF c = Boot THEN at[c] # 12 ELSE at[c] \notin {0, 4, 6, 8, 9, 10, 11, 12},
           UNCHANGED <<iff, reset, counting, listed, asking>>
    PROVE  Enabled' /\ Sequence' /\ Locked' /\ Counting' /\ CountedPast' /\ Reached'
<1> USE DEF IInv
<1>1. Boot \in Cpus /\ c \in Cpus /\ Aps = Cpus \ {Boot}  BY StartAssumption DEF Aps
<1>2. /\ at[c] \in 0 .. 16
      /\ \A d \in Cpus : at[d] \in 0 .. 16 /\ at'[d] = IF d = c THEN at[c] + 1 ELSE at[d]
  BY Moved
<1>3. UNCHANGED <<iff, reset, ids, total, seq, apLock, irr, choice>>
  BY DEF counting, asking
<1>4. iff \subseteq Cpus /\ irr \subseteq Cpus  BY DEF TypeOK
<1>5. Counted' = Counted  BY <1>3 DEF Counted
<1>a. Enabled'  BY <1>1, <1>2, <1>3, <1>4 DEF Enabled
<1>b. Sequence'  BY <1>1, <1>2, <1>3 DEF Sequence
<1>c. Locked'  BY <1>1, <1>2, <1>3 DEF Locked, Inside
<1>d. Counting'  BY <1>1, <1>2, <1>3 DEF Counting
<1>e. CountedPast'
  <2>1. Past' = Past  BY <1>1, <1>2 DEF Past
  <2> QED  BY <2>1, <1>3, <1>5 DEF CountedPast
<1>f. Reached'  BY <1>1, <1>2, <1>3, <1>4, <1>5 DEF Reached
<1> QED  BY <1>a, <1>b, <1>c, <1>d, <1>e, <1>f

(* What is used is there, or excused. *)
LEMMA Found ==
    ASSUME IInv, NEW x \in Users, NEW S \in SUBSET (Cpus \X Structures), Uses(x, S),
           \A u \in S : u[2] \in has[u[1]] \/ <<x, u[1], u[2]>> \in Excused
    PROVE  FindsAll' /\ missed' \subseteq Users \X Cpus \X Structures
<1>1. missed \subseteq Excused /\ missed \subseteq Users \X Cpus \X Structures
  BY DEF IInv, FindsAll, TypeOK
<1>2. missed' = missed \cup {<<x, u[1], u[2]>> : u \in {v \in S : v[2] \notin has[v[1]]}}
  BY DEF Uses
<1>3. \A u \in S : u[1] \in Cpus /\ u[2] \in Structures
  OBVIOUS
<1>4. \A m \in missed' : m \in Excused /\ m \in Users \X Cpus \X Structures
  BY <1>1, <1>2, <1>3
<1> QED  BY <1>4 DEF FindsAll, Excused

LEMMA BuildKeeps ==
    ASSUME IInv, NEW c \in Cpus, NEW what \in Parts, NEW S \in SUBSET (Cpus \X Structures),
           Build(c, what, S),
           \A u \in S : u[2] \in has[u[1]] \/ <<what, u[1], u[2]>> \in Excused
    PROVE  IInv'
<1> USE DEF IInv
<1>1. /\ At(c, what) /\ Advance(c) /\ has' = [has EXCEPT ![c] = has[c] \cup {what}]
      /\ UNCHANGED <<iff, reset, counting, listed, asking>> /\ Uses(what, S)
  BY DEF Build
<1>2. at[c] # 0 /\ Steps(c)[at[c]] = what  BY <1>1 DEF At
<1>3. IF c = Boot THEN at[c] \in {1, 2, 3, 4, 8, 10} ELSE at[c] \in {1, 2, 3, 5, 7, 13}
  BY <1>1, Places DEF Fits
<1>4. has \in [Cpus -> SUBSET Parts]  BY DEF TypeOK
<1>8. FindsAll' /\ missed' \subseteq Users \X Cpus \X Structures
  <2>1. what \in Users  BY DEF Users
  <2> QED  BY <1>1, <2>1, Found
<1>5. TypeOK'
  <2>1. at' \in [Cpus -> 0 .. 16] /\ at'[Boot] # 0 /\ \A d \in Aps : at'[d] <= 15
    BY <1>1, <1>2, <1>3, AdvanceType
  <2>2. has' \in [Cpus -> SUBSET Parts]  BY <1>1, <1>4
  <2> QED  BY <1>1, <1>8, <2>1, <2>2 DEF TypeOK, counting, asking
<1>6. Built'
  <2>1. \A d \in Cpus : has[d] \subseteq has'[d]  BY <1>1, <1>4
  <2>2. what \in has'[c]  BY <1>1, <1>4
  <2> QED  BY <1>1, <1>2, <2>1, <2>2, BuiltAdvance
<1>7. IF c = Boot THEN at[c] # 12 ELSE at[c] \notin {0, 4, 6, 8, 9, 10, 11, 12}  BY <1>3
<1> QED  BY <1>1, <1>5, <1>6, <1>7, <1>8, Quiet

(* What __kMalloc charges is there, or excused, whatever a CPU builds with it. *)
LEMMA ChargedFound ==
    ASSUME IInv, NEW c \in Cpus, NEW what \in {"tables", "timers", "slots"}, At(c, what)
    PROVE  /\ Charged(c) \in SUBSET (Cpus \X Structures)
           /\ \A u \in Charged(c) : u[2] \in has[u[1]] \/ <<what, u[1], u[2]>> \in Excused
<1> USE DEF IInv
<1>1. "list" \in Structures /\ "zero" \in Structures /\ Boot \in Cpus
  BY StartAssumption DEF Structures, Parts
<1>2. Charged(c) \in SUBSET (Cpus \X Structures)  BY <1>1 DEF Charged
<1>3. CASE "list" \in has[c]  BY <1>2, <1>3 DEF Charged
<1>4. CASE "list" \notin has[c]
  <2>1. c # Boot /\ what # "timers"
    <3>1. at[c] \in 0 .. 16 /\ (c = Boot => ~(at[c] > 1)) /\ (c # Boot => ~(at[c] > 7))
      BY <1>4, HasBuilt DEF TypeOK
    <3>2. Fits(what, c = Boot, at[c])  BY Places
    <3>3. at[c] # 0 /\ Steps(c)[at[c]] = what  BY DEF At
    <3>4. c = Boot => at[c] = 1 /\ KernelEntry[1] = what  BY <3>1, <3>3 DEF Steps
    <3>5. c # Boot => at[c] \in 1 .. 7 /\ ApInitProc[at[c]] = what  BY <3>1, <3>3 DEF Steps
    <3>6. KernelEntry[1] = "list"  BY DEF KernelEntry
    <3>7. \A i \in 1 .. 7 : ApInitProc[i] # "timers"  BY DEF ApInitProc
    <3> QED  BY <3>4, <3>5, <3>6, <3>7
  <2>2. <<what, c, "list">> \in Excused /\ <<what, Boot, "zero">> \in Excused
    BY <1>1, <2>1 DEF Excused, Aps
  <2>3. Charged(c) = {<<c, "list">>, <<Boot, "zero">>}  BY <1>4 DEF Charged
  <2> QED  BY <1>2, <2>2, <2>3
<1> QED  BY <1>2, <1>3, <1>4

LEMMA BuildsKeep ==
    ASSUME IInv, NEW c \in Cpus,
           \/ InitTask0(c) \/ InitTables(c) \/ InitApicTimer(c) \/ InitLocalApicTimer(c)
           \/ InitTaskScheduleBuf(c) \/ InitSlots(c)
    PROVE  IInv'
<1>1. ASSUME NEW what \in {"tables", "timers", "slots"}, Build(c, what, Charged(c))
      PROVE  IInv'
  <2>1. At(c, what) /\ what \in Parts  BY <1>1 DEF Build, Parts
  <2> QED  BY <1>1, <2>1, ChargedFound, BuildKeeps
<1>2. CASE InitTask0(c)
  <2> DEFINE S == {c} \X (IF c = Boot THEN {"list"} ELSE {"list", "zero"})
  <2>1. S \in SUBSET (Cpus \X Structures) /\ "list" \in Parts  BY DEF Structures, Parts
  <2>2. \A u \in S : <<"list", u[1], u[2]>> \in Excused  BY DEF Excused
  <2>3. Build(c, "list", S)  BY <1>2 DEF InitTask0
  <2> HIDE DEF S
  <2> QED  BY <2>1, <2>2, <2>3, BuildKeeps
<1>3. CASE InitLocalApicTimer(c)
  <2>1. Build(c, "clock", {}) /\ "clock" \in Parts  BY <1>3 DEF InitLocalApicTimer, Parts
  <2> QED  BY <2>1, BuildKeeps
<1>4. CASE InitTaskScheduleBuf(c)
  <2> DEFINE S == {<<c, "zero">>}
  <2>1. S \in SUBSET (Cpus \X Structures) /\ "levels" \in Parts  BY DEF Structures, Parts
  <2>2. \A u \in S : <<"levels", u[1], u[2]>> \in Excused  BY DEF Excused
  <2>3. Build(c, "levels", S)  BY <1>4 DEF InitTaskScheduleBuf
  <2> HIDE DEF S
  <2> QED  BY <2>1, <2>2, <2>3, BuildKeeps
<1> QED  BY <1>1, <1>2, <1>3, <1>4 DEF InitTables, InitApicTimer, InitSlots

(* A step that builds nothing and leaves has alone keeps Built. *)
LEMMA BuiltStays ==
    ASSUME TypeOK, Built, NEW c \in Cpus, Advance(c), UNCHANGED has,
           Steps(c)[at[c]] \notin Parts
    PROVE  Built'
  BY BuiltAdvance

LEMMA FilesKeeps ==
    ASSUME IInv, NEW c \in Cpus, ReadFiles(c)
    PROVE  IInv'
<1> USE DEF IInv
<1>1. /\ At(c, "files") /\ Advance(c)
      /\ UNCHANGED <<has, iff, reset, counting, listed, asking, missed>>
  BY DEF ReadFiles
<1>2. at[c] # 0 /\ Steps(c)[at[c]] = "files"  BY <1>1 DEF At
<1>3. c = Boot /\ at[c] = 6  BY <1>1, Places DEF Fits
<1>4. at' \in [Cpus -> 0 .. 16] /\ at'[Boot] # 0 /\ \A d \in Aps : at'[d] <= 15
  BY <1>1, <1>2, <1>3, AdvanceType
<1>5. TypeOK'  BY <1>1, <1>4 DEF TypeOK, counting, asking
<1>6. Built'  BY <1>1, <1>2, BuiltStays DEF Parts
<1>7. FindsAll'  BY <1>1 DEF FindsAll
<1> QED  BY <1>1, <1>3, <1>5, <1>6, <1>7, Quiet

LEMMA AwaitKeeps ==
    ASSUME IInv, AwaitCpus
    PROVE  IInv'
<1> USE DEF IInv
<1>0. Boot \in Cpus  BY StartAssumption
<1>1. /\ At(Boot, "await") /\ Advance(Boot)
      /\ UNCHANGED <<has, iff, reset, counting, listed, asking, missed>>
  BY DEF AwaitCpus
<1>2. at[Boot] # 0 /\ Steps(Boot)[at[Boot]] = "await"  BY <1>1 DEF At
<1>3. at[Boot] = 15  BY <1>0, <1>1, Places DEF Fits
<1>4. at' \in [Cpus -> 0 .. 16] /\ at'[Boot] # 0 /\ \A d \in Aps : at'[d] <= 15
  BY <1>0, <1>1, <1>2, <1>3, AdvanceType
<1>5. TypeOK'  BY <1>1, <1>4 DEF TypeOK, counting, asking
<1>6. Built'  BY <1>0, <1>1, <1>2, BuiltStays DEF Parts
<1>7. FindsAll'  BY <1>1 DEF FindsAll
<1> QED  BY <1>0, <1>1, <1>3, <1>5, <1>6, <1>7, Quiet

LEMMA EnableKeeps ==
    ASSUME IInv, NEW c \in Cpus, Enable(c)
    PROVE  IInv'
<1> USE DEF IInv
<1>0. Boot \in Cpus /\ Aps = Cpus \ {Boot}  BY StartAssumption DEF Aps
<1>1. /\ At(c, "sti") /\ Advance(c) /\ iff' = iff \cup {c}
      /\ UNCHANGED <<has, reset, ids, total, seq, apLock, listed, mail, irr, tasks, choice, asked, missed>>
  BY DEF Enable, counting, asking
<1>2. at[c] # 0 /\ Steps(c)[at[c]] = "sti"  BY <1>1 DEF At
<1>3. IF c = Boot THEN at[c] \in {5, 9} ELSE at[c] = 14  BY <1>1, Places DEF Fits
<1>4. at' \in [Cpus -> 0 .. 16] /\ at'[Boot] # 0 /\ \A d \in Aps : at'[d] <= 15
  BY <1>1, <1>2, <1>3, AdvanceType
<1>5. TypeOK'  BY <1>1, <1>4 DEF TypeOK
<1>6. Built'  BY <1>1, <1>2, BuiltStays DEF Parts
<1>7. \A d \in Cpus : at[d] \in 0 .. 16 /\ at'[d] = IF d = c THEN at[c] + 1 ELSE at[d]
  BY <1>1, Moved
<1>8. iff \subseteq Cpus /\ irr \subseteq Cpus  BY DEF TypeOK
<1>9. Counted' = Counted  BY <1>1 DEF Counted
<1>a. Enabled'  BY <1>0, <1>1, <1>3, <1>7, <1>8 DEF Enabled
<1>b. Sequence'  BY <1>0, <1>1, <1>3, <1>7 DEF Sequence
<1>c. Locked'  BY <1>0, <1>1, <1>3, <1>7 DEF Locked, Inside
<1>d. Counting'  BY <1>0, <1>1, <1>3, <1>7 DEF Counting
<1>e. CountedPast'
  <2>1. Past' = Past  BY <1>0, <1>3, <1>7 DEF Past
  <2> QED  BY <2>1, <1>1, <1>9 DEF CountedPast
<1>f. Reached'  BY <1>0, <1>1, <1>3, <1>7, <1>8, <1>9 DEF Reached
<1>g. FindsAll'  BY <1>1 DEF FindsAll
<1> QED  BY <1>5, <1>6, <1>a, <1>b, <1>c, <1>d, <1>e, <1>f, <1>g

LEMMA DisableKeeps ==
    ASSUME IInv, NEW c \in Cpus, Disable(c)
    PROVE  IInv'
<1> USE DEF IInv
<1>0. Boot \in Cpus /\ Aps = Cpus \ {Boot}  BY StartAssumption DEF Aps
<1>1. /\ At(c, "cli") /\ Advance(c) /\ iff' = iff \ {c}
      /\ UNCHANGED <<has, reset, ids, total, seq, apLock, listed, mail, irr, tasks, choice, asked, missed>>
  BY DEF Disable, counting, asking
<1>2. at[c] # 0 /\ Steps(c)[at[c]] = "cli"  BY <1>1 DEF At
<1>3. c = Boot /\ at[c] = 7  BY <1>1, Places DEF Fits
<1>4. at' \in [Cpus -> 0 .. 16] /\ at'[Boot] # 0 /\ \A d \in Aps : at'[d] <= 15
  BY <1>1, <1>2, <1>3, AdvanceType
<1>5. TypeOK'  BY <1>1, <1>4 DEF TypeOK
<1>6. Built'  BY <1>1, <1>2, BuiltStays DEF Parts
<1>7. \A d \in Cpus : at[d] \in 0 .. 16 /\ at'[d] = IF d = c THEN at[c] + 1 ELSE at[d]
  BY <1>1, Moved
<1>8. iff \subseteq Cpus /\ irr \subseteq Cpus  BY DEF TypeOK
<1>9. Counted' = Counted  BY <1>1 DEF Counted
<1>a. Enabled'  BY <1>0, <1>1, <1>3, <1>7, <1>8 DEF Enabled
<1>b. Sequence'  BY <1>0, <1>1, <1>3, <1>7 DEF Sequence
<1>c. Locked'  BY <1>0, <1>1, <1>3, <1>7 DEF Locked, Inside
<1>d. Counting'  BY <1>0, <1>1, <1>3, <1>7 DEF Counting
<1>e. CountedPast'
  <2>1. Past' = Past  BY <1>0, <1>3, <1>7 DEF Past
  <2> QED  BY <2>1, <1>1, <1>9 DEF CountedPast
<1>f. Reached'  BY <1>0, <1>1, <1>3, <1>7, <1>8, <1>9 DEF Reached
<1>g. FindsAll'  BY <1>1 DEF FindsAll
<1> QED  BY <1>5, <1>6, <1>a, <1>b, <1>c, <1>d, <1>e, <1>f, <1>g

LEMMA InitKeeps ==
    ASSUME IInv, SendInit
    PROVE  IInv'
<1> USE DEF IInv
<1>0. Boot \in Cpus /\ Aps = Cpus \ {Boot}  BY StartAssumption DEF Aps
<1>1. /\ At(Boot, "init") /\ Advance(Boot) /\ reset' = Aps
      /\ UNCHANGED <<has, iff, ids, total, seq, apLock, listed, mail, irr, tasks, choice, asked, missed>>
  BY DEF SendInit, counting, asking
<1>2. at[Boot] # 0 /\ Steps(Boot)[at[Boot]] = "init"  BY <1>1 DEF At
<1>3. at[Boot] \in {11, 12}  BY <1>0, <1>1, Places DEF Fits
<1>4. at' \in [Cpus -> 0 .. 16] /\ at'[Boot] # 0 /\ \A d \in Aps : at'[d] <= 15
  BY <1>0, <1>1, <1>2, <1>3, AdvanceType
<1>5. TypeOK'  BY <1>1, <1>4 DEF TypeOK
<1>6. Built'  BY <1>0, <1>1, <1>2, BuiltStays DEF Parts
<1>7. \A d \in Cpus : at[d] \in 0 .. 16 /\ at'[d] = IF d = Boot THEN at[Boot] + 1 ELSE at[d]
  BY <1>0, <1>1, Moved
<1>8. iff \subseteq Cpus /\ irr \subseteq Cpus  BY DEF TypeOK
<1>9. Counted' = Counted  BY <1>1 DEF Counted
<1>a. Enabled'  BY <1>0, <1>1, <1>3, <1>7, <1>8 DEF Enabled
<1>b. Sequence'  BY <1>0, <1>1, <1>3, <1>7 DEF Sequence
<1>c. Locked'  BY <1>0, <1>1, <1>3, <1>7 DEF Locked, Inside
<1>d. Counting'  BY <1>0, <1>1, <1>3, <1>7 DEF Counting
<1>e. CountedPast'
  <2>1. Past' = Past  BY <1>0, <1>3, <1>7 DEF Past
  <2> QED  BY <2>1, <1>1, <1>9 DEF CountedPast
<1>f. Reached'  BY <1>0, <1>1, <1>3, <1>7, <1>8, <1>9 DEF Reached
<1>g. FindsAll'  BY <1>1 DEF FindsAll
<1> QED  BY <1>5, <1>6, <1>a, <1>b, <1>c, <1>d, <1>e, <1>f, <1>g

(* CPUs that wait for a start-up message are at no place yet. *)
LEMMA WakeKeeps ==
    ASSUME IInv, at[Boot] \in {13, 14}, NEW S \in SUBSET reset, Wake(S)
    PROVE  IInv'
<1> USE DEF IInv
<1>0. Boot \in Cpus /\ Aps = Cpus \ {Boot}  BY StartAssumption DEF Aps
<1>1. /\ at' = [c \in Cpus |-> IF c \in S THEN 1 ELSE IF c = Boot THEN at[c] + 1 ELSE at[c]]
      /\ reset' = reset \ S
      /\ UNCHANGED <<has, iff, ids, total, seq, apLock, listed, mail, irr, tasks, choice, asked, missed>>
  BY DEF Wake, counting, asking
<1>2. at \in [Cpus -> 0 .. 16] /\ \A d \in Aps : at[d] <= 15  BY DEF TypeOK
<1>3. S \subseteq Aps /\ Boot \notin S  BY <1>0 DEF TypeOK
<1>4. \A d \in S : at[d] = 0  BY <1>0, <1>3 DEF Sequence
<1>7. \A d \in Cpus : /\ at[d] \in 0 .. 16
                     /\ at'[d] = IF d \in S THEN 1 ELSE IF d = Boot THEN at[d] + 1 ELSE at[d]
  BY <1>1, <1>2
<1>5. TypeOK'
  <2>1. at' \in [Cpus -> 0 .. 16]
    <3>1. \A d \in Cpus :
            (IF d \in S THEN 1 ELSE IF d = Boot THEN at[d] + 1 ELSE at[d]) \in 0 .. 16
      BY <1>7
    <3> QED  BY <3>1, <1>1
  <2>2. at'[Boot] # 0 /\ \A d \in Aps : at'[d] <= 15  BY <1>0, <1>2, <1>3, <1>7
  <2> QED  BY <1>1, <2>1, <2>2 DEF TypeOK
<1>6. Built'
  <2> SUFFICES ASSUME NEW d \in Cpus, NEW i \in 1 .. at'[d] - 1, Steps(d)[i] \in Parts
               PROVE  Steps(d)[i] \in has[d]
    BY <1>1 DEF Built, Steps
  <2>1. d \notin S  BY <1>7
  <2>2. i \in 1 .. at[d] - 1 \/ (d = Boot /\ i \in {13, 14})  BY <2>1, <1>7
  <2>3. CASE i \in 1 .. at[d] - 1  BY <2>3 DEF Built
  <2>4. CASE d = Boot /\ i \in {13, 14}
    <3>1. KernelEntry[i] \notin Parts  BY <2>4, BootPlaces
    <3> QED  BY <2>4, <3>1 DEF Steps
  <2> QED  BY <2>2, <2>3, <2>4
<1>8. iff \subseteq Cpus /\ irr \subseteq Cpus  BY DEF TypeOK
<1>9. Counted' = Counted  BY <1>1 DEF Counted
<1>a. Enabled'  BY <1>0, <1>1, <1>3, <1>4, <1>7, <1>8 DEF Enabled
<1>b. Sequence'  BY <1>0, <1>1, <1>3, <1>7 DEF Sequence
<1>c. Locked'  BY <1>0, <1>1, <1>3, <1>4, <1>7 DEF Locked, Inside
<1>d. Counting'  BY <1>0, <1>1, <1>3, <1>4, <1>7 DEF Counting
<1>e. CountedPast'
  <2>1. Past' = Past  BY <1>0, <1>3, <1>4, <1>7 DEF Past
  <2> QED  BY <2>1, <1>1, <1>9 DEF CountedPast
<1>f. Reached'  BY <1>0, <1>1, <1>3, <1>7, <1>8, <1>9 DEF Reached
<1>g. FindsAll'  BY <1>1 DEF FindsAll
<1> QED  BY <1>5, <1>6, <1>a, <1>b, <1>c, <1>d, <1>e, <1>f, <1>g

LEMMA StartUpKeeps ==
    ASSUME IInv, SendStartUp
    PROVE  IInv'
<1> USE DEF IInv
<1>0. Boot \in Cpus  BY StartAssumption
<1>1. CASE At(Boot, "sipi") /\ \E S \in SUBSET reset : Wake(S)
  <2>1. at[Boot] = 13  BY <1>0, <1>1, Places DEF Fits
  <2> QED  BY <1>1, <2>1, WakeKeeps
<1>2. CASE At(Boot, "resipi") /\ Wake(reset)
  <2>1. at[Boot] = 14  BY <1>0, <1>2, Places DEF Fits
  <2> QED  BY <1>2, <2>1, WakeKeeps
<1> QED  BY <1>1, <1>2 DEF SendStartUp

LEMMA EnterKeeps ==
    ASSUME IInv, NEW c \in Cpus, EnterApLock(c)
    PROVE  IInv'
<1> USE DEF IInv
<1>0. Boot \in Cpus /\ Aps = Cpus \ {Boot} /\ None \notin Cpus  BY StartAssumption DEF Aps
<1>1. /\ At(c, "enter") /\ Advance(c) /\ apLock = None /\ apLock' = c
      /\ UNCHANGED <<has, iff, reset, ids, total, seq, listed, mail, irr, tasks, choice, asked, missed>>
  BY DEF EnterApLock, asking
<1>2. at[c] # 0 /\ Steps(c)[at[c]] = "enter"  BY <1>1 DEF At
<1>3. c \in Aps /\ c # Boot /\ at[c] \in {4, 8}  BY <1>0, <1>1, Places DEF Fits
<1>4. at' \in [Cpus -> 0 .. 16] /\ at'[Boot] # 0 /\ \A d \in Aps : at'[d] <= 15
  BY <1>1, <1>2, <1>3, AdvanceType
<1>6. Built'  BY <1>1, <1>2, BuiltStays DEF Parts
<1>7. \A d \in Cpus : at[d] \in 0 .. 16 /\ at'[d] = IF d = c THEN at[c] + 1 ELSE at[d]
  BY <1>1, Moved
<1>8. iff \subseteq Cpus /\ irr \subseteq Cpus  BY DEF TypeOK
<1>5. TypeOK'  BY <1>1, <1>4 DEF TypeOK
<1>d. Counting'  BY <1>0, <1>1, <1>3, <1>7 DEF Counting
<1>9. Counted' = Counted  BY <1>1 DEF Counted
<1>c. Locked'  BY <1>0, <1>1, <1>3, <1>7 DEF Locked, Inside
<1>e. CountedPast'
  <2>1. Past' = Past  BY <1>0, <1>3, <1>7 DEF Past
  <2> QED  BY <2>1, <1>1, <1>9 DEF CountedPast
<1>f. Reached'  BY <1>0, <1>1, <1>3, <1>7, <1>8, <1>9 DEF Reached
<1>a. Enabled'  BY <1>0, <1>1, <1>3, <1>7, <1>8 DEF Enabled
<1>b. Sequence'  BY <1>0, <1>1, <1>3, <1>7 DEF Sequence
<1>g. FindsAll'  BY <1>1 DEF FindsAll
<1> QED  BY <1>5, <1>6, <1>a, <1>b, <1>c, <1>d, <1>e, <1>f, <1>g

LEMMA LeaveKeeps ==
    ASSUME IInv, NEW c \in Cpus, LeaveApLock(c)
    PROVE  IInv'
<1> USE DEF IInv
<1>0. Boot \in Cpus /\ Aps = Cpus \ {Boot} /\ None \notin Cpus  BY StartAssumption DEF Aps
<1>1. /\ At(c, "leave") /\ Advance(c) /\ apLock' = None
      /\ UNCHANGED <<has, iff, reset, ids, total, seq, listed, mail, irr, tasks, choice, asked, missed>>
  BY DEF LeaveApLock, asking
<1>2. at[c] # 0 /\ Steps(c)[at[c]] = "leave"  BY <1>1 DEF At
<1>3. c \in Aps /\ c # Boot /\ at[c] \in {6, 12}  BY <1>0, <1>1, Places DEF Fits
<1>4. at' \in [Cpus -> 0 .. 16] /\ at'[Boot] # 0 /\ \A d \in Aps : at'[d] <= 15
  BY <1>1, <1>2, <1>3, AdvanceType
<1>6. Built'  BY <1>1, <1>2, BuiltStays DEF Parts
<1>7. \A d \in Cpus : at[d] \in 0 .. 16 /\ at'[d] = IF d = c THEN at[c] + 1 ELSE at[d]
  BY <1>1, Moved
<1>8. iff \subseteq Cpus /\ irr \subseteq Cpus  BY DEF TypeOK
<1>5. TypeOK'  BY <1>1, <1>4 DEF TypeOK
<1>d. Counting'  BY <1>0, <1>1, <1>3, <1>7 DEF Counting
<1>9. Counted' = Counted  BY <1>1 DEF Counted
<1>c. Locked'  BY <1>0, <1>1, <1>3, <1>7 DEF Locked, Inside
<1>e. CountedPast'
  <2>1. Past' = Past  BY <1>0, <1>3, <1>7 DEF Past
  <2> QED  BY <2>1, <1>1, <1>9 DEF CountedPast
<1>f. Reached'  BY <1>0, <1>1, <1>3, <1>7, <1>8, <1>9 DEF Reached
<1>a. Enabled'  BY <1>0, <1>1, <1>3, <1>7, <1>8 DEF Enabled
<1>b. Sequence'  BY <1>0, <1>1, <1>3, <1>7 DEF Sequence
<1>g. FindsAll'  BY <1>1 DEF FindsAll
<1> QED  BY <1>5, <1>6, <1>a, <1>b, <1>c, <1>d, <1>e, <1>f, <1>g

LEMMA ReadKeeps ==
    ASSUME IInv, NEW c \in Cpus, ReadTotal(c)
    PROVE  IInv'
<1> USE DEF IInv
<1>0. Boot \in Cpus /\ Aps = Cpus \ {Boot} /\ None \notin Cpus  BY StartAssumption DEF Aps
<1>1. /\ At(c, "read") /\ Advance(c) /\ seq' = [seq EXCEPT ![c] = total]
      /\ UNCHANGED <<has, iff, reset, ids, total, apLock, listed, mail, irr, tasks, choice, asked, missed>>
  BY DEF ReadTotal, asking
<1>2. at[c] # 0 /\ Steps(c)[at[c]] = "read"  BY <1>1 DEF At
<1>3. c \in Aps /\ c # Boot /\ at[c] = 9  BY <1>0, <1>1, Places DEF Fits
<1>4. at' \in [Cpus -> 0 .. 16] /\ at'[Boot] # 0 /\ \A d \in Aps : at'[d] <= 15
  BY <1>1, <1>2, <1>3, AdvanceType
<1>6. Built'  BY <1>1, <1>2, BuiltStays DEF Parts
<1>7. \A d \in Cpus : at[d] \in 0 .. 16 /\ at'[d] = IF d = c THEN at[c] + 1 ELSE at[d]
  BY <1>1, Moved
<1>8. iff \subseteq Cpus /\ irr \subseteq Cpus  BY DEF TypeOK
<1>x. seq \in [Cpus -> 0 .. N] /\ total \in 0 .. N  BY DEF TypeOK
<1>y. seq' \in [Cpus -> 0 .. N]  BY <1>1, <1>x
<1>5. TypeOK'  BY <1>1, <1>4, <1>y DEF TypeOK
<1>d. Counting'
  <2>1. \A d \in Cpus : seq'[d] = IF d = c THEN total ELSE seq[d]  BY <1>1, <1>x
  <2> QED  BY <1>0, <1>1, <1>3, <1>7, <2>1 DEF Counting
<1>9. Counted' = Counted  BY <1>1 DEF Counted
<1>c. Locked'  BY <1>0, <1>1, <1>3, <1>7 DEF Locked, Inside
<1>e. CountedPast'
  <2>1. Past' = Past  BY <1>0, <1>3, <1>7 DEF Past
  <2> QED  BY <2>1, <1>1, <1>9 DEF CountedPast
<1>f. Reached'  BY <1>0, <1>1, <1>3, <1>7, <1>8, <1>9 DEF Reached
<1>a. Enabled'  BY <1>0, <1>1, <1>3, <1>7, <1>8 DEF Enabled
<1>b. Sequence'  BY <1>0, <1>1, <1>3, <1>7 DEF Sequence
<1>g. FindsAll'  BY <1>1 DEF FindsAll
<1> QED  BY <1>5, <1>6, <1>a, <1>b, <1>c, <1>d, <1>e, <1>f, <1>g

(* While a CPU is not counted there is room for its name. *)
LEMMA RoomForName ==
    ASSUME IInv, NEW c \in Aps, at[c] <= 11
    PROVE  /\ c \notin Counted /\ IsFiniteSet(Counted) /\ total + 1 \in 1 .. N
<1> USE DEF IInv
<1>1. c \in Cpus /\ c # Boot /\ at[c] \in 0 .. 16  BY DEF Aps, TypeOK
<1>2. c \notin Counted  BY <1>1 DEF CountedPast, Past
<1>3. Counted \cup {c} \subseteq Cpus  BY <1>1 DEF CountedPast, Past
<1>4. IsFiniteSet(Counted)  BY <1>3, StartAssumption, FS_Subset
<1>5. Cardinality(Counted \cup {c}) = total + 1  BY <1>2, <1>4, FS_AddElement DEF CountedPast
<1>6. Cardinality(Counted \cup {c}) <= N  BY <1>3, StartAssumption, FS_Subset DEF N
<1>7. total \in 1 .. N /\ N \in Nat  BY StartAssumption, FS_CardinalityType DEF TypeOK, N
<1> QED  BY <1>2, <1>4, <1>5, <1>6, <1>7

LEMMA NameKeeps ==
    ASSUME IInv, NEW c \in Cpus, NameSelf(c)
    PROVE  IInv'
<1> USE DEF IInv
<1>0. Boot \in Cpus /\ Aps = Cpus \ {Boot} /\ None \notin Cpus  BY StartAssumption DEF Aps
<1>1. /\ At(c, "name") /\ Advance(c) /\ ids' = [ids EXCEPT ![seq[c] + 1] = c]
      /\ UNCHANGED <<has, iff, reset, total, seq, apLock, listed, mail, irr, tasks, choice, asked, missed>>
  BY DEF NameSelf, asking
<1>2. at[c] # 0 /\ Steps(c)[at[c]] = "name"  BY <1>1 DEF At
<1>3. c \in Aps /\ c # Boot /\ at[c] = 10  BY <1>0, <1>1, Places DEF Fits
<1>4. at' \in [Cpus -> 0 .. 16] /\ at'[Boot] # 0 /\ \A d \in Aps : at'[d] <= 15
  BY <1>1, <1>2, <1>3, AdvanceType
<1>6. Built'  BY <1>1, <1>2, BuiltStays DEF Parts
<1>7. \A d \in Cpus : at[d] \in 0 .. 16 /\ at'[d] = IF d = c THEN at[c] + 1 ELSE at[d]
  BY <1>1, Moved
<1>8. iff \subseteq Cpus /\ irr \subseteq Cpus  BY DEF TypeOK
<1>w. seq[c] = total /\ total + 1 \in 1 .. N /\ total \in 1 .. N
  <2>1. at[c] <= 11  BY <1>3
  <2>2. total + 1 \in 1 .. N  BY <1>3, <2>1, RoomForName
  <2>3. seq[c] = total  BY <1>3 DEF Counting
  <2> QED  BY <2>2, <2>3 DEF TypeOK
<1>x. ids \in [1 .. N -> Cpus \cup {None}]  BY DEF TypeOK
<1>y. /\ ids' \in [1 .. N -> Cpus \cup {None}] /\ ids'[total + 1] = c
      /\ \A i \in 1 .. total : ids'[i] = ids[i]
  BY <1>1, <1>w, <1>x
<1>5. TypeOK'  BY <1>1, <1>4, <1>y DEF TypeOK
<1>9. Counted' = Counted  BY <1>1, <1>y DEF Counted
<1>c. Locked'  BY <1>0, <1>1, <1>3, <1>7 DEF Locked, Inside
<1>d. Counting'
  <2>1. \A d \in Aps : d # c => at[d] \notin {10, 11}
    BY <1>3 DEF Locked, Inside
  <2> QED  BY <1>0, <1>1, <1>3, <1>7, <1>w, <1>y, <2>1 DEF Counting
<1>e. CountedPast'
  <2>1. Past' = Past  BY <1>0, <1>3, <1>7 DEF Past
  <2> QED  BY <2>1, <1>1, <1>9 DEF CountedPast
<1>f. Reached'  BY <1>0, <1>1, <1>3, <1>7, <1>8, <1>9 DEF Reached
<1>a. Enabled'  BY <1>0, <1>1, <1>3, <1>7, <1>8 DEF Enabled
<1>b. Sequence'  BY <1>0, <1>1, <1>3, <1>7 DEF Sequence
<1>g. FindsAll'  BY <1>1 DEF FindsAll
<1> QED  BY <1>5, <1>6, <1>a, <1>b, <1>c, <1>d, <1>e, <1>f, <1>g

LEMMA CountKeeps ==
    ASSUME IInv, NEW c \in Cpus, CountSelf(c)
    PROVE  IInv'
<1> USE DEF IInv
<1>0. Boot \in Cpus /\ Aps = Cpus \ {Boot} /\ None \notin Cpus  BY StartAssumption DEF Aps
<1>1. /\ At(c, "count") /\ Advance(c) /\ total' = seq[c] + 1
      /\ UNCHANGED <<has, iff, reset, ids, seq, apLock, listed, mail, irr, tasks, choice, asked, missed>>
  BY DEF CountSelf, asking
<1>2. at[c] # 0 /\ Steps(c)[at[c]] = "count"  BY <1>1 DEF At
<1>3. c \in Aps /\ c # Boot /\ at[c] = 11  BY <1>0, <1>1, Places DEF Fits
<1>4. at' \in [Cpus -> 0 .. 16] /\ at'[Boot] # 0 /\ \A d \in Aps : at'[d] <= 15
  BY <1>1, <1>2, <1>3, AdvanceType
<1>6. Built'  BY <1>1, <1>2, BuiltStays DEF Parts
<1>7. \A d \in Cpus : at[d] \in 0 .. 16 /\ at'[d] = IF d = c THEN at[c] + 1 ELSE at[d]
  BY <1>1, Moved
<1>8. iff \subseteq Cpus /\ irr \subseteq Cpus  BY DEF TypeOK
<1>w. /\ seq[c] = total /\ ids[total + 1] = c /\ total + 1 \in 1 .. N /\ total \in 1 .. N
      /\ c \notin Counted /\ IsFiniteSet(Counted)
  <2>1. at[c] <= 11  BY <1>3
  <2>2. total + 1 \in 1 .. N /\ c \notin Counted /\ IsFiniteSet(Counted)
    BY <1>3, <2>1, RoomForName
  <2>3. seq[c] = total /\ ids[total + 1] = c  BY <1>3 DEF Counting
  <2> QED  BY <2>2, <2>3 DEF TypeOK
<1>y. total' = total + 1  BY <1>1, <1>w
<1>5. TypeOK'  BY <1>1, <1>4, <1>w, <1>y DEF TypeOK
<1>9. Counted' = Counted \cup {c}
  <2>1. 1 .. total' = 1 .. total \cup {total + 1}  BY <1>w, <1>y
  <2> QED  BY <2>1, <1>1, <1>w DEF Counted
<1>c. Locked'  BY <1>0, <1>1, <1>3, <1>7 DEF Locked, Inside
<1>d. Counting'
  <2>1. \A d \in Aps : d # c => at[d] \notin {10, 11}
    BY <1>3 DEF Locked, Inside
  <2> QED  BY <1>0, <1>1, <1>3, <1>7, <2>1 DEF Counting
<1>e. CountedPast'
  <2>1. Past' = Past \cup {c}  BY <1>0, <1>3, <1>7 DEF Past
  <2>2. Cardinality(Counted \cup {c}) = total + 1  BY <1>w, FS_AddElement DEF CountedPast
  <2> QED  BY <2>1, <2>2, <1>y, <1>9 DEF CountedPast
<1>f. Reached'  BY <1>0, <1>1, <1>3, <1>7, <1>8, <1>9 DEF Reached
<1>a. Enabled'  BY <1>0, <1>1, <1>3, <1>7, <1>8 DEF Enabled
<1>b. Sequence'  BY <1>0, <1>1, <1>3, <1>7 DEF Sequence
<1>g. FindsAll'  BY <1>1 DEF FindsAll
<1> QED  BY <1>5, <1>6, <1>a, <1>b, <1>c, <1>d, <1>e, <1>f, <1>g

(* A step in which no CPU goes on keeps all that is about places. *)
LEMMA StillKeeps ==
    ASSUME IInv, UNCHANGED <<at, has, iff, reset, ids, total, seq, apLock, listed>>
    PROVE  /\ Built' /\ Enabled' /\ Sequence' /\ Locked' /\ Counting' /\ CountedPast'
           /\ Counted' = Counted
<1>1. Built'  BY DEF IInv, Built, Steps
<1>2. Enabled' /\ Sequence' /\ Locked' /\ Counting'
  BY DEF IInv, Enabled, Sequence, Locked, Counting
<1>3. Counted' = Counted  BY DEF Counted
<1>4. Past' = Past  BY DEF Past
<1>5. CountedPast'  BY <1>3, <1>4 DEF IInv, CountedPast
<1> QED  BY <1>1, <1>2, <1>3, <1>5

LEMMA TimerKeeps ==
    ASSUME IInv, NEW c \in Cpus, TimerInterrupt(c)
    PROVE  IInv'
<1> USE DEF IInv
<1> DEFINE S == {c} \X {"tables", "timers", "list", "levels"}
<1>1. /\ c \in iff /\ Uses("timer", S)
      /\ UNCHANGED <<at, has, iff, reset, ids, total, seq, apLock, listed>>
      /\ UNCHANGED <<mail, irr, tasks, choice, asked>>
  BY DEF TimerInterrupt, counting, asking
<1>2. at[c] \in 0 .. 16  BY DEF TypeOK
<1>3. {"tables", "timers", "list"} \subseteq has[c]
  <2>1. CASE c = Boot
    <3>1. at[c] > 4  BY <1>1, <1>2, <2>1 DEF Enabled
    <3> QED  BY <2>1, <3>1, HasBuilt
  <2>2. CASE c # Boot
    <3>1. at[c] > 13  BY <1>1, <1>2, <2>2 DEF Enabled
    <3> QED  BY <2>2, <3>1, HasBuilt DEF Parts
  <2> QED  BY <2>1, <2>2
<1>4. c # Boot => "levels" \in has[c]
  <2> SUFFICES ASSUME c # Boot PROVE "levels" \in has[c]
    OBVIOUS
  <2>1. at[c] > 7  BY <1>1, <1>2 DEF Enabled
  <2> QED  BY <2>1, HasBuilt
<1>5. \A u \in S : u[2] \in has[u[1]] \/ <<"timer", u[1], u[2]>> \in Excused
  <2>1. <<"timer", Boot, "levels">> \in Excused  BY DEF Excused
  <2> TAKE u \in S
  <2>2. u[1] = c /\ u[2] \in {"tables", "timers", "list", "levels"}  OBVIOUS
  <2>3. CASE u[2] = "levels"  BY <1>4, <2>1, <2>2, <2>3
  <2>4. CASE u[2] # "levels"  BY <1>3, <2>2, <2>4
  <2> QED  BY <2>3, <2>4
<1>6. S \in SUBSET (Cpus \X Structures)  BY DEF Structures, Parts
<1>7. FindsAll' /\ missed' \subseteq Users \X Cpus \X Structures
  <2>1. "timer" \in Users  BY DEF Users
  <2> HIDE DEF S
  <2> QED  BY <1>1, <1>5, <1>6, <2>1, Found
<1>8. TypeOK'  BY <1>1, <1>7 DEF TypeOK
<1>9. Reached'  BY <1>1, StillKeeps DEF Reached
<1> QED  BY <1>1, <1>7, <1>8, <1>9, StillKeeps

LEMMA MessageKeeps ==
    ASSUME IInv, NEW c \in Cpus, MessageInterrupt(c)
    PROVE  IInv'
<1> USE DEF IInv
<1> DEFINE S == {c} \X {"tables", "slots", "list"}
<1>1. /\ c \in iff /\ c \in irr /\ irr' = irr \ {c} /\ Uses("message", S)
      /\ UNCHANGED <<at, has, iff, reset, ids, total, seq, apLock, listed>>
      /\ UNCHANGED <<choice, asked>>
  BY DEF MessageInterrupt, counting
<1>2. at[c] \in 0 .. 16  BY DEF TypeOK
<1>3. {"tables", "slots", "list"} \subseteq has[c]
  <2>1. CASE c = Boot
    <3>1. at[c] > 10  BY <1>1, <1>2, <2>1 DEF Reached
    <3> QED  BY <2>1, <3>1, HasBuilt DEF Parts
  <2>2. CASE c # Boot
    <3>1. at[c] > 7  BY <1>1, <1>2, <2>2 DEF Enabled
    <3> QED  BY <2>2, <3>1, HasBuilt
  <2> QED  BY <2>1, <2>2
<1>5. \A u \in S : u[2] \in has[u[1]] \/ <<"message", u[1], u[2]>> \in Excused  BY <1>3
<1>6. S \in SUBSET (Cpus \X Structures)  BY DEF Structures, Parts
<1>7. FindsAll' /\ missed' \subseteq Users \X Cpus \X Structures
  <2>1. "message" \in Users  BY DEF Users
  <2> HIDE DEF S
  <2> QED  BY <1>1, <1>5, <1>6, <2>1, Found
<1>8. TypeOK'
  <2>1. mail \in [Cpus -> Nat] /\ tasks \in [Cpus -> Nat]  BY DEF TypeOK
  <2>2. mail' \in [Cpus -> Nat] /\ tasks' \in [Cpus -> Nat]
    <3>1. CASE mail[c] > 0
      <4>1. mail' = [mail EXCEPT ![c] = mail[c] - 1] /\ tasks' = [tasks EXCEPT ![c] = tasks[c] + 1]
        BY <3>1 DEF MessageInterrupt
      <4>2. mail[c] - 1 \in Nat /\ tasks[c] + 1 \in Nat  BY <2>1, <3>1
      <4> QED  BY <2>1, <4>1, <4>2
    <3>2. CASE ~(mail[c] > 0)  BY <2>1, <3>2 DEF MessageInterrupt
    <3> QED  BY <3>1, <3>2
  <2> QED  BY <1>1, <1>7, <2>2 DEF TypeOK
<1>9. Reached'  BY <1>1, StillKeeps DEF Reached
<1> QED  BY <1>1, <1>7, <1>8, <1>9, StillKeeps

(* When a task runs, the boot CPU is behind the start-up messages. *)
LEMMA TasksAfterStart ==
    ASSUME IInv, NEW c \in Cpus, TaskRuns(c)
    PROVE  at[Boot] > 12
<1> USE DEF IInv
<1>0. Boot \in Cpus  BY StartAssumption
<1>1. IF c = Boot THEN at[c] = 16 ELSE at[c] = 15  BY Places DEF TaskRuns, Fits
<1>2. at[Boot] \in 0 .. 16  BY <1>0 DEF TypeOK
<1> QED  BY <1>1, <1>2 DEF Sequence, Aps

(* A counted CPU has its ring and its slots then. *)
LEMMA CountedHas ==
    ASSUME IInv, NEW d \in Counted, at[Boot] > 12
    PROVE  d \in Cpus /\ {"list", "slots"} \subseteq has[d]
<1> USE DEF IInv
<1>0. d \in Cpus /\ (d = Boot \/ at[d] > 11)  BY DEF CountedPast, Past
<1>1. at[d] \in 0 .. 16  BY <1>0 DEF TypeOK
<1>2. CASE d = Boot
  <2>1. at[d] > 10  BY <1>1, <1>2
  <2> QED  BY <1>0, <1>2, <2>1, HasBuilt DEF Parts
<1>3. CASE d # Boot
  <2>1. at[d] > 7  BY <1>0, <1>1, <1>3
  <2> QED  BY <1>0, <1>3, <2>1, HasBuilt
<1> QED  BY <1>2, <1>3

LEMMA ChooseKeeps ==
    ASSUME IInv, NEW c \in Cpus, GetIdleProcessor(c)
    PROVE  IInv'
<1> USE DEF IInv
<1> DEFINE S == Counted \X {"list"}
<1>1. /\ TaskRuns(c) /\ asked' = asked + 1 /\ Uses("choose", S)
      /\ UNCHANGED <<at, has, iff, reset, ids, total, seq, apLock, listed>>
      /\ UNCHANGED <<mail, irr, tasks>>
  BY DEF GetIdleProcessor, counting
<1>2. PICK d \in Counted : choice' = [choice EXCEPT ![c] = d]  BY DEF GetIdleProcessor
<1>3. at[Boot] > 12  BY <1>1, TasksAfterStart
<1>4. \A e \in Counted : e \in Cpus /\ "list" \in has[e]  BY <1>3, CountedHas
<1>5. \A u \in S : u[2] \in has[u[1]] \/ <<"choose", u[1], u[2]>> \in Excused  BY <1>4
<1>6. S \in SUBSET (Cpus \X Structures)  BY <1>4 DEF Structures, Parts
<1>7. FindsAll' /\ missed' \subseteq Users \X Cpus \X Structures
  <2>1. "choose" \in Users  BY DEF Users
  <2> HIDE DEF S
  <2> QED  BY <1>1, <1>5, <1>6, <2>1, Found
<1>x. choice \in [Cpus -> Cpus \cup {None}] /\ d \in Cpus  BY <1>4 DEF TypeOK
<1>y. choice' \in [Cpus -> Cpus \cup {None}]  BY <1>2, <1>x
<1>8. TypeOK'  BY <1>1, <1>7, <1>y DEF TypeOK
<1>9. Reached'
  <2>1. \A e \in Cpus : choice'[e] = IF e = c THEN d ELSE choice[e]  BY <1>2, <1>x
  <2> QED  BY <1>1, <1>2, <1>3, <2>1, StillKeeps DEF Reached
<1> QED  BY <1>1, <1>7, <1>8, <1>9, StillKeeps

LEMMA SendKeeps ==
    ASSUME IInv, NEW c \in Cpus, IpiCreateThread(c)
    PROVE  IInv'
<1> USE DEF IInv
<1> DEFINE d == choice[c]
           S == {<<d, "slots">>}
<1>1. /\ TaskRuns(c) /\ d \notin {None, c} /\ choice' = [choice EXCEPT ![c] = None] /\ Uses("send", S)
      /\ \/ irr' = irr \cup {d} /\ mail' = [mail EXCEPT ![d] = mail[d] + 1]
         \/ UNCHANGED <<mail, irr>>
      /\ UNCHANGED <<at, has, iff, reset, ids, total, seq, apLock, listed>>
      /\ UNCHANGED <<tasks, asked>>
  BY DEF IpiCreateThread, counting
<1>2. at[Boot] > 12  BY <1>1, TasksAfterStart
<1>3. d \in Counted  BY <1>1 DEF Reached
<1>4. d \in Cpus /\ "slots" \in has[d]  BY <1>2, <1>3, CountedHas
<1>5. \A u \in S : u[2] \in has[u[1]] \/ <<"send", u[1], u[2]>> \in Excused  BY <1>4
<1>6. S \in SUBSET (Cpus \X Structures)  BY <1>4 DEF Structures, Parts
<1>7. FindsAll' /\ missed' \subseteq Users \X Cpus \X Structures
  <2>1. "send" \in Users  BY DEF Users
  <2> HIDE DEF S
  <2> QED  BY <1>1, <1>5, <1>6, <2>1, Found
<1>x. /\ choice \in [Cpus -> Cpus \cup {None}] /\ mail \in [Cpus -> Nat] /\ irr \subseteq Cpus
  BY DEF TypeOK
<1>y. choice' \in [Cpus -> Cpus \cup {None}]  BY <1>1, <1>x
<1>z. mail' \in [Cpus -> Nat] /\ irr' \subseteq Cpus
  <2>1. mail[d] + 1 \in Nat  BY <1>x, <1>4
  <2> QED  BY <1>1, <1>4, <1>x, <2>1
<1>8. TypeOK'  BY <1>1, <1>7, <1>y, <1>z DEF TypeOK
<1>9. Reached'
  <2>1. \A e \in Cpus : choice'[e] = IF e = c THEN None ELSE choice[e]  BY <1>1, <1>x
  <2>2. irr' \subseteq irr \cup {d}  BY <1>1
  <2> HIDE DEF d
  <2> QED  BY <1>1, <1>2, <1>3, <2>1, <2>2, StillKeeps DEF Reached
<1> QED  BY <1>1, <1>7, <1>8, <1>9, StillKeeps

LEMMA CreateKeeps ==
    ASSUME IInv, NEW c \in Cpus, CreateProcess(c)
    PROVE  IInv'
<1> USE DEF IInv
<1> DEFINE d == choice[c]
           S == {<<d, "list">>}
<1>1. /\ TaskRuns(c) /\ d # None /\ choice' = [choice EXCEPT ![c] = None] /\ Uses("create", S)
      /\ tasks' = [tasks EXCEPT ![d] = tasks[d] + 1] \/ UNCHANGED tasks
      /\ UNCHANGED <<at, has, iff, reset, ids, total, seq, apLock, listed>>
      /\ UNCHANGED <<mail, irr, asked>>
  BY DEF CreateProcess, counting
<1>2. at[Boot] > 12  BY <1>1, TasksAfterStart
<1>3. d \in Counted  BY <1>1 DEF Reached
<1>4. d \in Cpus /\ "list" \in has[d]  BY <1>2, <1>3, CountedHas
<1>5. \A u \in S : u[2] \in has[u[1]] \/ <<"create", u[1], u[2]>> \in Excused  BY <1>4
<1>6. S \in SUBSET (Cpus \X Structures)  BY <1>4 DEF Structures, Parts
<1>7. FindsAll' /\ missed' \subseteq Users \X Cpus \X Structures
  <2>1. "create" \in Users  BY DEF Users
  <2> HIDE DEF S
  <2> QED  BY <1>1, <1>5, <1>6, <2>1, Found
<1>x. choice \in [Cpus -> Cpus \cup {None}] /\ tasks \in [Cpus -> Nat]  BY DEF TypeOK
<1>y. choice' \in [Cpus -> Cpus \cup {None}]  BY <1>1, <1>x
<1>z. tasks' \in [Cpus -> Nat]
  <2>1. tasks[d] + 1 \in Nat  BY <1>x, <1>4
  <2> QED  BY <1>1, <1>4, <1>x, <2>1
<1>8. TypeOK'  BY <1>1, <1>7, <1>y, <1>z DEF TypeOK
<1>9. Reached'
  <2>1. \A e \in Cpus : choice'[e] = IF e = c THEN None ELSE choice[e]  BY <1>1, <1>x
  <2> HIDE DEF d
  <2> QED  BY <1>1, <1>2, <2>1, StillKeeps DEF Reached
<1> QED  BY <1>1, <1>7, <1>8, <1>9, StillKeeps

LEMMA InitHolds ==
    ASSUME Init
    PROVE  IInv
<1>0. Boot \in Cpus /\ Aps = Cpus \ {Boot} /\ None \notin Cpus /\ IsFiniteSet(Cpus)
  BY StartAssumption DEF Aps
<1>1. N \in Nat /\ 1 \in 1 .. N
  <2>1. Cardinality({Boot}) = 1 /\ Cardinality({Boot}) <= N
    BY <1>0, FS_Singleton, FS_Subset DEF N
  <2> QED  BY <1>0, <2>1, FS_CardinalityType DEF N
<1>2. \A c \in Cpus : at[c] = IF c = Boot THEN 1 ELSE 0  BY DEF Init
<1>3. TypeOK
  <2>1. at \in [Cpus -> 0 .. 16] /\ at[Boot] # 0 /\ \A c \in Aps : at[c] <= 15
    BY <1>0 DEF Init
  <2>2. has \in [Cpus -> SUBSET Parts]  BY DEF Init
  <2>3. ids \in [1 .. N -> Cpus \cup {None}]  BY <1>0 DEF Init
  <2>4. seq \in [Cpus -> 0 .. N]  BY <1>1 DEF Init
  <2>5. mail \in [Cpus -> Nat] /\ tasks \in [Cpus -> Nat] /\ choice \in [Cpus -> Cpus \cup {None}]
    BY DEF Init
  <2>6. listed \in Nat /\ asked \in Nat /\ total \in 1 .. N  BY <1>1, StartAssumption DEF Init
  <2>7. iff = {} /\ reset = {} /\ irr = {} /\ missed = {} /\ apLock = None  BY DEF Init
  <2> QED  BY <2>1, <2>2, <2>3, <2>4, <2>5, <2>6, <2>7 DEF TypeOK
<1>4. Built  BY <1>2 DEF Built
<1>5. Enabled /\ FindsAll  BY DEF Init, Enabled, FindsAll
<1>6. Sequence  BY <1>0, <1>2 DEF Sequence
<1>7. Locked  BY <1>0, <1>2 DEF Init, Locked, Inside
<1>8. Counting  BY <1>0, <1>2 DEF Counting
<1>9. Counted = {Boot}  BY <1>1 DEF Init, Counted
<1>a. CountedPast
  <2>1. Past = {Boot}  BY <1>0, <1>2 DEF Past
  <2> QED  BY <1>9, <2>1, FS_Singleton DEF Init, CountedPast
<1>b. Reached  BY DEF Init, Reached
<1> QED  BY <1>3, <1>4, <1>5, <1>6, <1>7, <1>8, <1>a, <1>b DEF IInv

LEMMA StutterKeeps ==
    ASSUME IInv, UNCHANGED vars
    PROVE  IInv'
<1>1. /\ UNCHANGED <<at, has, iff, reset, ids, total, seq, apLock, listed>>
      /\ UNCHANGED <<mail, irr, tasks, choice, asked, missed>>
  BY DEF vars
<1>2. TypeOK'  BY <1>1 DEF IInv, TypeOK
<1>3. Reached' /\ FindsAll'  BY <1>1, StillKeeps DEF IInv, Reached, FindsAll
<1> QED  BY <1>1, <1>2, <1>3, StillKeeps DEF IInv

LEMMA NextKeeps ==
    ASSUME IInv, [Next]_vars
    PROVE  IInv'
<1>1. CASE BootStep  BY <1>1, InitKeeps, StartUpKeeps, AwaitKeeps DEF BootStep
<1>2. ASSUME NEW c \in Cpus, BuildStep(c) PROVE IInv'
  <2>1. CASE \/ InitTask0(c) \/ InitTables(c) \/ InitApicTimer(c) \/ InitLocalApicTimer(c)
             \/ InitTaskScheduleBuf(c) \/ InitSlots(c)  BY <2>1, BuildsKeep
  <2> QED  BY <1>2, <2>1, EnableKeeps, DisableKeeps, FilesKeeps DEF BuildStep
<1>3. ASSUME NEW c \in Cpus, CountStep(c) PROVE IInv'
  BY <1>3, EnterKeeps, ReadKeeps, NameKeeps, CountKeeps, LeaveKeeps DEF CountStep
<1>4. ASSUME NEW c \in Cpus, TaskStep(c) PROVE IInv'
  BY <1>4, ChooseKeeps, SendKeeps, CreateKeeps DEF TaskStep
<1>5. ASSUME NEW c \in Cpus, Interrupt(c) PROVE IInv'
  BY <1>5, TimerKeeps, MessageKeeps DEF Interrupt
<1>6. CASE UNCHANGED vars  BY <1>6, StutterKeeps
<1> QED  BY <1>1, <1>2, <1>3, <1>4, <1>5, <1>6 DEF Next

LEMMA Inductive == Spec => []IInv
<1>1. Init => IInv  BY InitHolds
<1>2. IInv /\ [Next]_vars => IInv'  BY NextKeeps
<1> QED  BY <1>1, <1>2, PTL DEF Spec

(* But for the steps of Excused, of which all but one are allocations of a CPU
   that starts, whoever uses a structure of a CPU finds it built: the handlers on
   that CPU, its own later steps, and tasks of the others, however many CPUs start
   and count themselves at a time. *)
THEOREM AllIsFound == Spec => []FindsAll
<1>1. IInv => FindsAll  BY DEF IInv
<1> QED  BY <1>1, Inductive, PTL

(* The CPUs that have counted themselves are named once each, and they are as many
   as g_cpu_total says. *)
THEOREM EachIsCountedOnce == Spec => []CountedOnce
<1>1. ASSUME IInv PROVE CountedOnce
  <2>1. \A c \in Cpus : HasCounted(c) <=> c \in Past
    <3> SUFFICES ASSUME NEW c \in Cpus PROVE HasCounted(c) <=> c \in Past
      OBVIOUS
    <3>1. at[c] \in 0 .. 16 /\ (c # Boot => at[c] <= 15)  BY <1>1 DEF IInv, TypeOK, Aps
    <3>2. CASE c = Boot  BY <3>2 DEF HasCounted, Past
    <3>3. CASE c # Boot
      <4>1. \A i \in 1 .. at[c] - 1 : ApInitProc[i] = "count" <=> i = 11
        <5>1. \A i \in 1 .. at[c] - 1 : i \in 1 .. 15  BY <3>1, <3>3
        <5> QED  BY <5>1, ApPlaces
      <4>2. HasCounted(c) <=> at[c] > 11  BY <3>1, <3>3, <4>1 DEF HasCounted
      <4> QED  BY <3>3, <4>2 DEF Past
    <3> QED  BY <3>2, <3>3
  <2>2. {c \in Cpus : HasCounted(c)} = Past  BY <2>1 DEF Past
  <2> QED  BY <1>1, <2>2 DEF IInv, CountedPast, CountedOnce
<1> QED  BY <1>1, Inductive, PTL
===============================================================================
