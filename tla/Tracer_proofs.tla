----------------------------- MODULE Tracer_proofs -----------------------------
(***************************************************************************)
(* Proofs about Tracer, for any processes, threads, sites and targets:     *)
(* what the trace of a process says of the calls it has made.              *)
(***************************************************************************)
EXTENDS TracerInv, SequenceTheorems, TLAPS

CallTypes == Sites \X (Targets \cup {NotRecorded})

(* A number is twice its half, or one more when it is odd.                 *)
LEMMA Halves ==
  ASSUME NEW n \in Nat
  PROVE  /\ n \div 2 \in Nat
         /\ n % 2 = 0 => n = 2 * (n \div 2)
         /\ n % 2 # 0 => n % 2 = 1 /\ n = 2 * (n \div 2) + 1
OBVIOUS

LEMMA EvenOdd ==
  ASSUME NEW n \in Nat
  PROVE  /\ (2 * n) % 2 = 0 /\ (2 * n) \div 2 = n
         /\ n > 0 => (2 * n - 1) % 2 = 1 /\ (2 * n - 1) \div 2 = n - 1
OBVIOUS

(* What a call adds to the sites called.                                   *)
LEMMA SitesOfAppend ==
  ASSUME NEW S, NEW rows \in Seq(S), NEW row \in S
  PROVE  SitesOf(Append(rows, row)) = SitesOf(rows) \cup {row[1]}
<1> DEFINE all == Append(rows, row)
           n == Len(rows)
<1>1. /\ n \in Nat /\ Len(all) = n + 1 /\ all[n + 1] = row
      /\ \A i \in 1 .. n : all[i] = rows[i]
  BY AppendProperties, LenProperties
<1> HIDE DEF all, n
<1>2. 1 .. Len(all) = 1 .. n \cup {n + 1}
  BY <1>1
<1>3. SitesOf(all) = {all[i][1] : i \in 1 .. n} \cup {all[n + 1][1]}
  BY <1>2 DEF SitesOf
<1>4. {all[i][1] : i \in 1 .. n} = {rows[i][1] : i \in 1 .. n}
  BY <1>1
<1> QED BY <1>1, <1>3, <1>4 DEF SitesOf, all, n

LEMMA NoSites == SitesOf(<< >>) = {}
BY DEF SitesOf

LEMMA NoHeads == HeadsOf(<< >>) = {}
BY DEF HeadsOf

(* The call site of a row is a piece at an odd place, its target is not.   *)
LEMMA HeadsOfAppend ==
  ASSUME NEW S, NEW f \in Seq(S), NEW piece \in S
  PROVE  /\ Len(f) % 2 = 0 => HeadsOf(Append(f, piece)) = HeadsOf(f) \cup {piece}
         /\ Len(f) % 2 # 0 => HeadsOf(Append(f, piece)) = HeadsOf(f)
<1> DEFINE all == Append(f, piece)
           n == Len(f)
<1>1. /\ n \in Nat /\ Len(all) = n + 1 /\ all[n + 1] = piece
      /\ \A i \in 1 .. n : all[i] = f[i]
  BY AppendProperties, LenProperties
<1> DEFINE Odd(m) == {j \in Nat \ {0} : 2 * j - 1 <= m}
<1>2. HeadsOf(f) = {f[2 * i - 1] : i \in Odd(n)} /\ HeadsOf(all) = {all[2 * i - 1] : i \in Odd(n + 1)}
  BY <1>1 DEF HeadsOf
<1>3. \A i \in Odd(n) : i \in Nat /\ 2 * i - 1 \in 1 .. n
  BY <1>1
<1> HIDE DEF all, n
<1>4. {all[2 * i - 1] : i \in Odd(n)} = HeadsOf(f)
  BY <1>1, <1>2, <1>3
<1>5. CASE n % 2 = 0
  <2>1. n = 2 * (n \div 2) /\ n \div 2 \in Nat
    BY <1>1, <1>5, Halves
  <2>2. Odd(n + 1) = Odd(n) \cup {n \div 2 + 1}
    BY <1>1, <2>1
  <2>3. HeadsOf(all) = {all[2 * i - 1] : i \in Odd(n)} \cup {all[2 * (n \div 2 + 1) - 1]}
    BY <1>2, <2>2
  <2>4. 2 * (n \div 2 + 1) - 1 = n + 1
    BY <2>1, <1>1
  <2> QED BY <1>1, <1>4, <1>5, <2>3, <2>4 DEF all, n
<1>6. CASE n % 2 # 0
  <2>1. n = 2 * (n \div 2) + 1 /\ n \div 2 \in Nat
    BY <1>1, <1>6, Halves
  <2>2. Odd(n + 1) = Odd(n)
    BY <1>1, <2>1
  <2> QED BY <1>2, <1>4, <1>6, <2>2 DEF all, n
<1> QED BY <1>5, <1>6 DEF all, n

(* The rows of a file, and what they name.                                 *)
LEMMA RowsAre ==
  ASSUME NEW S, NEW f \in Seq(S)
  PROVE  /\ DOMAIN Rows(f) = 1 .. Len(f) \div 2 /\ Len(Rows(f)) = Len(f) \div 2
         /\ Len(f) \div 2 \in Nat
         /\ \A i \in 1 .. Len(f) \div 2 : Rows(f)[i] = <<f[2 * i - 1], f[2 * i]>>
         /\ SitesOf(Rows(f)) \subseteq HeadsOf(f)
         /\ ~Torn(f) => SitesOf(Rows(f)) = HeadsOf(f)
<1> DEFINE n == Len(f) \div 2
<1>1. Len(f) \in Nat /\ n \in Nat /\ f \in [1 .. Len(f) -> S]
  BY LenProperties, Halves
<1>2. /\ DOMAIN Rows(f) = 1 .. n
      /\ \A i \in 1 .. n : Rows(f)[i] = <<f[2 * i - 1], f[2 * i]>>
  BY DEF Rows
<1>3. \A i \in 1 .. n : 2 * i - 1 \in 1 .. Len(f) /\ 2 * i \in 1 .. Len(f)
  BY <1>1, Halves
<1>4. Rows(f) \in Seq(S \X S)
  <2>1. Rows(f) \in [1 .. n -> S \X S]
    BY <1>1, <1>3 DEF Rows
  <2> QED BY <1>1, <2>1
<1>5. Len(Rows(f)) = n
  <2>1. DOMAIN Rows(f) = 1 .. Len(Rows(f)) /\ Len(Rows(f)) \in Nat
    BY <1>4, LenProperties
  <2> QED BY <1>1, <1>2, <2>1
<1>6. SitesOf(Rows(f)) = {f[2 * i - 1] : i \in 1 .. n}
  BY <1>2, <1>5 DEF SitesOf
<1>7. SitesOf(Rows(f)) \subseteq HeadsOf(f)
  BY <1>1, <1>3, <1>6 DEF HeadsOf
<1>8. ASSUME ~Torn(f) PROVE HeadsOf(f) \subseteq SitesOf(Rows(f))
  <2>1. Len(f) = 2 * n
    BY <1>1, <1>8, Halves DEF Torn
  <2>2. \A j \in Nat \ {0} : 2 * j - 1 <= Len(f) => j \in 1 .. n
    BY <1>1, <2>1
  <2> QED BY <1>6, <2>2 DEF HeadsOf
<1> QED BY <1>1, <1>2, <1>5, <1>7, <1>8

-----------------------------------------------------------------------------
(* A step of one process leaves what is known of the others.               *)
Same(p) ==
  /\ life'[p] = life[p] /\ file'[p] = file[p] /\ log'[p] = log[p]
  /\ holder'[p] = holder[p] /\ busy'[p] = busy[p]
  /\ covered'[p] = covered[p] /\ unwritten'[p] = unwritten[p] /\ calls'[p] = calls[p]

LEMMA SameInv ==
  ASSUME NEW p, ProcessInv(p), Same(p), mode' = mode
  PROVE  ProcessInv(p)'
<1>1. OwnerInv(p)'
  BY DEF ProcessInv, OwnerInv, Same
<1>2. EdgeInv(p)'
  BY DEF ProcessInv, EdgeInv, Row, Same
<1>3. FastInv(p)'
  BY DEF ProcessInv, FastInv, Same
<1> QED BY <1>1, <1>2, <1>3 DEF ProcessInv

LEMMA StepOfOne ==
  ASSUME IndInv, mode' = mode, TypeOK', NEW p \in Pids,
         \A q \in Pids \ {p} : Same(q), ProcessInv(p)'
  PROVE  IndInv'
<1>1. ASSUME NEW q \in Pids, q # p PROVE ProcessInv(q)'
  BY <1>1, SameInv DEF IndInv
<1> QED BY <1>1 DEF IndInv

LEMMA InitInv == Init => IndInv
<1> SUFFICES ASSUME Init PROVE IndInv
  OBVIOUS
<1>1. TypeOK
  <2>1. << >> \in Seq(Pieces) /\ << >> \in Seq(CallTypes)
    BY EmptySeq
  <2>2. failures \in 0 .. MaxFailures
    BY ConstantsAssumption DEF Init
  <2> QED BY <2>1, <2>2 DEF Init, TypeOK, Lives, CallTypes
<1>2. ASSUME NEW p \in Pids PROVE ProcessInv(p)
  BY DEF Init, ProcessInv, OwnerInv, EdgeInv, FastInv, Started
<1> QED BY <1>1, <1>2 DEF IndInv

(* The trace starts over, and with it what the process has called.         *)
LEMMA ClientMainInv ==
  ASSUME IndInv, NEW p \in Pids, ClientMain(p), \A t \in Threads : busy[p][t] = None,
         mode = "edge" => unwritten[p] = {}
  PROVE  IndInv'
<1> USE DEF ClientMain, Become
<1>1. TypeOK'
  BY EmptySeq DEF IndInv, TypeOK, Lives
<1>2. \A q \in Pids \ {p} : Same(q)
  BY DEF IndInv, TypeOK, Same
<1>3. /\ life'[p] = "running" /\ file'[p] = << >> /\ log'[p] = p /\ holder'[p] = None
      /\ covered'[p] = {} /\ calls'[p] = << >> /\ busy' = busy /\ unwritten' = unwritten
      /\ mode' = mode
  BY DEF IndInv, TypeOK
<1>4. OwnerInv(p)'
  BY <1>3 DEF OwnerInv, Started
<1>5. EdgeInv(p)'
  <2>1. Len(<< >>) = 0 /\ << >> \in Seq(Calls)
    BY EmptySeq
  <2> HIDE DEF ClientMain, Become
  <2>2. Len(file'[p]) = 0 /\ Len(calls'[p]) = 0 /\ calls'[p] \in Seq(Calls)
    BY <1>3, <2>1
  <2>3. 1 .. Len(calls'[p]) = {} /\ Len(file'[p]) = 2 * Len(calls'[p])
    BY <2>2
  <2>4. mode' = "edge" => unwritten'[p] = {}
    BY <1>3
  <2> QED BY <1>3, <2>2, <2>3, <2>4 DEF EdgeInv
<1>6. FastInv(p)'
  BY <1>3, NoSites DEF FastInv, SitesIn
<1> QED BY <1>1, <1>2, <1>3, <1>4, <1>5, <1>6, StepOfOne DEF ProcessInv

LEMMA OpenFailsInv ==
  ASSUME IndInv, NEW p \in Pids, OpenFails(p), life[p] \notin Started
  PROVE  IndInv'
<1> USE DEF OpenFails, Become
<1>1. TypeOK'
  BY ConstantsAssumption DEF IndInv, TypeOK, Lives
<1>2. \A q \in Pids \ {p} : Same(q)
  BY DEF IndInv, TypeOK, Same
<1>3. /\ life'[p] = "failed" /\ file' = file /\ holder' = holder /\ busy' = busy
      /\ covered' = covered /\ unwritten' = unwritten /\ calls' = calls /\ mode' = mode
  BY DEF IndInv, TypeOK
<1>4. ProcessInv(p)
  BY DEF IndInv
<1>5. OwnerInv(p)'
  BY <1>3, <1>4 DEF ProcessInv, OwnerInv, Started
<1>6. EdgeInv(p)'
  BY <1>3, <1>4 DEF ProcessInv, EdgeInv, Started
<1>7. FastInv(p)'
  BY <1>3, <1>4 DEF ProcessInv, FastInv
<1> QED BY <1>1, <1>2, <1>3, <1>5, <1>6, <1>7, StepOfOne DEF ProcessInv

-----------------------------------------------------------------------------
LEMMA InstrumentInv ==
  ASSUME IndInv, NEW p \in Pids, Instrument(p)
  PROVE  IndInv'
<1>1. TypeOK'
  BY DEF IndInv, TypeOK, Instrument
<1>2. \A q \in Pids : Same(q)
  BY DEF Instrument, Same
<1>3. mode' = mode
  BY DEF Instrument
<1>4. ProcessInv(p)'
  BY <1>2, <1>3, SameInv DEF IndInv
<1> QED BY <1>1, <1>2, <1>3, <1>4, StepOfOne

(* The site of the call is that of the flag.                               *)
LEMMA MarkCoveredInv ==
  ASSUME IndInv, NEW p \in Pids, MarkCovered(p)
  PROVE  IndInv'
<1>1. PICK site \in sites[p] :
        /\ covered' = [covered EXCEPT ![p] = @ \cup {site}]
        /\ calls' = [calls EXCEPT ![p] = Append(@, <<site[1], NotRecorded>>)]
  BY DEF MarkCovered
<1>2. /\ mode = "fast" /\ life[p] = "running" /\ mode' = mode
      /\ life' = life /\ file' = file /\ log' = log /\ holder' = holder /\ busy' = busy
      /\ sites' = sites /\ unwritten' = unwritten /\ failures' = failures
  BY DEF MarkCovered, Running
<1>3. site \in Sites \X Copies /\ calls[p] \in Seq(CallTypes)
  BY DEF IndInv, TypeOK, CallTypes
<1>4. <<site[1], NotRecorded>> \in CallTypes
  BY <1>3 DEF CallTypes
<1>5. Append(calls[p], <<site[1], NotRecorded>>) \in Seq(CallTypes)
  BY <1>3, <1>4, AppendProperties
<1>6. TypeOK'
  <2>1. calls' \in [Pids -> Seq(CallTypes)]
    BY <1>1, <1>5 DEF IndInv, TypeOK, CallTypes
  <2>2. covered' \in [Pids -> SUBSET (Sites \X Copies)]
    BY <1>1, <1>3 DEF IndInv, TypeOK
  <2> QED BY <1>2, <2>1, <2>2 DEF IndInv, TypeOK, CallTypes
<1>7. \A q \in Pids \ {p} : Same(q)
  BY <1>1, <1>2 DEF IndInv, TypeOK, Same
<1>8. OwnerInv(p)'
  BY <1>2 DEF IndInv, ProcessInv, OwnerInv, Started
<1>9. EdgeInv(p)'
  BY <1>2 DEF EdgeInv
<1>10. FastInv(p)'
  <2>1. /\ calls'[p] = Append(calls[p], <<site[1], NotRecorded>>)
        /\ covered'[p] = covered[p] \cup {site}
    BY <1>1 DEF IndInv, TypeOK
  <2>2. SitesOf(calls'[p]) = SitesOf(calls[p]) \cup {site[1]}
    BY <1>3, <1>4, <2>1, SitesOfAppend
  <2>3. SitesIn(covered'[p]) = SitesIn(covered[p]) \cup {site[1]}
    BY <2>1 DEF SitesIn
  <2>4. /\ holder[p] = None /\ file[p] = << >>
        /\ SitesIn(covered[p]) = SitesOf(calls[p])
    BY <1>2 DEF IndInv, ProcessInv, FastInv
  <2> QED BY <1>2, <2>2, <2>3, <2>4 DEF FastInv
<1> QED BY <1>2, <1>6, <1>7, <1>8, <1>9, <1>10, StepOfOne DEF ProcessInv

(* A step that adds a piece to the trace of the process, and what it does  *)
(* to the trace.                                                           *)
LEMMA WriteIsAppend ==
  ASSUME IndInv, NEW p \in Pids, life[p] \in {"running", "flushing"},
         NEW piece \in Pieces, Write(p, piece)
  PROVE  /\ file[p] \in Seq(Pieces) /\ Len(file[p]) \in Nat
         /\ file' \in [Pids -> Seq(Pieces)]
         /\ file'[p] = Append(file[p], piece)
         /\ Len(file'[p]) = Len(file[p]) + 1
         /\ \A i \in 1 .. Len(file[p]) : file'[p][i] = file[p][i]
         /\ file'[p][Len(file[p]) + 1] = piece
         /\ \A q \in Pids \ {p} : file'[q] = file[q]
<1>1. log[p] = p
  BY DEF IndInv, ProcessInv, OwnerInv
<1>2. file \in [Pids -> Seq(Pieces)] /\ file' = [file EXCEPT ![p] = Append(@, piece)]
  BY <1>1 DEF IndInv, TypeOK, Write
<1>3. file'[p] = Append(file[p], piece) /\ \A q \in Pids \ {p} : file'[q] = file[q]
  BY <1>2
<1>4. Append(file[p], piece) \in Seq(Pieces)
  BY <1>2, AppendProperties
<1>5. file' \in [Pids -> Seq(Pieces)]
  BY <1>2, <1>4
<1>6. file[p] \in Seq(Pieces) /\ Len(file[p]) \in Nat
  BY <1>2, LenProperties
<1> HIDE DEF Write
<1>7. /\ Len(file'[p]) = Len(file[p]) + 1
      /\ \A i \in 1 .. Len(file[p]) : file'[p][i] = file[p][i]
      /\ file'[p][Len(file[p]) + 1] = piece
  BY <1>3, <1>6, AppendProperties
<1> QED BY <1>3, <1>5, <1>6, <1>7

(* A row is begun where the rows of the calls before it are complete.      *)
LEMMA RecordSiteInv ==
  ASSUME IndInv, NEW p \in Pids, NEW t \in Threads, RecordSite(p, t)
  PROVE  IndInv'
<1>1. PICK call \in Calls :
        /\ Write(p, call[1])
        /\ busy' = [busy EXCEPT ![p][t] = call]
        /\ calls' = [calls EXCEPT ![p] = Append(@, call)]
  BY DEF RecordSite
<1>2. /\ mode = "edge" /\ life[p] = "running" /\ busy[p][t] = None /\ holder[p] = None
      /\ holder' = [holder EXCEPT ![p] = t]
      /\ mode' = mode /\ life' = life /\ log' = log /\ sites' = sites
      /\ covered' = covered /\ unwritten' = unwritten /\ failures' = failures
  BY DEF RecordSite, Running
<1>3. call[1] \in Pieces /\ call # None /\ call \in CallTypes /\ t # None
  BY ConstantsAssumption DEF Calls, Pieces, CallTypes
<1>4. /\ file[p] \in Seq(Pieces) /\ file' \in [Pids -> Seq(Pieces)]
      /\ Len(file[p]) \in Nat /\ Len(file'[p]) = Len(file[p]) + 1
      /\ \A i \in 1 .. Len(file[p]) : file'[p][i] = file[p][i]
      /\ file'[p][Len(file[p]) + 1] = call[1]
      /\ \A q \in Pids \ {p} : file'[q] = file[q]
  BY <1>1, <1>2, <1>3, WriteIsAppend
<1>5. /\ calls[p] \in Seq(Calls) /\ Len(file[p]) = 2 * Len(calls[p])
      /\ \A i \in 1 .. Len(calls[p]) : Row(p, i)
      /\ covered[p] = {} /\ unwritten[p] = {}
  BY <1>2 DEF IndInv, ProcessInv, EdgeInv, Started
<1>6. calls'[p] = Append(calls[p], call)
  BY <1>1 DEF IndInv, TypeOK
<1>7. /\ calls'[p] \in Seq(Calls) /\ Len(calls[p]) \in Nat
      /\ Len(calls'[p]) = Len(calls[p]) + 1
      /\ \A i \in 1 .. Len(calls[p]) : calls'[p][i] = calls[p][i]
      /\ calls'[p][Len(calls[p]) + 1] = call
  BY <1>5, <1>6, AppendProperties, LenProperties
<1>8. TypeOK'
  <2>1. calls' \in [Pids -> Seq(CallTypes)]
    <3>1. Append(calls[p], call) \in Seq(CallTypes)
      BY <1>3, AppendProperties DEF IndInv, TypeOK, CallTypes
    <3> QED BY <1>1, <3>1 DEF IndInv, TypeOK, CallTypes
  <2>2. busy' \in [Pids -> [Threads -> Calls \cup {None}]]
    BY <1>1 DEF IndInv, TypeOK
  <2>3. holder' \in [Pids -> Threads \cup {None}]
    BY <1>2 DEF IndInv, TypeOK
  <2> QED BY <1>2, <1>4, <2>1, <2>2, <2>3 DEF IndInv, TypeOK, CallTypes
<1>9. \A q \in Pids \ {p} : Same(q)
  BY <1>1, <1>2, <1>4 DEF IndInv, TypeOK, Same
<1>10. /\ holder'[p] = t /\ busy'[p][t] = call
       /\ \A s \in Threads \ {t} : busy'[p][s] = busy[p][s]
  BY <1>1, <1>2 DEF IndInv, TypeOK
<1>11. OwnerInv(p)'
  <2>1. \A s \in Threads \ {t} : busy[p][s] = None
    BY <1>2, ConstantsAssumption DEF IndInv, ProcessInv, OwnerInv
  <2>2. log[p] = p
    BY <1>2 DEF IndInv, ProcessInv, OwnerInv
  <2> QED BY <1>2, <1>3, <1>10, <2>1, <2>2 DEF OwnerInv, Started
<1>12. EdgeInv(p)'
  <2>1. ASSUME NEW i \in 1 .. Len(calls[p]) PROVE Row(p, i)'
    <3>1. 2 * i - 1 \in 1 .. Len(file[p]) /\ 2 * i \in 1 .. Len(file[p])
      BY <1>5, <1>7
    <3>2. file'[p][2 * i - 1] = file[p][2 * i - 1] /\ file'[p][2 * i] = file[p][2 * i]
      BY <1>4, <3>1
    <3>3. calls'[p][i] = calls[p][i] /\ Row(p, i)
      BY <1>5, <1>7
    <3> QED BY <3>2, <3>3 DEF Row
  <2>2. /\ Len(calls'[p]) > 0 /\ Len(calls'[p]) - 1 = Len(calls[p])
        /\ Len(file'[p]) = 2 * Len(calls'[p]) - 1
    BY <1>4, <1>5, <1>7
  <2>3. file'[p][2 * Len(calls'[p]) - 1] = calls'[p][Len(calls'[p])][1]
    <3>1. 2 * Len(calls'[p]) - 1 = Len(file[p]) + 1
      BY <1>4, <2>2
    <3> QED BY <3>1, <1>4, <1>7
  <2>4. busy'[p][holder'[p]] = calls'[p][Len(calls'[p])]
    BY <1>7, <1>10
  <2> QED BY <1>2, <1>3, <1>5, <1>7, <1>10, <2>1, <2>2, <2>3, <2>4 DEF EdgeInv
<1>13. FastInv(p)'
  BY <1>2 DEF FastInv
<1> QED BY <1>2, <1>8, <1>9, <1>11, <1>12, <1>13, StepOfOne DEF ProcessInv

(* The row that is completed is that of the last call.                     *)
LEMMA RecordTargetInv ==
  ASSUME IndInv, NEW p \in Pids, NEW t \in Threads, RecordTarget(p, t)
  PROVE  IndInv'
<1>1. /\ life[p] = "running" /\ busy[p][t] # None /\ Write(p, busy[p][t][2])
      /\ busy' = [busy EXCEPT ![p][t] = None] /\ holder' = [holder EXCEPT ![p] = None]
      /\ mode' = mode /\ life' = life /\ log' = log /\ sites' = sites /\ calls' = calls
      /\ covered' = covered /\ unwritten' = unwritten /\ failures' = failures
  BY DEF RecordTarget, Running
<1>2. holder[p] = t /\ t # None
  BY <1>1, ConstantsAssumption DEF IndInv, ProcessInv, OwnerInv
<1>3. mode = "edge"
  BY <1>2 DEF IndInv, TypeOK, ProcessInv, FastInv
<1> DEFINE n == Len(calls[p])
<1>4. /\ calls[p] \in Seq(Calls) /\ n > 0 /\ Len(file[p]) = 2 * n - 1
      /\ \A i \in 1 .. n - 1 : Row(p, i)
      /\ file[p][2 * n - 1] = calls[p][n][1]
      /\ busy[p][t] = calls[p][n]
      /\ covered[p] = {} /\ unwritten[p] = {}
  BY <1>1, <1>2, <1>3 DEF IndInv, ProcessInv, EdgeInv, Started
<1>5. n \in Nat /\ n - 1 \in Nat
  BY <1>4, LenProperties
<1>6. busy[p][t] \in Calls /\ busy[p][t][2] \in Pieces
  BY <1>1 DEF IndInv, TypeOK, Calls, Pieces
<1>7. /\ file' \in [Pids -> Seq(Pieces)]
      /\ Len(file[p]) \in Nat /\ Len(file'[p]) = Len(file[p]) + 1
      /\ \A i \in 1 .. Len(file[p]) : file'[p][i] = file[p][i]
      /\ file'[p][Len(file[p]) + 1] = busy[p][t][2]
      /\ \A q \in Pids \ {p} : file'[q] = file[q]
  BY <1>1, <1>6, WriteIsAppend
<1>8. TypeOK'
  BY <1>1, <1>7 DEF IndInv, TypeOK
<1>9. \A q \in Pids \ {p} : Same(q)
  BY <1>1, <1>7 DEF IndInv, TypeOK, Same
<1>10. holder'[p] = None /\ \A s \in Threads : busy'[p][s] = None
  <2>1. \A s \in Threads \ {t} : busy[p][s] = None
    BY <1>2 DEF IndInv, ProcessInv, OwnerInv
  <2> QED BY <1>1, <2>1 DEF IndInv, TypeOK
<1>11. OwnerInv(p)'
  BY <1>1, <1>10 DEF IndInv, ProcessInv, OwnerInv, Started
<1> HIDE DEF n
<1>12. EdgeInv(p)'
  <2>1. Len(file'[p]) = 2 * n
    BY <1>4, <1>5, <1>7
  <2>2. ASSUME NEW i \in 1 .. n PROVE Row(p, i)'
    <3>1. CASE i = n
      <4>1. 2 * i - 1 \in 1 .. Len(file[p]) /\ 2 * i = Len(file[p]) + 1
        BY <1>4, <1>5, <3>1
      <4>2. file'[p][2 * i - 1] = calls[p][i][1] /\ file'[p][2 * i] = calls[p][i][2]
        BY <1>4, <1>7, <3>1, <4>1
      <4> QED BY <1>1, <4>2 DEF Row
    <3>2. CASE i # n
      <4>1. i \in 1 .. n - 1 /\ 2 * i - 1 \in 1 .. Len(file[p]) /\ 2 * i \in 1 .. Len(file[p])
        BY <1>4, <1>5, <3>2
      <4>2. /\ file'[p][2 * i - 1] = file[p][2 * i - 1] /\ file'[p][2 * i] = file[p][2 * i]
            /\ Row(p, i)
        BY <1>4, <1>7, <4>1
      <4> QED BY <1>1, <4>2 DEF Row
    <3> QED BY <3>1, <3>2
  <2> QED BY <1>1, <1>4, <1>10, <2>1, <2>2 DEF EdgeInv, n
<1>13. FastInv(p)'
  BY <1>1, <1>3 DEF FastInv
<1> QED BY <1>1, <1>8, <1>9, <1>11, <1>12, <1>13, StepOfOne DEF ProcessInv

-----------------------------------------------------------------------------
LEMMA SafePointIsUnlocked ==
  ASSUME IndInv, NEW p \in Pids, AtSafePoint(p)
  PROVE  holder[p] = None
BY DEF AtSafePoint, IndInv, TypeOK, ProcessInv, OwnerInv

(* The child has flags of its parent, but no call and no row.              *)
LEMMA ForkInv ==
  ASSUME IndInv, NEW p \in Pids, NEW c \in Pids, Fork(p, c)
  PROVE  IndInv'
<1> USE DEF Fork, Become
<1>1. TypeOK'
  BY EmptySeq DEF IndInv, TypeOK, Lives
<1>2. \A q \in Pids \ {c} : Same(q)
  BY DEF IndInv, TypeOK, Same
<1>3. /\ life[c] = "none" /\ life'[c] = "forked" /\ covered'[c] = covered[p] /\ calls'[c] = << >>
      /\ mode' = mode /\ file' = file /\ holder' = holder /\ busy' = busy
      /\ unwritten' = unwritten
  BY DEF IndInv, TypeOK
<1> HIDE DEF Fork, Become
<1>4. OwnerInv(c) /\ EdgeInv(c) /\ FastInv(c) /\ EdgeInv(p)
  BY DEF IndInv, ProcessInv
<1>5. OwnerInv(c)'
  BY <1>3, <1>4 DEF OwnerInv, Started
<1>6. EdgeInv(c)'
  <2>1. << >> \in Seq(Calls)
    BY EmptySeq
  <2> QED BY <1>3, <1>4, <2>1 DEF EdgeInv, Started
<1>7. FastInv(c)'
  BY <1>3, <1>4 DEF FastInv
<1> QED BY <1>1, <1>2, <1>3, <1>5, <1>6, <1>7, StepOfOne DEF ProcessInv

(* event_fork clears the flags.                                            *)
LEMMA EventForkInv ==
  ASSUME IndInv, NEW c \in Pids, EventFork(c)
  PROVE  IndInv'
<1> USE DEF EventFork, Become
<1>1. TypeOK'
  BY EmptySeq DEF IndInv, TypeOK, Lives
<1>2. \A q \in Pids \ {c} : Same(q)
  BY DEF IndInv, TypeOK, Same
<1>3. /\ life[c] = "forked" /\ life'[c] = "running" /\ log'[c] = c /\ file'[c] = << >>
      /\ covered'[c] = {} /\ mode' = mode /\ holder' = holder /\ busy' = busy
      /\ unwritten' = unwritten /\ calls' = calls
  BY DEF IndInv, TypeOK
<1> HIDE DEF EventFork, Become
<1>4. OwnerInv(c) /\ EdgeInv(c) /\ FastInv(c)
  BY DEF IndInv, ProcessInv
<1>5. calls[c] = << >> /\ holder[c] = None
  BY <1>3, <1>4 DEF OwnerInv, Started
<1>6. OwnerInv(c)'
  BY <1>3, <1>4, <1>5 DEF OwnerInv, Started
<1>7. EdgeInv(c)'
  <2>1. Len(file'[c]) = 0 /\ Len(calls'[c]) = 0
    BY <1>3, <1>5, EmptySeq
  <2>2. 1 .. Len(calls'[c]) = {} /\ Len(file'[c]) = 2 * Len(calls'[c])
    BY <2>1
  <2>3. mode = "edge" => unwritten[c] = {} /\ calls[c] \in Seq(Calls)
    BY <1>4 DEF EdgeInv
  <2> QED BY <1>3, <1>5, <2>2, <2>3 DEF EdgeInv
<1>8. FastInv(c)'
  BY <1>3, <1>5, NoSites DEF FastInv, SitesIn
<1> QED BY <1>1, <1>2, <1>3, <1>6, <1>7, <1>8, StepOfOne DEF ProcessInv

-----------------------------------------------------------------------------
(* The exit begins with the flags that are set, edge mode with none.       *)
LEMMA BeginExitInv ==
  ASSUME IndInv, NEW p \in Pids, BeginExit(p)
  PROVE  IndInv'
<1> USE DEF BeginExit, Become, Running
<1>1. TypeOK'
  BY DEF IndInv, TypeOK, Lives
<1>2. \A q \in Pids \ {p} : Same(q)
  BY DEF IndInv, TypeOK, Same
<1>3. /\ life[p] = "running" /\ life'[p] = "flushing" /\ unwritten'[p] = covered[p]
      /\ mode' = mode /\ holder' = holder /\ busy' = busy /\ log' = log /\ file' = file
      /\ covered' = covered /\ calls' = calls /\ AtSafePoint(p)
  BY DEF IndInv, TypeOK
<1> HIDE DEF BeginExit, Become, Running
<1>4. OwnerInv(p) /\ EdgeInv(p) /\ FastInv(p) /\ holder[p] = None
  BY <1>3, SafePointIsUnlocked DEF IndInv, ProcessInv
<1>5. OwnerInv(p)'
  BY <1>3, <1>4 DEF OwnerInv, Started
<1>6. EdgeInv(p)'
  BY <1>3, <1>4 DEF EdgeInv, Started, Row
<1>7. FastInv(p)'
  <2>1. SitesIn(unwritten[p])' = SitesIn(covered[p])
    BY <1>3 DEF SitesIn
  <2> QED BY <1>3, <1>4, <2>1, NoHeads DEF FastInv
<1> QED BY <1>1, <1>2, <1>3, <1>5, <1>6, <1>7, StepOfOne DEF ProcessInv

(* A piece of the flush: the call site of a record, or what follows it.    *)
LEMMA FlushInv ==
  ASSUME IndInv, NEW p \in Pids, FlushSite(p) \/ FlushRest(p)
  PROVE  IndInv'
<1>1. /\ life[p] = "flushing" /\ mode' = mode /\ life' = life /\ log' = log
      /\ holder' = holder /\ busy' = busy /\ sites' = sites /\ covered' = covered
      /\ calls' = calls /\ failures' = failures
  BY DEF FlushSite, FlushRest
<1>2. OwnerInv(p) /\ EdgeInv(p) /\ FastInv(p) /\ log[p] = p /\ holder[p] = None
  BY <1>1 DEF IndInv, ProcessInv, OwnerInv
<1>3. mode = "fast"
  <2>1. ASSUME mode = "edge" PROVE FALSE
    <3>1. unwritten[p] = {} /\ Len(file[p]) = 2 * Len(calls[p]) /\ calls[p] \in Seq(Calls)
      BY <1>1, <1>2, <2>1 DEF EdgeInv, Started
    <3>2. Len(calls[p]) \in Nat
      BY <3>1, LenProperties
    <3>3. Len(file[p]) % 2 = 0
      BY <3>1, <3>2, EvenOdd
    <3> QED BY <1>2, <3>1, <3>3 DEF FlushSite, FlushRest, Flushed
  <2> QED BY <2>1 DEF IndInv, TypeOK
<1>4. PICK piece \in Pieces :
        /\ Write(p, piece)
        /\ \/ /\ Len(file[p]) % 2 = 0
              /\ \E site \in unwritten[p] :
                   piece = site[1] /\ unwritten' = [unwritten EXCEPT ![p] = @ \ {site}]
           \/ Len(file[p]) % 2 # 0 /\ unwritten' = unwritten
  <2>1. CASE FlushSite(p)
    <3>1. PICK site \in unwritten[p] :
            Write(p, site[1]) /\ unwritten' = [unwritten EXCEPT ![p] = @ \ {site}]
      BY <2>1 DEF FlushSite
    <3>2. site[1] \in Pieces
      BY DEF IndInv, TypeOK, Pieces
    <3> QED BY <1>2, <2>1, <3>1, <3>2 DEF FlushSite, Flushed
  <2>2. CASE FlushRest(p)
    BY <1>2, <2>2 DEF FlushRest, Flushed, Pieces
  <2> QED BY <2>1, <2>2
<1>5. /\ file[p] \in Seq(Pieces) /\ file' \in [Pids -> Seq(Pieces)]
      /\ file'[p] = Append(file[p], piece)
      /\ \A q \in Pids \ {p} : file'[q] = file[q]
  BY <1>1, <1>4, WriteIsAppend
<1>6. unwritten' \in [Pids -> SUBSET (Sites \X Copies)]
      /\ \A q \in Pids \ {p} : unwritten'[q] = unwritten[q]
  <2>1. unwritten \in [Pids -> SUBSET (Sites \X Copies)]
    BY DEF IndInv, TypeOK
  <2>2. unwritten' = unwritten
        \/ \E site \in unwritten[p] : unwritten' = [unwritten EXCEPT ![p] = @ \ {site}]
    BY <1>4
  <2> QED BY <2>1, <2>2
<1>7. TypeOK'
  BY <1>1, <1>5, <1>6 DEF IndInv, TypeOK
<1>8. \A q \in Pids \ {p} : Same(q)
  BY <1>1, <1>5, <1>6 DEF Same
<1>9. OwnerInv(p)'
  BY <1>1, <1>2 DEF OwnerInv, Started
<1>10. EdgeInv(p)'
  BY <1>1, <1>3 DEF EdgeInv
<1>11. FastInv(p)'
  <2>1. HeadsOf(file'[p]) \cup SitesIn(unwritten'[p]) = HeadsOf(file[p]) \cup SitesIn(unwritten[p])
    <3>0. PICK f \in Seq(Pieces) : f = file[p] /\ file'[p] = Append(f, piece)
      BY <1>5
    <3>3. /\ Len(f) % 2 = 0 => HeadsOf(Append(f, piece)) = HeadsOf(f) \cup {piece}
          /\ Len(f) % 2 # 0 => HeadsOf(Append(f, piece)) = HeadsOf(f)
      BY HeadsOfAppend
    <3>1. CASE Len(file[p]) % 2 = 0
      <4>1. PICK site \in unwritten[p] :
              piece = site[1] /\ unwritten'[p] = unwritten[p] \ {site}
        BY <1>4, <3>1 DEF IndInv, TypeOK
      <4>2. HeadsOf(file'[p]) = HeadsOf(file[p]) \cup {site[1]}
        BY <3>0, <3>3, <3>1, <4>1
      <4>3. SitesIn(unwritten[p]) = SitesIn(unwritten'[p]) \cup {site[1]}
        BY <4>1 DEF SitesIn
      <4> QED BY <4>2, <4>3
    <3>2. CASE Len(file[p]) % 2 # 0
      BY <1>4, <3>0, <3>3, <3>2
    <3> QED BY <3>1, <3>2
  <2> QED BY <1>1, <1>2, <1>3, <2>1 DEF FastInv
<1> QED BY <1>1, <1>7, <1>8, <1>9, <1>10, <1>11, StepOfOne DEF ProcessInv

LEMMA EndExitInv ==
  ASSUME IndInv, NEW p \in Pids, EndExit(p)
  PROVE  IndInv'
<1> USE DEF EndExit, Become
<1>1. TypeOK'
  BY DEF IndInv, TypeOK, Lives
<1>2. \A q \in Pids \ {p} : Same(q)
  BY DEF IndInv, TypeOK, Same
<1>3. /\ life[p] = "flushing" /\ life'[p] = "exited" /\ unwritten[p] = {} /\ covered'[p] = {}
      /\ mode' = mode /\ holder' = holder /\ busy' = busy /\ file' = file
      /\ calls' = calls /\ unwritten' = unwritten /\ Flushed(p)
  BY DEF IndInv, TypeOK
<1> HIDE DEF EndExit, Become
<1>4. OwnerInv(p) /\ EdgeInv(p) /\ FastInv(p) /\ log[p] = p
  BY <1>3 DEF IndInv, ProcessInv, OwnerInv
<1>5. OwnerInv(p)'
  BY <1>3, <1>4 DEF OwnerInv, Started
<1>6. EdgeInv(p)'
  BY <1>3, <1>4 DEF EdgeInv, Started, Row
<1>7. FastInv(p)'
  <2>1. SitesIn(unwritten[p]) = {}
    BY <1>3 DEF SitesIn
  <2> QED BY <1>3, <1>4, <2>1 DEF FastInv, Flushed
<1> QED BY <1>1, <1>2, <1>3, <1>5, <1>6, <1>7, StepOfOne DEF ProcessInv

(* A process that is killed leaves its trace as it is.                     *)
LEMMA KillInv ==
  ASSUME IndInv, NEW p \in Pids, Kill(p)
  PROVE  IndInv'
<1> USE DEF Kill, Become
<1>1. TypeOK'
  BY DEF IndInv, TypeOK, Lives
<1>2. \A q \in Pids \ {p} : Same(q)
  BY DEF IndInv, TypeOK, Same
<1>3. /\ life[p] \in {"forked", "running", "flushing"} /\ life'[p] = "killed"
      /\ mode' = mode /\ log' = log /\ holder' = holder /\ busy' = busy /\ file' = file
      /\ covered' = covered /\ calls' = calls /\ unwritten' = unwritten
  BY DEF IndInv, TypeOK
<1> HIDE DEF Kill, Become
<1>4. OwnerInv(p) /\ EdgeInv(p) /\ FastInv(p)
  BY DEF IndInv, ProcessInv
<1>5. OwnerInv(p)'
  BY <1>3, <1>4 DEF OwnerInv, Started
<1>6. life[p] = "forked" => file[p] = << >> /\ calls[p] = << >> /\ holder[p] = None
  BY <1>4 DEF OwnerInv, Started
<1>7. EdgeInv(p)'
  <2>1. CASE life[p] = "forked"
    <3>1. Len(file[p]) = 0 /\ Len(calls[p]) = 0
      BY <1>6, <2>1, EmptySeq
    <3>2. 1 .. Len(calls[p]) = {} /\ Len(file[p]) = 2 * Len(calls[p])
      BY <3>1
    <3>3. mode = "edge" => covered[p] = {} /\ unwritten[p] = {} /\ calls[p] \in Seq(Calls)
      BY <1>4 DEF EdgeInv
    <3> QED BY <1>3, <1>6, <2>1, <3>2, <3>3 DEF EdgeInv
  <2>2. CASE life[p] # "forked"
    BY <1>3, <1>4, <2>2 DEF EdgeInv, Started, Row
  <2> QED BY <2>1, <2>2
<1>8. FastInv(p)'
  BY <1>3, <1>4, <1>6, NoHeads DEF FastInv
<1> QED BY <1>1, <1>2, <1>3, <1>5, <1>7, <1>8, StepOfOne DEF ProcessInv

LEMMA StutterInv == IndInv /\ UNCHANGED vars => IndInv'
<1> SUFFICES ASSUME IndInv, UNCHANGED vars PROVE IndInv'
  OBVIOUS
<1>1. TypeOK' /\ mode' = mode
  BY DEF IndInv, TypeOK, vars
<1>2. \A p \in Pids : Same(p)
  BY DEF vars, Same
<1> QED BY <1>1, <1>2, SameInv DEF IndInv

LEMMA ProgramInv ==
  ASSUME IndInv, NEW p \in Pids, Program(p)
  PROVE  IndInv'
<1>1. ASSUME Start(p) \/ Exec(p) PROVE IndInv'
  <2>1. ClientMain(p) /\ (life[p] = "none" \/ AtSafePoint(p))
    BY <1>1 DEF Start, Exec
  <2>2. life[p] = "none" => holder[p] = None
    BY DEF IndInv, ProcessInv, OwnerInv, Started
  <2>3. holder[p] = None
    BY <2>1, <2>2, SafePointIsUnlocked
  <2>4. \A t \in Threads : busy[p][t] = None
    BY <2>3, ConstantsAssumption DEF IndInv, ProcessInv, OwnerInv
  <2>5. mode = "edge" => unwritten[p] = {}
    BY DEF IndInv, ProcessInv, EdgeInv
  <2> QED BY <2>1, <2>4, <2>5, ClientMainInv
<1>2. ASSUME StartFails(p) \/ EventForkFails(p) PROVE IndInv'
  BY <1>2, OpenFailsInv DEF StartFails, EventForkFails, Started
<1> QED BY <1>1, <1>2, InstrumentInv, MarkCoveredInv, RecordSiteInv, RecordTargetInv, ForkInv,
       EventForkInv DEF Program

LEMMA InvariantHolds == Spec => []IndInv
<1>1. IndInv /\ Next => IndInv'
  BY ProgramInv, BeginExitInv, FlushInv, EndExitInv, KillInv DEF Next, Exit
<1> QED BY InitInv, StutterInv, <1>1, PTL DEF Spec

-----------------------------------------------------------------------------
(* Types: no file has a piece that is neither site, target nor mark.       *)
THEOREM TypeCorrect == Spec => []TypeOK
<1>1. IndInv => TypeOK
  BY DEF IndInv
<1> QED BY <1>1, InvariantHolds, PTL

(* Whether a row is torn is whether the lock is held.                      *)
LEMMA EdgeFile ==
  ASSUME IndInv, mode = "edge", NEW p \in Pids, life[p] \in Started
  PROVE  LET n == Len(calls[p])
             complete == IF Torn(file[p]) THEN n - 1 ELSE n
         IN /\ n \in Nat /\ calls[p] \in Seq(Calls)
            /\ complete \in 0 .. n
            /\ Len(file[p]) \div 2 = complete
            /\ \A i \in 1 .. complete : Row(p, i)
            /\ Torn(file[p]) => n > 0 /\ file[p][Len(file[p])] = calls[p][n][1]
            /\ Torn(file[p]) <=> holder[p] # None
<1> DEFINE n == Len(calls[p])
<1>1. EdgeInv(p)
  BY DEF IndInv, ProcessInv
<1>2. calls[p] \in Seq(Calls) /\ n \in Nat
  BY <1>1, LenProperties DEF EdgeInv
<1> HIDE DEF n
<1>3. CASE holder[p] = None
  <2>1. Len(file[p]) = 2 * n /\ \A i \in 1 .. n : Row(p, i)
    BY <1>1, <1>3 DEF EdgeInv, n
  <2>2. ~Torn(file[p]) /\ Len(file[p]) \div 2 = n
    BY <1>2, <2>1, EvenOdd DEF Torn
  <2>3. n \in 0 .. n
    BY <1>2
  <2> QED BY <1>2, <1>3, <2>1, <2>2, <2>3 DEF n
<1>4. CASE holder[p] # None
  <2>1. /\ n > 0 /\ Len(file[p]) = 2 * n - 1 /\ \A i \in 1 .. n - 1 : Row(p, i)
        /\ file[p][2 * n - 1] = calls[p][n][1]
    BY <1>1, <1>4 DEF EdgeInv, n
  <2>2. Torn(file[p]) /\ Len(file[p]) \div 2 = n - 1
    BY <1>2, <2>1, EvenOdd DEF Torn
  <2>3. n - 1 \in 0 .. n
    BY <1>2, <2>1
  <2> QED BY <1>2, <1>4, <2>1, <2>2, <2>3 DEF n
<1> QED BY <1>3, <1>4

(* Edge mode: the trace of a process is, row by row, the calls it has made *)
(* since it started or was forked, and at most the target of the last call *)
(* is still to be written (record_edge, event_fork).                       *)
THEOREM EdgeTrace == Spec => []EdgeTraceIsHistory
<1>1. IndInv => EdgeTraceIsHistory
  <2> SUFFICES ASSUME IndInv, mode = "edge", NEW p \in Pids, life[p] \in Started
               PROVE  LET n == Len(calls[p])
                          complete == IF Torn(file[p]) THEN n - 1 ELSE n
                      IN /\ Rows(file[p]) = SubSeq(calls[p], 1, complete)
                         /\ Torn(file[p]) => file[p][Len(file[p])] = calls[p][n][1]
    BY DEF EdgeTraceIsHistory, Started
  <2> DEFINE n == Len(calls[p])
             complete == IF Torn(file[p]) THEN n - 1 ELSE n
  <2>1. /\ n \in Nat /\ calls[p] \in Seq(Calls) /\ complete \in 0 .. n
        /\ Len(file[p]) \div 2 = complete
        /\ \A i \in 1 .. complete : Row(p, i)
        /\ Torn(file[p]) => file[p][Len(file[p])] = calls[p][n][1]
    BY EdgeFile
  <2> HIDE DEF complete
  <2>2. Rows(file[p]) = [i \in 1 .. complete |-> <<file[p][2 * i - 1], file[p][2 * i]>>]
    BY <2>1 DEF Rows
  <2>3. \A i \in 1 .. complete : calls[p][i] = <<calls[p][i][1], calls[p][i][2]>>
    <3>1. calls[p] \in [1 .. n -> Calls]
      BY <2>1, LenProperties
    <3>2. \A i \in 1 .. complete : i \in 1 .. n
      BY <2>1
    <3> QED BY <3>1, <3>2 DEF Calls
  <2>4. Rows(file[p]) = [i \in 1 .. complete |-> calls[p][i]]
    BY <2>1, <2>2, <2>3 DEF Row
  <2>5. SubSeq(calls[p], 1, complete) = [i \in 1 .. complete |-> calls[p][i]]
    BY <2>1
  <2> QED BY <2>1, <2>4, <2>5 DEF complete
<1> QED BY <1>1, InvariantHolds, PTL

(* Fast mode: once a process has exited, its trace names exactly the call  *)
(* sites it has run itself (fast_trace_exit, fast_trace_fork).             *)
THEOREM FastTrace == Spec => []FastTraceIsCoverage
<1>1. IndInv => FastTraceIsCoverage
  <2> SUFFICES ASSUME IndInv, mode = "fast", NEW p \in Pids, life[p] = "exited"
               PROVE  SitesOf(Rows(file[p])) = SitesOf(calls[p])
    BY DEF FastTraceIsCoverage
  <2>1. HeadsOf(file[p]) = SitesOf(calls[p]) /\ Len(file[p]) % 2 = 0
    BY DEF IndInv, ProcessInv, FastInv
  <2>2. file[p] \in Seq(Pieces) /\ ~Torn(file[p])
    BY <2>1 DEF IndInv, TypeOK, Torn
  <2> QED BY <2>1, <2>2, RowsAre
<1> QED BY <1>1, InvariantHolds, PTL

(* No trace ever names a site its process has not run, even if it was      *)
(* killed; a process that was not leaves no torn row behind.               *)
THEOREM NoForeignSite == Spec => []NoForeignSites
<1>1. ASSUME IndInv, NEW p \in Pids, life[p] \in Started, mode = "edge"
      PROVE  SitesOf(Rows(file[p])) \subseteq SitesOf(calls[p])
  <2> DEFINE n == Len(calls[p])
             complete == IF Torn(file[p]) THEN n - 1 ELSE n
  <2>1. /\ n \in Nat /\ complete \in 0 .. n
        /\ Len(file[p]) \div 2 = complete
        /\ \A i \in 1 .. complete : Row(p, i)
    BY <1>1, EdgeFile
  <2> HIDE DEF complete
  <2>2. file[p] \in Seq(Pieces)
    BY <1>1 DEF IndInv, TypeOK
  <2>3. /\ Len(Rows(file[p])) = complete
        /\ \A i \in 1 .. complete : Rows(file[p])[i] = <<file[p][2 * i - 1], file[p][2 * i]>>
    BY <2>1, <2>2, RowsAre
  <2>4. \A i \in 1 .. complete : i \in 1 .. n /\ Rows(file[p])[i][1] = calls[p][i][1]
    BY <2>1, <2>3 DEF Row
  <2> QED BY <2>3, <2>4 DEF SitesOf
<1>2. ASSUME IndInv, NEW p \in Pids, life[p] \in Started, mode = "fast"
      PROVE  SitesOf(Rows(file[p])) \subseteq SitesOf(calls[p])
  <2>1. file[p] \in Seq(Pieces)
    BY <1>2 DEF IndInv, TypeOK
  <2>2. SitesOf(Rows(file[p])) \subseteq HeadsOf(file[p])
    BY <2>1, RowsAre
  <2>3. HeadsOf(file[p]) \subseteq SitesOf(calls[p])
    BY <1>2, NoHeads DEF IndInv, ProcessInv, FastInv, Started
  <2> QED BY <2>2, <2>3
<1>3. ASSUME IndInv, NEW p \in Pids, life[p] \notin {"running", "flushing", "killed"}
      PROVE  ~Torn(file[p])
  <2>1. CASE life[p] \notin Started
    <3>1. file[p] = << >>
      BY <1>3, <2>1 DEF IndInv, ProcessInv, OwnerInv
    <3>2. Len(file[p]) = 2 * 0
      BY <3>1, EmptySeq
    <3> QED BY <3>2, EvenOdd DEF Torn
  <2>2. CASE life[p] = "exited" /\ mode = "edge"
    <3>1. holder[p] = None
      BY <1>3, <2>2 DEF IndInv, ProcessInv, OwnerInv
    <3> QED BY <1>3, <2>2, <3>1, EdgeFile DEF Started
  <2>3. CASE life[p] = "exited" /\ mode = "fast"
    <3>1. Len(file[p]) % 2 = 0
      BY <1>3, <2>3 DEF IndInv, ProcessInv, FastInv
    <3>2. \A x : x = 0 => x # 1
      OBVIOUS
    <3> QED BY <3>1, <3>2, Zenon DEF Torn
  <2> QED BY <1>3, <2>1, <2>2, <2>3 DEF IndInv, TypeOK, Started
<1>4. IndInv => mode \in {"edge", "fast"}
  BY DEF IndInv, TypeOK
<1>5. IndInv => NoForeignSites
  BY <1>1, <1>2, <1>3, <1>4 DEF NoForeignSites, Started
<1> QED BY <1>5, InvariantHolds, PTL
=============================================================================
