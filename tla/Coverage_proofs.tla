---------------------------- MODULE Coverage_proofs ----------------------------
(***************************************************************************)
(* Proofs about Coverage, for any binaries whose code lies in their        *)
(* segments, page size, load addresses, tests and bound: what a report     *)
(* counts is what the tests have executed.                                 *)
(***************************************************************************)
EXTENDS CoverageInv, FiniteSetTheorems, SequenceTheorems, WellFoundedInduction, TLAPS

(* Min of a set of naturals is its least member.                           *)
LEMMA MinIsLeast ==
  ASSUME NEW S \in SUBSET Nat, S # {}
  PROVE  Min(S) \in S /\ \A y \in S : Min(S) <= y
<1> DEFINE below == {0 .. x : x \in S}
<1>1. below \subseteq FiniteSubsetsOf(Nat) /\ below # {}
  <2>1. ASSUME NEW x \in S PROVE 0 .. x \in FiniteSubsetsOf(Nat)
    <3>1. IsFiniteSet(0 .. x) /\ 0 .. x \subseteq Nat
      BY FS_Interval
    <3> QED BY <3>1 DEF FiniteSubsetsOf
  <2> QED BY <2>1
<1>2. IsWellFoundedOn(StrictSubsetOrdering(Nat), FiniteSubsetsOf(Nat))
  BY FS_StrictSubsetOrderingWellFounded
<1> HIDE DEF below
<1>3. PICK least \in below : \A t \in below : ~(<<t, least>> \in StrictSubsetOrdering(Nat))
  BY <1>1, <1>2, WFMin
<1>4. PICK x \in S : least = 0 .. x
  BY DEF below
<1>5. ASSUME NEW y \in S PROVE x <= y
  <2>1. <<0 .. y, 0 .. x>> \notin StrictSubsetOrdering(Nat)
    BY <1>3, <1>4 DEF below
  <2>2. SUFFICES ASSUME y < x PROVE FALSE
    OBVIOUS
  <2>3. 0 .. y \subseteq 0 .. x /\ 0 .. x \subseteq Nat /\ x \in 0 .. x /\ x \notin 0 .. y
    BY <2>2
  <2> QED BY <2>1, <2>3 DEF StrictSubsetOrdering
<1> QED BY <1>5 DEF Min

LEMMA LeastIsMin ==
  ASSUME NEW S \in SUBSET Nat, NEW x \in S, \A y \in S : x <= y
  PROVE  Min(S) = x
<1>1. Min(S) \in S /\ \A y \in S : Min(S) <= y
  BY MinIsLeast
<1>2. Min(S) \in Nat /\ x \in Nat /\ Min(S) <= x /\ x <= Min(S)
  BY <1>1
<1> QED BY <1>2

-----------------------------------------------------------------------------
(* Rounding to pages.                                                      *)
LEMMA Division ==
  ASSUME NEW n \in Nat \ {0}, NEW a \in Nat
  PROVE  a \div n \in Nat /\ (a \div n) * n \in Nat /\ (a \div n) * n <= a /\ a < (a \div n) * n + n
OBVIOUS

LEMMA Products ==
  ASSUME NEW n \in Nat \ {0}, NEW a \in Nat, NEW b \in Nat, a <= b
  PROVE  a * n <= b * n /\ (a + 1) * n = a * n + n
OBVIOUS

LEMMA PageIsMonotone ==
  ASSUME NEW a \in Nat, NEW b \in Nat, a <= b
  PROVE  Page(a) \in Nat /\ Page(a) <= a /\ Page(a) <= Page(b)
<1> DEFINE q == a \div PageSize
           r == b \div PageSize
<1>1. PageSize \in Nat \ {0}
  BY ConstantsAssumption
<1>2. /\ q \in Nat /\ q * PageSize \in Nat /\ q * PageSize <= a
      /\ r \in Nat /\ r * PageSize \in Nat /\ b < r * PageSize + PageSize
  BY <1>1, Division
<1>3. Page(a) = q * PageSize /\ Page(b) = r * PageSize
  BY DEF Page
<1> HIDE DEF q, r
<1>4. CASE q <= r
  BY <1>1, <1>2, <1>3, <1>4, Products
<1>5. CASE r + 1 <= q
  <2>1. (r + 1) * PageSize <= q * PageSize /\ (r + 1) * PageSize = r * PageSize + PageSize
    BY <1>1, <1>2, <1>5, Products
  <2> QED BY <1>1, <1>2, <2>1
<1> QED BY <1>2, <1>4, <1>5

(* The image base is below the code.                                       *)
LEMMA ImageBase ==
  ASSUME NEW i \in Images
  PROVE  /\ ElfImageBase(i.loads) \in Nat
         /\ \E s \in i.loads : ElfImageBase(i.loads) = Page(s.vaddr)
         /\ \A s \in i.loads : ElfImageBase(i.loads) <= Page(s.vaddr)
         /\ \A va \in DOMAIN i.code : va \in Nat /\ ElfImageBase(i.loads) <= va
<1> DEFINE bases == {Page(s.vaddr) : s \in i.loads}
<1>1. /\ i.loads # {} /\ \A s \in i.loads : s.vaddr \in Nat /\ s.size \in Nat \ {0}
      /\ \A va \in DOMAIN i.code : \E s \in i.loads : va \in s.vaddr .. s.vaddr + s.size - 1
  BY ImagesAssumption
<1>2. bases \in SUBSET Nat /\ bases # {}
  BY <1>1, PageIsMonotone
<1>3. ElfImageBase(i.loads) \in bases /\ \A b \in bases : ElfImageBase(i.loads) <= b
  BY <1>2, MinIsLeast DEF ElfImageBase
<1>4. ASSUME NEW va \in DOMAIN i.code PROVE va \in Nat /\ ElfImageBase(i.loads) <= va
  <2>1. PICK s \in i.loads : va \in s.vaddr .. s.vaddr + s.size - 1
    BY <1>1
  <2>2. s.vaddr \in Nat /\ va \in Nat /\ s.vaddr <= va
    BY <1>1, <2>1
  <2>3. Page(s.vaddr) \in Nat /\ Page(s.vaddr) <= s.vaddr /\ ElfImageBase(i.loads) <= Page(s.vaddr)
    BY <1>3, <2>2, PageIsMonotone
  <2>4. ElfImageBase(i.loads) \in Nat
    BY <1>2, <1>3
  <2> QED BY <2>2, <2>3, <2>4
<1> QED BY <1>2, <1>3, <1>4

(* DynamoRIO's module start is the image base plus the load bias, as       *)
(* elf_image_base says.                                                    *)
LEMMA ModuleStartIsBiasedBase ==
  ASSUME NEW i \in Images, NEW at \in Nat
  PROVE  ModuleStart(i.loads, at) = at + ElfImageBase(i.loads)
<1> DEFINE base == ElfImageBase(i.loads)
           pages == MappedPages(i.loads, at)
<1>1. /\ base \in Nat /\ \E s \in i.loads : base = Page(s.vaddr)
      /\ \A s \in i.loads : base <= Page(s.vaddr)
  BY ImageBase
<1>2. \A s \in i.loads : s.vaddr \in Nat /\ s.size \in Nat \ {0}
  BY ImagesAssumption
<1> HIDE DEF base
<1>3. at + base \in pages
  <2>1. PICK s \in i.loads : base = Page(s.vaddr)
    BY <1>1
  <2>2. s.vaddr \in s.vaddr .. s.vaddr + s.size - 1
    BY <1>2
  <2> QED BY <2>1, <2>2 DEF MappedPages
<1>4. ASSUME NEW page \in pages PROVE page \in Nat /\ at + base <= page
  <2>1. PICK s \in i.loads : \E a \in s.vaddr .. s.vaddr + s.size - 1 : page = at + Page(a)
    BY DEF MappedPages
  <2>2. PICK a \in s.vaddr .. s.vaddr + s.size - 1 : page = at + Page(a)
    BY <2>1
  <2>3. s.vaddr \in Nat /\ a \in Nat /\ s.vaddr <= a
    BY <1>2
  <2>4. Page(s.vaddr) \in Nat /\ Page(a) \in Nat /\ Page(s.vaddr) <= Page(a)
    BY <2>3, PageIsMonotone
  <2>5. base <= Page(s.vaddr)
    BY <1>1
  <2> QED BY <1>1, <2>2, <2>4, <2>5
<1>5. pages \in SUBSET Nat
  BY <1>4
<1> HIDE DEF pages
<1> QED BY <1>3, <1>4, <1>5, LeastIsMin DEF ModuleStart, base, pages

(* So the tracer's offset of an instruction is its distance to the base.   *)
LEMMA TraceOffsetIs ==
  ASSUME image \in Images, bias \in LoadBiases \cup {0}, NEW va \in DOMAIN image.code
  PROVE  /\ TraceOffset(va) = va - ElfImageBase(image.loads)
         /\ TraceOffset(va) \in Nat /\ va \in Nat
<1>1. bias \in Nat
  BY ConstantsAssumption
<1>2. ModuleStart(image.loads, bias) = bias + ElfImageBase(image.loads)
  BY <1>1, ModuleStartIsBiasedBase
<1>3. va \in Nat /\ ElfImageBase(image.loads) \in Nat /\ ElfImageBase(image.loads) <= va
  BY ImageBase
<1> QED BY <1>1, <1>2, <1>3 DEF TraceOffset

-----------------------------------------------------------------------------
(* A callsite is told from a missing or an unreadable one, a row from a    *)
(* damaged one.                                                            *)
LEMMA Kinds ==
  /\ None # Unreadable /\ \A s \in SiteTypes : s # None /\ s # Unreadable
  /\ \A row \in RowTypes : row.kind \in {"row", "damaged"}
  /\ \A row \in RowTypes : IsRow(row) =>
       /\ row = Row(row.caller, row.target, row.test)
       /\ row.caller \in SiteTypes /\ row.test \in Tests
       /\ row.target \in SiteTypes \cup {None, Unreadable}
       /\ row.target \in SiteTypes => row \in EdgeTypes
  /\ EdgeTypes \subseteq RowTypes /\ \A row \in EdgeTypes : IsRow(row)
<1>1. None # Unreadable
  BY DEF None, Unreadable
<1>2. ASSUME NEW s \in SiteTypes PROVE s # None /\ s # Unreadable
  <2>1. DOMAIN s = {"module", "offset"}
    BY DEF SiteTypes
  <2>2. DOMAIN None = {"kind"} /\ DOMAIN Unreadable = {"kind"}
    BY DEF None, Unreadable
  <2> QED BY <2>1, <2>2
<1>3. ASSUME NEW row \in RowTypes PROVE row.kind \in {"row", "damaged"}
  BY DEF RowTypes
<1>4. ASSUME NEW row \in RowTypes, IsRow(row)
      PROVE  row \in [kind : {"row"}, caller : SiteTypes,
                      target : SiteTypes \cup {None, Unreadable}, test : Tests]
  <2>1. [kind |-> "damaged"].kind # "row"
    OBVIOUS
  <2> QED BY <1>4, <2>1 DEF RowTypes, IsRow
<1>5. EdgeTypes \subseteq RowTypes /\ \A row \in EdgeTypes : IsRow(row)
  BY DEF EdgeTypes, RowTypes, IsRow
<1> QED BY <1>1, <1>2, <1>3, <1>4, <1>5 DEF Row, EdgeTypes

(* One more row or call counts once, or not.                               *)
LEMMA HitsAre ==
  ASSUME NEW rs, NEW n \in Nat, NEW s, NEW t
  PROVE  /\ IsFiniteSet(RowsTo(rs, n, s, t)) /\ Hits(rs, n, s, t) \in Nat
         /\ Hits(rs, n + 1, s, t) =
              Hits(rs, n, s, t) + (IF IsTo(rs[n + 1], s, t) THEN 1 ELSE 0)
<1>1. IsFiniteSet(RowsTo(rs, n, s, t)) /\ n + 1 \notin RowsTo(rs, n, s, t)
  <2>1. IsFiniteSet(1 .. n) /\ RowsTo(rs, n, s, t) \in SUBSET (1 .. n)
    BY FS_Interval DEF RowsTo
  <2> QED BY <2>1, FS_Subset
<1>2. Hits(rs, n, s, t) \in Nat
  BY <1>1, FS_CardinalityType DEF Hits
<1>3. 1 .. n + 1 = 1 .. n \cup {n + 1}
  OBVIOUS
<1>4. CASE IsTo(rs[n + 1], s, t)
  <2>1. RowsTo(rs, n + 1, s, t) = RowsTo(rs, n, s, t) \cup {n + 1}
    BY <1>3, <1>4 DEF RowsTo
  <2> QED BY <1>1, <1>2, <1>4, <2>1, FS_AddElement DEF Hits
<1>5. CASE ~IsTo(rs[n + 1], s, t)
  <2>1. RowsTo(rs, n + 1, s, t) = RowsTo(rs, n, s, t)
    BY <1>3, <1>5 DEF RowsTo
  <2> QED BY <1>1, <1>2, <1>5, <2>1 DEF Hits
<1> QED BY <1>1, <1>2, <1>4, <1>5

LEMMA SameHits ==
  ASSUME NEW rs, NEW qs, NEW n \in Nat, NEW s, NEW t, \A i \in 1 .. n : rs[i] = qs[i]
  PROVE  Hits(rs, n, s, t) = Hits(qs, n, s, t)
<1>1. RowsTo(rs, n, s, t) = RowsTo(qs, n, s, t)
  BY DEF RowsTo
<1> QED BY <1>1 DEF Hits

LEMMA HitsOfAppend ==
  ASSUME NEW S, NEW rs \in Seq(S), NEW row \in S, NEW s, NEW t
  PROVE  Hits(Append(rs, row), Len(Append(rs, row)), s, t) =
           Hits(rs, Len(rs), s, t) + (IF IsTo(row, s, t) THEN 1 ELSE 0)
<1> DEFINE all == Append(rs, row)
           n == Len(rs)
<1>1. /\ n \in Nat /\ Len(all) = n + 1 /\ all[n + 1] = row
      /\ \A i \in 1 .. n : all[i] = rs[i]
  BY AppendProperties, LenProperties
<1> HIDE DEF all, n
<1>2. Hits(all, n, s, t) = Hits(rs, n, s, t)
  BY <1>1, SameHits
<1>3. Hits(all, n + 1, s, t) = Hits(all, n, s, t) + (IF IsTo(all[n + 1], s, t) THEN 1 ELSE 0)
  BY <1>1, HitsAre
<1> QED BY <1>1, <1>2, <1>3 DEF all, n

LEMMA CallsOfAppend ==
  ASSUME NEW S, NEW cs \in Seq(S), NEW call \in S, NEW o, NEW t
  PROVE  /\ Cardinality(CallsTo(cs, Len(cs), o, t)) \in Nat
         /\ Cardinality(CallsTo(Append(cs, call), Len(Append(cs, call)), o, t)) =
              Cardinality(CallsTo(cs, Len(cs), o, t))
                + (IF call.offset = o /\ call.target = t THEN 1 ELSE 0)
<1> DEFINE all == Append(cs, call)
           n == Len(cs)
<1>1. /\ n \in Nat /\ Len(all) = n + 1 /\ all[n + 1] = call
      /\ \A i \in 1 .. n : all[i] = cs[i]
  BY AppendProperties, LenProperties
<1> HIDE DEF all, n
<1>2. IsFiniteSet(CallsTo(cs, n, o, t)) /\ n + 1 \notin CallsTo(cs, n, o, t)
  <2>1. IsFiniteSet(1 .. n) /\ CallsTo(cs, n, o, t) \in SUBSET (1 .. n)
    BY <1>1, FS_Interval DEF CallsTo
  <2> QED BY <1>1, <2>1, FS_Subset
<1>3. Cardinality(CallsTo(cs, n, o, t)) \in Nat
  BY <1>2, FS_CardinalityType
<1>4. 1 .. n + 1 = 1 .. n \cup {n + 1}
  BY <1>1
<1>5. CASE call.offset = o /\ call.target = t
  <2>1. CallsTo(all, n + 1, o, t) = CallsTo(cs, n, o, t) \cup {n + 1}
    BY <1>1, <1>4, <1>5 DEF CallsTo
  <2> QED BY <1>1, <1>2, <1>3, <1>5, <2>1, FS_AddElement DEF all, n
<1>6. CASE ~(call.offset = o /\ call.target = t)
  <2>1. CallsTo(all, n + 1, o, t) = CallsTo(cs, n, o, t)
    BY <1>1, <1>4, <1>6 DEF CallsTo
  <2> QED BY <1>1, <1>3, <1>6, <2>1 DEF all, n
<1> QED BY <1>5, <1>6

LEMMA NothingYet ==
  /\ \A rs, s, t : Hits(rs, 0, s, t) = 0 /\ Cardinality(Skipped(rs, 0)) = 0
  /\ \A cs, o, t : Cardinality(CallsTo(cs, 0, o, t)) = 0
<1>1. 1 .. 0 = {}
  OBVIOUS
<1>2. \A rs, s, t : RowsTo(rs, 0, s, t) = {} /\ Skipped(rs, 0) = {}
  BY <1>1 DEF RowsTo, Skipped
<1>3. \A cs, o, t : CallsTo(cs, 0, o, t) = {}
  BY <1>1 DEF CallsTo
<1> QED BY <1>2, <1>3, FS_EmptySet DEF Hits

-----------------------------------------------------------------------------
LEMMA InitInv == Init => IndInv
<1> SUFFICES ASSUME Init PROVE IndInv
  OBVIOUS
<1>1. /\ pc = "scan" /\ image \in Images /\ scanned = image /\ bias \in LoadBiases \cup {0}
      /\ mode \in {"fast", "edge"} /\ static = None /\ rows = << >> /\ cut = "none" /\ next = 0
      /\ executed = {} /\ edges = << >> /\ skipped = 0 /\ outcome = None /\ calls = << >>
  BY DEF Init
<1>2. Len(<< >>) = 0 /\ DOMAIN << >> = {} /\ \A S : << >> \in Seq(S)
  BY EmptySeq
<1>3. TypeInv
  <2>1. rows \in Seq(RowTypes) /\ calls \in Seq(CallTypes) /\ edges \in Seq(EdgeTypes)
    BY <1>1, <1>2
  <2>2. Len(rows) = 0 /\ Len(calls) = 0 /\ next = 0
    BY <1>1, <1>2
  <2>3. Len(rows) <= MaxCalls /\ Len(calls) <= MaxCalls /\ next \in 0 .. Len(rows)
    BY <2>2, ConstantsAssumption
  <2>4. cut \in {"none", "target", "row"} /\ scanned \in Images
    BY <1>1
  <2> QED BY <1>1, <2>1, <2>3, <2>4 DEF TypeInv
<1>4. ControlInv
  BY <1>1 DEF ControlInv
<1>5. CallsInv
  BY <1>1, <1>2 DEF CallsInv
<1>6. TraceInv
  BY <1>1, <1>2, NothingYet DEF TraceInv
<1>9. CallersInv
  BY <1>1 DEF CallersInv
<1>7. LoadInv
  <2>1. 1 .. next = {} /\ DOMAIN edges = {}
    BY <1>1, <1>2
  <2>2. skipped = Cardinality(Skipped(rows, next))
    BY <1>1, NothingYet
  <2>3. \A s, t \in SiteTypes : Hits(edges, Len(edges), s, t) = Hits(rows, next, s, t)
    BY <1>1, <1>2, NothingYet
  <2> QED BY <1>1, <2>1, <2>2, <2>3 DEF LoadInv
<1>8. OutcomeInv
  BY <1>1 DEF OutcomeInv
<1> QED BY <1>3, <1>4, <1>5, <1>6, <1>7, <1>8, <1>9 DEF IndInv

LEMMA ScanInv ==
  ASSUME IndInv, Scan
  PROVE  IndInv'
<1>1. /\ pc = "scan" /\ pc' = "trace"
      /\ static' = [kind |-> "static", base |-> ElfImageBase(image.loads),
                    sites |-> ScanIndirectCalls(image)]
      /\ UNCHANGED <<image, bias, mode, rows, cut, next, executed, edges, skipped, outcome,
                     calls, scanned>>
  BY DEF Scan, Point, Goto, loaded
<1>2. TypeInv'
  BY <1>1 DEF IndInv, TypeInv, CallTypes, IndirectCalls
<1>3. ControlInv'
  <2>1. static' = Scanned'
    BY <1>1 DEF IndInv, ControlInv, Scanned, Base
  <2> QED BY <1>1, <2>1 DEF IndInv, ControlInv
<1>4. CallsInv'
  <2>1. Base' = Base
    BY <1>1 DEF Base
  <2> QED BY <1>1, <2>1 DEF IndInv, CallsInv
<1>5. TraceInv'
  BY <1>1 DEF IndInv, TraceInv, Traces
<1>6. LoadInv'
  BY <1>1 DEF IndInv, LoadInv
<1>7. OutcomeInv'
  BY <1>1 DEF OutcomeInv
<1>8. CallersInv'
  BY <1>1 DEF IndInv, CallersInv, From
<1> QED BY <1>2, <1>3, <1>4, <1>5, <1>6, <1>7, <1>8 DEF IndInv

(* While the tests run nothing is loaded.                                  *)
LEMMA TracingStep ==
  ASSUME IndInv, pc = "trace", pc' \in {"trace", "load"},
         UNCHANGED <<bias, mode, static, next, executed, edges, skipped, outcome, scanned>>,
         image' \in Images, cut' \in {"none", "target", "row"}, pc' = "trace" => image' = image /\ cut' = "none",
         rows' \in Seq(RowTypes), Len(rows') <= MaxCalls,
         calls' \in Seq(CallTypes), Len(calls') <= MaxCalls,
         CallsInv', TraceInv', pc' = "load" => CallersInv'
  PROVE  IndInv'
<1>1. CallTypes' = CallTypes /\ Base' = Base
  BY DEF CallTypes, Base, IndirectCalls
<1>2. next' = 0 /\ executed' = {} /\ edges' = << >> /\ skipped' = 0 /\ outcome' = None
      /\ static' = Scanned
  BY DEF IndInv, ControlInv
<1>3. Len(<< >>) = 0 /\ DOMAIN << >> = {} /\ \A S : << >> \in Seq(S)
  BY EmptySeq
<1>4. TypeInv'
  <2>1. next' \in 0 .. Len(rows')
    BY <1>2, LenProperties
  <2> QED BY <1>1, <1>2, <1>3, <2>1 DEF IndInv, TypeInv
<1>5. ControlInv'
  <2>1. Scanned' = Scanned
    BY <1>1 DEF Scanned
  <2>2. pc' # "scan" /\ pc' # "done"
    OBVIOUS
  <2>3. pc' \in {"scan", "trace"} => image' = scanned' /\ cut' = "none"
    BY <2>2 DEF IndInv, ControlInv
  <2> QED BY <1>2, <2>1, <2>2, <2>3 DEF ControlInv
<1>6. LoadInv'
  <2>1. 1 .. next' = {} /\ DOMAIN edges' = {}
    BY <1>2, <1>3
  <2>2. skipped' = Cardinality(Skipped(rows', next'))
    BY <1>2, NothingYet
  <2>3. \A s, t \in SiteTypes : Hits(edges', Len(edges'), s, t) = Hits(rows', next', s, t)
    BY <1>2, <1>3, NothingYet
  <2>4. executed' = {rows'[i].caller : i \in {j \in 1 .. next' : IsRow(rows'[j])}}
    BY <1>2, <2>1
  <2> QED BY <2>1, <2>2, <2>3, <2>4 DEF LoadInv
<1>7. OutcomeInv'
  BY DEF OutcomeInv
<1>8. CallersInv'
  BY DEF CallersInv
<1> QED BY <1>4, <1>5, <1>6, <1>7, <1>8 DEF IndInv

-----------------------------------------------------------------------------
(* A row that no call of the binary leaves.                                *)
LEMMA RowOfNoCall ==
  ASSUME IndInv, cut = "none", cut' = cut, mode' = mode, calls' = calls,
         NEW row \in RowTypes, rows' = Append(rows, row),
         IsRow(row) => /\ row.caller.module = "library"
                       /\ row.target \in (IF mode = "edge" THEN SiteTypes ELSE {None})
  PROVE  TraceInv'
<1> DEFINE n == Len(rows)
<1>1. /\ rows \in Seq(RowTypes) /\ n \in Nat /\ DOMAIN rows = 1 .. n
      /\ Len(rows') = n + 1 /\ DOMAIN rows' = 1 .. n + 1
      /\ \A i \in 1 .. n : rows'[i] = rows[i]
      /\ rows'[n + 1] = row
  <2>1. rows \in Seq(RowTypes)
    BY DEF IndInv, TypeInv
  <2>2. rows' \in Seq(RowTypes)
    BY <2>1, AppendProperties
  <2> QED BY <2>1, <2>2, AppendProperties, LenProperties
<1> HIDE DEF n
<1>2. ASSUME NEW i \in 1 .. n + 1, IsRow(rows'[i])
      PROVE  /\ rows'[i].target \in (IF mode = "edge" THEN SiteTypes ELSE {None})
             /\ rows'[i].caller.module = "binary" =>
                  \E j \in DOMAIN calls : Traces(rows'[i], calls[j])
  <2>1. CASE i = n + 1
    BY <1>1, <1>2, <2>1
  <2>2. CASE i # n + 1
    <3>1. i \in DOMAIN rows /\ rows'[i] = rows[i]
      BY <1>1, <2>2
    <3> QED BY <1>2, <3>1 DEF IndInv, TraceInv
  <2> QED BY <2>1, <2>2
<1>3. ASSUME NEW j \in DOMAIN calls PROVE \E i \in 1 .. n + 1 : Traces(rows'[i], calls[j])
  <2>1. PICK i \in DOMAIN rows : Traces(rows[i], calls[j])
    BY DEF IndInv, TraceInv
  <2>2. i \in 1 .. n + 1 /\ rows'[i] = rows[i]
    BY <1>1
  <2> QED BY <2>1, <2>2
<1>4. ASSUME mode = "edge", NEW o \in Nat, NEW t \in SiteTypes
      PROVE  Hits(rows', Len(rows'), Site("binary", o), t) = Cardinality(CallsTo(calls, Len(calls), o, t))
  <2>1. ~IsTo(row, Site("binary", o), t)
    BY DEF IsTo, Site
  <2>2. Hits(rows', Len(rows'), Site("binary", o), t) = Hits(rows, n, Site("binary", o), t) + 0
    BY <1>1, <2>1, HitsOfAppend DEF n
  <2>3. Hits(rows, n, Site("binary", o), t) \in Nat
    BY <1>1, HitsAre
  <2>4. Hits(rows, n, Site("binary", o), t) = Cardinality(CallsTo(calls, Len(calls), o, t))
    BY <1>4 DEF IndInv, TraceInv, n
  <2> QED BY <2>2, <2>3, <2>4
<1> QED BY <1>1, <1>2, <1>3, <1>4 DEF TraceInv, Traces

(* A call whose row is written with it.                                    *)
LEMMA CallWithRow ==
  ASSUME IndInv, cut = "none", cut' = cut, mode' = mode,
         NEW call \in CallTypes, calls' = Append(calls, call),
         NEW row \in RowTypes, rows' = Append(rows, row), Traces(row, call),
         row.target \in (IF mode = "edge" THEN SiteTypes ELSE {None})
  PROVE  TraceInv'
<1> DEFINE n == Len(rows)
           m == Len(calls)
<1>1. /\ rows \in Seq(RowTypes) /\ n \in Nat /\ DOMAIN rows = 1 .. n
      /\ Len(rows') = n + 1 /\ DOMAIN rows' = 1 .. n + 1
      /\ \A i \in 1 .. n : rows'[i] = rows[i]
      /\ rows'[n + 1] = row
  <2>1. rows \in Seq(RowTypes)
    BY DEF IndInv, TypeInv
  <2>2. rows' \in Seq(RowTypes)
    BY <2>1, AppendProperties
  <2> QED BY <2>1, <2>2, AppendProperties, LenProperties
<1>2. /\ calls \in Seq(CallTypes) /\ m \in Nat /\ DOMAIN calls = 1 .. m
      /\ Len(calls') = m + 1 /\ DOMAIN calls' = 1 .. m + 1
      /\ \A j \in 1 .. m : calls'[j] = calls[j]
      /\ calls'[m + 1] = call
  <2>1. calls \in Seq(CallTypes)
    BY DEF IndInv, TypeInv
  <2>2. calls' \in Seq(CallTypes)
    BY <2>1, AppendProperties
  <2> QED BY <2>1, <2>2, AppendProperties, LenProperties
<1> HIDE DEF n, m
<1>3. ASSUME NEW i \in 1 .. n + 1, IsRow(rows'[i])
      PROVE  /\ rows'[i].target \in (IF mode = "edge" THEN SiteTypes ELSE {None})
             /\ rows'[i].caller.module = "binary" =>
                  \E j \in 1 .. m + 1 : Traces(rows'[i], calls'[j])
  <2>1. CASE i = n + 1
    <3>1. m + 1 \in 1 .. m + 1
      BY <1>2
    <3> QED BY <1>1, <1>2, <2>1, <3>1
  <2>2. CASE i # n + 1
    <3>1. i \in DOMAIN rows /\ rows'[i] = rows[i]
      BY <1>1, <2>2
    <3>2. \A j \in DOMAIN calls : j \in 1 .. m + 1 /\ calls'[j] = calls[j]
      BY <1>2
    <3> QED BY <1>3, <3>1, <3>2 DEF IndInv, TraceInv
  <2> QED BY <2>1, <2>2
<1>4. ASSUME NEW j \in 1 .. m + 1 PROVE \E i \in 1 .. n + 1 : Traces(rows'[i], calls'[j])
  <2>1. CASE j = m + 1
    <3>1. n + 1 \in 1 .. n + 1
      BY <1>1
    <3> QED BY <1>1, <1>2, <2>1, <3>1
  <2>2. CASE j # m + 1
    <3>1. j \in DOMAIN calls /\ calls'[j] = calls[j]
      BY <1>2, <2>2
    <3>2. PICK i \in DOMAIN rows : Traces(rows[i], calls[j])
      BY <3>1 DEF IndInv, TraceInv
    <3>3. i \in 1 .. n + 1 /\ rows'[i] = rows[i]
      BY <1>1
    <3> QED BY <3>1, <3>2, <3>3
  <2> QED BY <2>1, <2>2
<1>5. ASSUME mode = "edge", NEW o \in Nat, NEW t \in SiteTypes
      PROVE  Hits(rows', Len(rows'), Site("binary", o), t)
               = Cardinality(CallsTo(calls', Len(calls'), o, t))
  <2>1. IsTo(row, Site("binary", o), t) <=> call.offset = o /\ call.target = t
    BY <1>5 DEF IsTo, Site, Traces
  <2>2. Hits(rows', Len(rows'), Site("binary", o), t)
          = Hits(rows, n, Site("binary", o), t) + (IF IsTo(row, Site("binary", o), t) THEN 1 ELSE 0)
    BY <1>1, HitsOfAppend DEF n
  <2>3. Cardinality(CallsTo(calls', Len(calls'), o, t))
          = Cardinality(CallsTo(calls, m, o, t))
              + (IF call.offset = o /\ call.target = t THEN 1 ELSE 0)
    BY <1>2, CallsOfAppend DEF m
  <2>4. Hits(rows, n, Site("binary", o), t) = Cardinality(CallsTo(calls, m, o, t))
    BY <1>5 DEF IndInv, TraceInv, n, m
  <2>5. CASE IsTo(row, Site("binary", o), t)
    BY <2>1, <2>2, <2>3, <2>4, <2>5
  <2>6. CASE ~IsTo(row, Site("binary", o), t)
    BY <2>1, <2>2, <2>3, <2>4, <2>6
  <2> QED BY <2>5, <2>6
<1>6. \A i \in DOMAIN rows' : IsRow(rows'[i]) =>
        /\ rows'[i].target \in (IF mode' = "edge" THEN SiteTypes ELSE {None})
        /\ rows'[i].caller.module = "binary" =>
             \E j \in DOMAIN calls' : Traces(rows'[i], calls'[j])
  BY <1>1, <1>2, <1>3
<1>7. \A j \in DOMAIN calls' : \E i \in DOMAIN rows' : Traces(rows'[i], calls'[j])
  BY <1>1, <1>2, <1>4
<1> QED BY <1>5, <1>6, <1>7 DEF TraceInv, Traces

(* A call whose row the fast tracer leaves out, as its site has one.       *)
LEMMA CallWithoutRow ==
  ASSUME IndInv, cut = "none", cut' = cut, mode' = mode, mode = "fast", rows' = rows,
         NEW call \in CallTypes, calls' = Append(calls, call),
         NEW earlier \in DOMAIN calls, calls[earlier].offset = call.offset
  PROVE  TraceInv'
<1> DEFINE m == Len(calls)
<1>1. /\ calls \in Seq(CallTypes) /\ m \in Nat /\ DOMAIN calls = 1 .. m
      /\ DOMAIN calls' = 1 .. m + 1
      /\ \A j \in 1 .. m : calls'[j] = calls[j]
      /\ calls'[m + 1] = call
  <2>1. calls \in Seq(CallTypes)
    BY DEF IndInv, TypeInv
  <2>2. calls' \in Seq(CallTypes)
    BY <2>1, AppendProperties
  <2> QED BY <2>1, <2>2, AppendProperties, LenProperties
<1> HIDE DEF m
<1>2. ASSUME NEW i \in DOMAIN rows, IsRow(rows[i])
      PROVE  /\ rows[i].target \in (IF mode = "edge" THEN SiteTypes ELSE {None})
             /\ rows[i].caller.module = "binary" =>
                  \E j \in 1 .. m + 1 : Traces(rows[i], calls'[j])
  <2>1. \A j \in DOMAIN calls : j \in 1 .. m + 1 /\ calls'[j] = calls[j]
    BY <1>1
  <2> QED BY <1>2, <2>1 DEF IndInv, TraceInv
<1>3. ASSUME NEW j \in 1 .. m + 1 PROVE \E i \in DOMAIN rows : Traces(rows[i], calls'[j])
  <2>1. PICK k \in DOMAIN calls : calls[k].offset = calls'[j].offset
    <3>1. CASE j = m + 1
      BY <1>1, <3>1
    <3>2. CASE j # m + 1
      BY <1>1, <3>2
    <3> QED BY <3>1, <3>2
  <2>2. PICK i \in DOMAIN rows : Traces(rows[i], calls[k])
    BY DEF IndInv, TraceInv
  <2> QED BY <2>1, <2>2 DEF Traces
<1>4. \A i \in DOMAIN rows' : IsRow(rows'[i]) =>
        /\ rows'[i].target \in (IF mode' = "edge" THEN SiteTypes ELSE {None})
        /\ rows'[i].caller.module = "binary" =>
             \E j \in DOMAIN calls' : Traces(rows'[i], calls'[j])
  BY <1>1, <1>2
<1>5. \A j \in DOMAIN calls' : \E i \in DOMAIN rows' : Traces(rows'[i], calls'[j])
  BY <1>1, <1>3
<1>6. mode' # "edge"
  OBVIOUS
<1> QED BY <1>4, <1>5, <1>6 DEF TraceInv, Traces

(* A test's call leaves its row, or a row with its site is there.           *)
LEMMA CallInv ==
  ASSUME IndInv, Call
  PROVE  IndInv'
<1>1. /\ pc = "trace" /\ image = scanned /\ cut = "none" /\ image \in Images
      /\ bias \in LoadBiases \cup {0} /\ mode \in {"fast", "edge"}
      /\ Len(calls) < MaxCalls /\ Len(rows) < MaxCalls
      /\ UNCHANGED <<pc, image, bias, mode, static, cut, next, executed, edges, skipped,
                     outcome, scanned>>
  BY DEF Call, Point, IndInv, TypeInv, ControlInv, loaded
<1>2. PICK va \in IndirectCalls(image), to \in {"binary", "library"}, t \in Tests :
        LET caller == Site("binary", TraceOffset(va))
            target == Site(to, 0)
            call == [site |-> va, offset |-> caller.offset, target |-> target, test |-> t]
        IN /\ calls' = Append(calls, call)
           /\ \/ mode = "edge" /\ rows' = Append(rows, Row(caller, target, t))
              \/ mode = "fast" /\ rows' = Append(rows, Row(caller, None, t))
              \/ /\ mode = "fast"
                 /\ \E i \in DOMAIN calls : calls[i].site = va /\ calls[i].test = t
                 /\ UNCHANGED rows
  BY DEF Call
<1>3. PICK o : o = TraceOffset(va)
  OBVIOUS
<1> DEFINE caller == Site("binary", o)
           target == Site(to, 0)
           call == [site |-> va, offset |-> o, target |-> target, test |-> t]
<1>4. /\ calls' = Append(calls, call)
      /\ \/ mode = "edge" /\ rows' = Append(rows, Row(caller, target, t))
         \/ mode = "fast" /\ rows' = Append(rows, Row(caller, None, t))
         \/ /\ mode = "fast"
            /\ \E i \in DOMAIN calls : calls[i].site = va /\ calls[i].test = t
            /\ UNCHANGED rows
  <2>1. Site("binary", TraceOffset(va)) = caller /\ caller.offset = o
    BY <1>3 DEF Site
  <2> QED BY <1>2, <2>1
<1>5. o \in Nat /\ va \in Nat /\ o = va - Base
  BY <1>1, <1>3, TraceOffsetIs DEF IndirectCalls, Base
<1>6. call \in CallTypes
  <2>1. target \in SiteTypes
    BY DEF Site, SiteTypes
  <2> QED BY <1>1, <1>5, <2>1 DEF CallTypes
<1>7. caller \in SiteTypes /\ target \in SiteTypes
  BY <1>5 DEF Site, SiteTypes
<1>8. calls \in Seq(CallTypes) /\ rows \in Seq(RowTypes)
  BY DEF IndInv, TypeInv
<1>9. /\ calls' \in Seq(CallTypes) /\ Len(calls') <= MaxCalls
      /\ \A j \in DOMAIN calls' : (j \in DOMAIN calls /\ calls'[j] = calls[j]) \/ calls'[j] = call
  <2>1. calls' \in Seq(CallTypes) /\ Len(calls') = Len(calls) + 1
    BY <1>4, <1>6, <1>8, AppendProperties
  <2>2. Len(calls) \in Nat /\ DOMAIN calls = 1 .. Len(calls) /\ DOMAIN calls' = 1 .. Len(calls')
    BY <1>8, <2>1, LenProperties
  <2>3. Len(calls') <= MaxCalls
    BY <1>1, <2>1, <2>2, ConstantsAssumption
  <2> QED BY <1>4, <1>6, <1>8, <2>1, <2>2, <2>3, AppendProperties
<1>10. CallsInv'
  <2>1. Base' = Base
    BY <1>1 DEF Base
  <2>2. call.offset = call.site - Base
    BY <1>5
  <2>3. \A j \in DOMAIN calls : calls[j].offset = calls[j].site - Base
    BY DEF IndInv, CallsInv
  <2> HIDE DEF call
  <2> QED BY <1>9, <2>1, <2>2, <2>3 DEF CallsInv
<1>11. rows' \in Seq(RowTypes) /\ Len(rows') <= MaxCalls /\ TraceInv'
  <2>1. ASSUME NEW row \in RowTypes, rows' = Append(rows, row), Traces(row, call),
               row.target \in (IF mode = "edge" THEN SiteTypes ELSE {None})
        PROVE  rows' \in Seq(RowTypes) /\ Len(rows') <= MaxCalls /\ TraceInv'
    <3>1. rows' \in Seq(RowTypes) /\ Len(rows') = Len(rows) + 1 /\ Len(rows) \in Nat
      BY <1>8, <2>1, AppendProperties, LenProperties
    <3>2. Len(rows') <= MaxCalls
      BY <1>1, <3>1, ConstantsAssumption
    <3>3. TraceInv'
      BY <1>1, <1>4, <1>6, <2>1, CallWithRow
    <3> QED BY <3>1, <3>2, <3>3
  <2>2. CASE mode = "edge" /\ rows' = Append(rows, Row(caller, target, t))
    <3>1. Row(caller, target, t) \in RowTypes
      BY <1>7 DEF Row, RowTypes
    <3>2. Traces(Row(caller, target, t), call)
      BY DEF Traces, IsRow, Row
    <3>3. Row(caller, target, t).target = target
      BY DEF Row
    <3> QED BY <1>7, <2>1, <2>2, <3>1, <3>2, <3>3
  <2>3. CASE mode = "fast" /\ rows' = Append(rows, Row(caller, None, t))
    <3>1. Row(caller, None, t) \in RowTypes
      BY <1>7 DEF Row, RowTypes
    <3>2. Traces(Row(caller, None, t), call)
      BY <2>3 DEF Traces, IsRow, Row
    <3>3. Row(caller, None, t).target = None
      BY DEF Row
    <3> QED BY <2>1, <2>3, <3>1, <3>2, <3>3
  <2>4. CASE /\ mode = "fast"
             /\ \E i \in DOMAIN calls : calls[i].site = va /\ calls[i].test = t
             /\ UNCHANGED rows
    <3>1. PICK i \in DOMAIN calls : calls[i].site = va
      BY <2>4
    <3>2. calls[i].offset = call.offset
      BY <1>5, <3>1 DEF IndInv, CallsInv
    <3>3. TraceInv'
      BY <1>1, <1>4, <1>6, <2>4, <3>2, CallWithoutRow
    <3>4. Len(rows) <= MaxCalls
      BY DEF IndInv, TypeInv
    <3>5. rows' = rows
      BY <2>4
    <3> QED BY <1>8, <3>3, <3>4, <3>5
  <2> QED BY <1>4, <2>2, <2>3, <2>4
<1>12. image' \in Images /\ cut' \in {"none", "target", "row"} /\ pc' = "trace" /\ image' = image /\ cut' = "none"
  <2>1. cut \in {"none", "target", "row"}
    BY DEF IndInv, TypeInv
  <2> QED BY <1>1, <2>1
<1> QED BY <1>1, <1>9, <1>10, <1>11, <1>12, TracingStep

LEMMA RowOfNoCallInv ==
  ASSUME IndInv, pc = "trace", Len(rows) < MaxCalls,
         UNCHANGED <<pc, image, bias, mode, static, cut, next, executed, edges, skipped,
                     outcome, calls, scanned>>,
         NEW row \in RowTypes, rows' = Append(rows, row),
         IsRow(row) => /\ row.caller.module = "library"
                       /\ row.target \in (IF mode = "edge" THEN SiteTypes ELSE {None})
  PROVE  IndInv'
<1>1. cut = "none" /\ image \in Images /\ cut \in {"none", "target", "row"}
  BY DEF IndInv, TypeInv, ControlInv
<1>2. TraceInv'
  BY <1>1, RowOfNoCall
<1>3. rows \in Seq(RowTypes) /\ calls \in Seq(CallTypes) /\ Len(calls) <= MaxCalls
  BY DEF IndInv, TypeInv
<1>4. rows' \in Seq(RowTypes) /\ Len(rows') <= MaxCalls
  <2>1. rows' \in Seq(RowTypes) /\ Len(rows') = Len(rows) + 1 /\ Len(rows) \in Nat
    BY <1>3, AppendProperties, LenProperties
  <2>2. Len(rows) + 1 <= MaxCalls
    BY <2>1, ConstantsAssumption
  <2> QED BY <2>1, <2>2
<1>5. CallsInv'
  <2>1. Base' = Base
    BY DEF Base
  <2> QED BY <2>1 DEF IndInv, CallsInv
<1>6. /\ image' \in Images /\ cut' \in {"none", "target", "row"} /\ pc' = "trace" /\ image' = image /\ cut' = "none"
      /\ calls' \in Seq(CallTypes) /\ Len(calls') <= MaxCalls
  BY <1>1, <1>3
<1> QED BY <1>2, <1>4, <1>5, <1>6, TracingStep

LEMMA CallInLibraryInv ==
  ASSUME IndInv, CallInLibrary
  PROVE  IndInv'
<1>1. /\ pc = "trace" /\ Len(rows) < MaxCalls
      /\ UNCHANGED <<pc, image, bias, mode, static, cut, next, executed, edges, skipped,
                     outcome, calls, scanned>>
  BY DEF CallInLibrary, Point, loaded
<1>2. PICK va \in IndirectCalls(image), t \in Tests :
        LET at == Site("library", TraceOffset(va))
        IN rows' = Append(rows, Row(at, IF mode = "edge" THEN at ELSE None, t))
  BY DEF CallInLibrary
<1> DEFINE at == Site("library", TraceOffset(va))
           row == Row(at, IF mode = "edge" THEN at ELSE None, t)
<1>3. at \in SiteTypes /\ at.module = "library"
  <2>1. image \in Images /\ bias \in LoadBiases \cup {0}
    BY DEF IndInv, TypeInv
  <2>2. TraceOffset(va) \in Nat
    BY <2>1, TraceOffsetIs DEF IndirectCalls
  <2> QED BY <2>2 DEF Site, SiteTypes
<1>4. row \in RowTypes
  BY <1>3 DEF Row, RowTypes
<1>5. /\ row.caller.module = "library"
      /\ row.target \in (IF mode = "edge" THEN SiteTypes ELSE {None})
  BY <1>3 DEF Row
<1>6. rows' = Append(rows, row)
  BY <1>2
<1> HIDE DEF row
<1> QED BY <1>1, <1>4, <1>5, <1>6, RowOfNoCallInv

LEMMA DamagedInv ==
  ASSUME IndInv, Damaged
  PROVE  IndInv'
<1> DEFINE row == [kind |-> "damaged"]
<1>1. /\ pc = "trace" /\ Len(rows) < MaxCalls /\ rows' = Append(rows, row)
      /\ UNCHANGED <<pc, image, bias, mode, static, cut, next, executed, edges, skipped,
                     outcome, calls, scanned>>
  BY DEF Damaged, Point, loaded
<1>2. row \in RowTypes /\ ~IsRow(row)
  BY DEF RowTypes, IsRow
<1> HIDE DEF row
<1> QED BY <1>1, <1>2, RowOfNoCallInv

LEMMA RebuildInv ==
  ASSUME IndInv, Rebuild
  PROVE  IndInv'
<1>1. /\ pc = "trace" /\ pc' = "load" /\ image' \in Images
      /\ UNCHANGED <<bias, mode, static, rows, cut, next, executed, edges, skipped, outcome,
                     calls, scanned>>
  BY DEF Rebuild, Point, Goto, loaded
<1>2. CallsInv'
  <2>1. Base' = Base
    BY <1>1 DEF Base
  <2> QED BY <1>1, <2>1 DEF IndInv, CallsInv
<1>3. TraceInv'
  BY <1>1 DEF IndInv, TraceInv, Traces
<1>4. /\ rows \in Seq(RowTypes) /\ Len(rows) <= MaxCalls
      /\ calls \in Seq(CallTypes) /\ Len(calls) <= MaxCalls /\ cut \in {"none", "target", "row"}
  BY DEF IndInv, TypeInv
<1>5. /\ rows' \in Seq(RowTypes) /\ Len(rows') <= MaxCalls
      /\ calls' \in Seq(CallTypes) /\ Len(calls') <= MaxCalls /\ cut' \in {"none", "target", "row"}
      /\ pc' # "trace"
  BY <1>1, <1>4
<1>6. CallersInv'
  BY <1>1 DEF IndInv, CallersInv, From
<1> QED BY <1>1, <1>2, <1>3, <1>5, <1>6, TracingStep

(* A row that lost its end is a row still.                                 *)
LEMMA CutRowsAreRows ==
  ASSUME NEW row \in RowTypes, IsRow(row), NEW lost \in {"target", "row"}
  PROVE  CutRows(row, lost) \subseteq RowTypes
<1>1. /\ row.caller \in SiteTypes /\ row.test \in Tests
      /\ row.target \in SiteTypes \cup {None, Unreadable}
  BY Kinds
<1>2. row.caller.offset \in Nat /\ row.caller.module \in {"binary", "library"}
  BY <1>1 DEF SiteTypes
<1>3. row.caller.offset \div Radix \in Nat
  BY <1>2, ConstantsAssumption, Division
<1>4. Site(row.caller.module, row.caller.offset \div Radix) \in SiteTypes
  BY <1>2, <1>3 DEF Site, SiteTypes
<1> QED BY <1>1, <1>4 DEF CutRows, Row, RowTypes

(* It still has the caller of its call.                                    *)
LEMMA TargetLost ==
  ASSUME IndInv, pc = "trace", rows # << >>, calls' = calls,
         NEW row, rows[Len(rows)].kind = "row", row \in CutRows(rows[Len(rows)], "target"),
         rows' = [rows EXCEPT ![Len(rows)] = row]
  PROVE  CallersInv'
<1> DEFINE n == Len(rows)
<1>1. cut = "none" /\ rows \in Seq(RowTypes) /\ DOMAIN rows = 1 .. n /\ n \in Nat
  BY LenProperties DEF IndInv, TypeInv, ControlInv
<1> HIDE DEF n
<1>2. /\ rows' = [rows EXCEPT ![n] = row] /\ IsRow(rows[n])
      /\ IsRow(row) /\ row.caller = rows[n].caller
  <2>1. PICK t : row = Row(rows[n].caller, t, rows[n].test)
    BY DEF CutRows, n
  <2>2. row.kind = "row" /\ row.caller = rows[n].caller
    BY <2>1 DEF Row
  <2> QED BY <2>2 DEF n, IsRow
<1>3. DOMAIN rows' = DOMAIN rows
  BY <1>1, <1>2
<1>4. \A i \in DOMAIN rows :
        (IsRow(rows'[i]) <=> IsRow(rows[i])) /\ (IsRow(rows[i]) => rows'[i].caller = rows[i].caller)
  <2> TAKE i \in DOMAIN rows
  <2>1. CASE i = n
    BY <1>1, <1>2, <2>1
  <2>2. CASE i # n
    BY <1>1, <1>2, <2>2
  <2> QED BY <2>1, <2>2
<1>5. \A i \in DOMAIN rows : (IsRow(rows[i]) /\ rows[i].caller.module = "binary") =>
        \E j \in DOMAIN calls : From(rows[i], calls[j])
  BY <1>1 DEF IndInv, TraceInv, Traces, From
<1>6. \A j \in DOMAIN calls : \E i \in DOMAIN rows : From(rows[i], calls[j])
  BY <1>1 DEF IndInv, TraceInv, Traces, From
<1>7. \A i \in DOMAIN rows, j \in DOMAIN calls :
        From(rows[i], calls[j]) => From(rows'[i], calls[j])
  BY <1>4 DEF From
<1>8. ASSUME NEW i \in DOMAIN rows, IsRow(rows'[i]), rows'[i].caller.module = "binary"
      PROVE  \E j \in DOMAIN calls : From(rows'[i], calls[j])
  <2>1. IsRow(rows[i]) /\ rows[i].caller.module = "binary"
    BY <1>4, <1>8
  <2> QED BY <1>5, <1>7, <2>1
<1>9. ASSUME NEW j \in DOMAIN calls
      PROVE  \E i \in DOMAIN rows : From(rows'[i], calls[j])
  BY <1>6, <1>7
<1> QED BY <1>3, <1>8, <1>9 DEF CallersInv

LEMMA EndTestsInv ==
  ASSUME IndInv, EndTests
  PROVE  IndInv'
<1>1. /\ pc = "trace" /\ pc' = "load" /\ cut = "none"
      /\ UNCHANGED <<image, bias, mode, static, next, executed, edges, skipped, outcome,
                     calls, scanned>>
  <2>1. cut \in {"none", "target", "row"} /\ (pc = "trace" => cut = "none")
    BY DEF IndInv, TypeInv, ControlInv
  <2> QED BY <2>1 DEF EndTests, Point, Goto, loaded
<1>2. CallsInv'
  <2>1. Base' = Base
    BY <1>1 DEF Base
  <2> QED BY <1>1, <2>1 DEF IndInv, CallsInv
<1>3. /\ image \in Images /\ rows \in Seq(RowTypes) /\ Len(rows) <= MaxCalls
      /\ calls \in Seq(CallTypes) /\ Len(calls) <= MaxCalls
  BY DEF IndInv, TypeInv
<1>4. /\ image' \in Images /\ calls' \in Seq(CallTypes) /\ Len(calls') <= MaxCalls
      /\ pc' # "trace"
  BY <1>1, <1>3
<1>5. /\ rows' \in Seq(RowTypes) /\ Len(rows') <= MaxCalls /\ cut' \in {"none", "target", "row"}
      /\ TraceInv' /\ CallersInv'
  <2>1. CASE UNCHANGED <<rows, cut>>
    <3>1. TraceInv'
      BY <1>1, <2>1 DEF IndInv, TraceInv, Traces
    <3>2. rows' = rows /\ cut' = "none"
      BY <1>1, <2>1
    <3>3. CallersInv'
      BY <3>2 DEF CallersInv
    <3> QED BY <1>3, <3>1, <3>2, <3>3
  <2>2. ASSUME rows # << >>, rows' = SubSeq(rows, 1, Len(rows) - 1)
        PROVE  rows' \in Seq(RowTypes) /\ Len(rows') <= MaxCalls
    <3>1. Len(rows) \in Nat /\ Len(rows) # 0
      BY <1>3, <2>2, EmptySeq, LenProperties
    <3>2. Len(rows) - 1 \in Nat /\ Len(rows) - 1 <= Len(rows)
      BY <3>1
    <3>3. PICK n : n = Len(rows) - 1
      OBVIOUS
    <3>4. n \in Nat /\ n <= Len(rows) /\ rows' = SubSeq(rows, 1, n)
      BY <2>2, <3>2, <3>3
    <3>5. \A i \in 1 .. n : rows[i] \in RowTypes
      <4>1. \A i \in 1 .. n : i \in 1 .. Len(rows)
        BY <3>1, <3>4
      <4> QED BY <1>3, <4>1, ElementOfSeq
    <3>6. rows' \in Seq(RowTypes) /\ Len(rows') = IF 1 <= n THEN n - 1 + 1 ELSE 0
      BY <3>4, <3>5, SubSeqProperties
    <3>7. Len(rows') \in Nat /\ Len(rows') <= n
      BY <3>4, <3>6
    <3> QED BY <1>3, <3>1, <3>4, <3>6, <3>7, ConstantsAssumption
  <2>3. ASSUME rows # << >>, rows[Len(rows)].kind = "row", NEW lost \in {"target", "row"},
               NEW row \in CutRows(rows[Len(rows)], lost), rows' = [rows EXCEPT ![Len(rows)] = row]
        PROVE  /\ rows' \in Seq(RowTypes) /\ Len(rows') <= MaxCalls
               /\ cut' = lost => CallersInv'
    <3>1. Len(rows) \in Nat /\ Len(rows) # 0
      BY <1>3, <2>3, EmptySeq, LenProperties
    <3>2. Len(rows) \in 1 .. Len(rows) /\ rows[Len(rows)] \in RowTypes
      BY <1>3, <3>1, ElementOfSeq
    <3>3. row \in RowTypes
      BY <2>3, <3>2, CutRowsAreRows DEF IsRow
    <3>4. rows' \in Seq(RowTypes) /\ Len(rows') = Len(rows)
      BY <1>3, <2>3, <3>2, <3>3, ExceptSeq
    <3>5. CASE lost = "row"
      BY <1>3, <3>4, <3>5 DEF CallersInv
    <3>6. CASE lost = "target"
      <4>1. CallersInv'
        BY <1>1, <1>3, <2>3, <3>1, <3>2, <3>4, <3>6, TargetLost
      <4> QED BY <1>3, <3>4, <4>1
    <3> QED BY <3>5, <3>6
  <2>4. ASSUME rows # << >>, cut' \in {"target", "row"},
               \/ cut' = "row" /\ rows' = SubSeq(rows, 1, Len(rows) - 1)
               \/ /\ rows[Len(rows)].kind = "row"
                  /\ \E row \in CutRows(rows[Len(rows)], cut') : rows' = [rows EXCEPT ![Len(rows)] = row]
        PROVE  rows' \in Seq(RowTypes) /\ Len(rows') <= MaxCalls /\ TraceInv' /\ CallersInv'
    <3>1. TraceInv'
      BY <2>4 DEF TraceInv
    <3>2. CASE cut' = "row" /\ rows' = SubSeq(rows, 1, Len(rows) - 1)
      BY <2>2, <2>4, <3>1, <3>2 DEF CallersInv
    <3>3. CASE /\ rows[Len(rows)].kind = "row"
               /\ \E row \in CutRows(rows[Len(rows)], cut') : rows' = [rows EXCEPT ![Len(rows)] = row]
      BY <2>3, <2>4, <3>1, <3>3
    <3> QED BY <2>4, <3>2, <3>3
  <2> QED BY <2>1, <2>4 DEF EndTests
<1> QED BY <1>1, <1>2, <1>4, <1>5, TracingStep

-----------------------------------------------------------------------------
(* The rows read with a target are the edges, row by row.                  *)
LEMMA SkippedOfNext ==
  ASSUME NEW rs, NEW n \in Nat
  PROVE  /\ Cardinality(Skipped(rs, n)) \in Nat
         /\ Cardinality(Skipped(rs, n + 1)) =
              Cardinality(Skipped(rs, n))
                + (IF rs[n + 1].kind = "damaged" \/ rs[n + 1].target = Unreadable THEN 1 ELSE 0)
<1> DEFINE row == rs[n + 1]
           bad == row.kind = "damaged" \/ row.target = Unreadable
<1>1. IsFiniteSet(Skipped(rs, n)) /\ n + 1 \notin Skipped(rs, n)
  <2>1. IsFiniteSet(1 .. n) /\ Skipped(rs, n) \in SUBSET (1 .. n)
    BY FS_Interval DEF Skipped
  <2> QED BY <2>1, FS_Subset
<1>2. Cardinality(Skipped(rs, n)) \in Nat
  BY <1>1, FS_CardinalityType
<1>3. 1 .. n + 1 = 1 .. n \cup {n + 1}
  OBVIOUS
<1>4. CASE bad
  <2>1. Skipped(rs, n + 1) = Skipped(rs, n) \cup {n + 1}
    BY <1>3, <1>4 DEF Skipped
  <2> QED BY <1>1, <1>2, <1>4, <2>1, FS_AddElement
<1>5. CASE ~bad
  <2>1. Skipped(rs, n + 1) = Skipped(rs, n)
    BY <1>3, <1>5 DEF Skipped
  <2> QED BY <1>2, <1>5, <2>1
<1> QED BY <1>2, <1>4, <1>5

LEMMA ReadRowInv ==
  ASSUME IndInv, ReadRow
  PROVE  IndInv'
<1> DEFINE n == next + 1
<1>1. PICK row : row = rows[n]
  OBVIOUS
<1> DEFINE isEdge == IsRow(row) /\ row.target \notin {None, Unreadable}
<1>2. /\ pc = "load" /\ next < Len(rows) /\ next' = n
      /\ executed' = executed \cup (IF IsRow(row) THEN {row.caller} ELSE {})
      /\ edges' = IF isEdge THEN Append(edges, row) ELSE edges
      /\ skipped' = skipped + (IF ~IsRow(row) \/ row.target = Unreadable THEN 1 ELSE 0)
      /\ UNCHANGED <<pc, image, bias, mode, static, rows, cut, outcome, calls, scanned>>
  BY <1>1 DEF ReadRow, Point, IsRow
<1>3. /\ rows \in Seq(RowTypes) /\ Len(rows) \in Nat /\ edges \in Seq(EdgeTypes)
      /\ next \in Nat /\ n \in Nat /\ n \in 1 .. Len(rows) /\ row \in RowTypes
  <2>1. rows \in Seq(RowTypes) /\ edges \in Seq(EdgeTypes) /\ next \in 0 .. Len(rows)
    BY DEF IndInv, TypeInv
  <2>2. Len(rows) \in Nat
    BY <2>1, LenProperties
  <2>3. next \in Nat /\ n \in 1 .. Len(rows)
    BY <1>2, <2>1, <2>2
  <2>4. row \in RowTypes
    BY <1>1, <2>1, <2>3, ElementOfSeq
  <2> QED BY <2>1, <2>2, <2>3, <2>4
<1> HIDE DEF n
<1>4. n = next + 1 /\ 1 .. n = 1 .. next \cup {n} /\ n \notin 1 .. next
  BY <1>3 DEF n
<1>5. isEdge <=> IsRow(row) /\ row.target \in SiteTypes
  BY <1>3, Kinds
<1>6. isEdge => row \in EdgeTypes
  BY <1>3, <1>5, Kinds
<1> HIDE DEF isEdge
<1> DEFINE edgesAre ==
             /\ edges' \in Seq(EdgeTypes)
             /\ \A k \in DOMAIN edges' : \E i \in 1 .. n : rows[i] = edges'[k]
             /\ \A i \in 1 .. n : (IsRow(rows[i]) /\ rows[i].target \in SiteTypes) =>
                  \E k \in DOMAIN edges' : edges'[k] = rows[i]
             /\ \A s, t \in SiteTypes : Hits(edges', Len(edges'), s, t) = Hits(rows, n, s, t)
<1>7. ASSUME isEdge PROVE edgesAre
  <2> DEFINE m == Len(edges)
  <2>1. edges' = Append(edges, row) /\ row \in EdgeTypes /\ IsRow(row) /\ row.target \in SiteTypes
    BY <1>2, <1>5, <1>6, <1>7
  <2>2. /\ edges' \in Seq(EdgeTypes) /\ m \in Nat /\ Len(edges') = m + 1
        /\ edges'[m + 1] = row /\ \A k \in 1 .. m : edges'[k] = edges[k]
        /\ DOMAIN edges = 1 .. m /\ DOMAIN edges' = 1 .. m + 1
    <3>1. edges' \in Seq(EdgeTypes)
      BY <1>3, <2>1, AppendProperties
    <3> QED BY <1>3, <2>1, <3>1, AppendProperties, LenProperties
  <2>3. \A s, t \in SiteTypes : Hits(edges', Len(edges'), s, t) = Hits(rows, n, s, t)
    <3> SUFFICES ASSUME NEW s \in SiteTypes, NEW t \in SiteTypes
                 PROVE  Hits(edges', Len(edges'), s, t) = Hits(rows, n, s, t)
      OBVIOUS
    <3>1. Hits(edges', Len(edges'), s, t) = Hits(edges, m, s, t) + (IF IsTo(row, s, t) THEN 1 ELSE 0)
      BY <1>3, <2>1, HitsOfAppend
    <3>2. Hits(rows, next + 1, s, t) = Hits(rows, next, s, t) + (IF IsTo(rows[next + 1], s, t) THEN 1 ELSE 0)
      BY <1>3, HitsAre
    <3>3. Hits(edges, m, s, t) = Hits(rows, next, s, t)
      BY DEF IndInv, LoadInv
    <3>4. rows[next + 1] = row
      BY <1>1 DEF n
    <3> QED BY <1>4, <3>1, <3>2, <3>3, <3>4
  <2> HIDE DEF m
  <2>4. ASSUME NEW k \in 1 .. m + 1 PROVE \E i \in 1 .. n : rows[i] = edges'[k]
    <3>1. CASE k = m + 1
      <4>1. n \in 1 .. n
        BY <1>3
      <4> QED BY <1>1, <2>2, <3>1, <4>1
    <3>2. CASE k # m + 1
      <4>1. k \in DOMAIN edges /\ edges'[k] = edges[k]
        BY <2>2, <3>2
      <4> QED BY <1>4, <4>1 DEF IndInv, LoadInv
    <3> QED BY <3>1, <3>2
  <2>5. ASSUME NEW i \in 1 .. n, IsRow(rows[i]), rows[i].target \in SiteTypes
        PROVE  \E k \in 1 .. m + 1 : edges'[k] = rows[i]
    <3>1. CASE i = n
      <4>1. m + 1 \in 1 .. m + 1
        BY <2>2
      <4> QED BY <1>1, <2>2, <3>1, <4>1
    <3>2. CASE i # n
      <4>1. i \in 1 .. next
        BY <1>4, <3>2
      <4>2. PICK k \in DOMAIN edges : edges[k] = rows[i]
        BY <2>5, <4>1 DEF IndInv, LoadInv
      <4>3. k \in 1 .. m + 1 /\ edges'[k] = edges[k]
        BY <2>2
      <4> QED BY <4>2, <4>3
    <3> QED BY <3>1, <3>2
  <2> QED BY <2>2, <2>3, <2>4, <2>5
<1>8. ASSUME ~isEdge PROVE edgesAre
  <2>1. edges' = edges /\ ~(IsRow(row) /\ row.target \in SiteTypes)
    BY <1>2, <1>5, <1>8
  <2>2. \A s, t \in SiteTypes : Hits(edges, Len(edges), s, t) = Hits(rows, n, s, t)
    <3> SUFFICES ASSUME NEW s \in SiteTypes, NEW t \in SiteTypes
                 PROVE  Hits(edges, Len(edges), s, t) = Hits(rows, n, s, t)
      OBVIOUS
    <3>1. /\ Hits(rows, next + 1, s, t)
               = Hits(rows, next, s, t) + (IF IsTo(rows[next + 1], s, t) THEN 1 ELSE 0)
          /\ Hits(rows, next, s, t) \in Nat
      BY <1>3, HitsAre
    <3>2. Hits(edges, Len(edges), s, t) = Hits(rows, next, s, t)
      BY DEF IndInv, LoadInv
    <3>3. ~IsTo(rows[next + 1], s, t)
      BY <1>1, <2>1 DEF IsTo, n
    <3> QED BY <1>4, <3>1, <3>2, <3>3
  <2>3. \A k \in DOMAIN edges : \E i \in 1 .. n : rows[i] = edges[k]
    BY <1>4 DEF IndInv, LoadInv
  <2>4. \A i \in 1 .. n : (IsRow(rows[i]) /\ rows[i].target \in SiteTypes) =>
          \E k \in DOMAIN edges : edges[k] = rows[i]
    <3>1. ASSUME NEW i \in 1 .. n, IsRow(rows[i]), rows[i].target \in SiteTypes
          PROVE  i \in 1 .. next
      BY <1>1, <1>4, <2>1, <3>1
    <3> QED BY <3>1 DEF IndInv, LoadInv
  <2> QED BY <1>3, <2>1, <2>2, <2>3, <2>4
<1>9. edgesAre
  BY <1>7, <1>8
<1> HIDE DEF edgesAre
<1>10. executed' = {rows[i].caller : i \in {j \in 1 .. n : IsRow(rows[j])}}
  <2>1. executed = {rows[i].caller : i \in {j \in 1 .. next : IsRow(rows[j])}}
    BY DEF IndInv, LoadInv
  <2>2. CASE IsRow(row)
    <3>1. {j \in 1 .. n : IsRow(rows[j])} = {j \in 1 .. next : IsRow(rows[j])} \cup {n}
      BY <1>1, <1>4, <2>2
    <3>2. executed' = executed \cup {rows[n].caller}
      BY <1>1, <1>2, <2>2
    <3> QED BY <2>1, <3>1, <3>2
  <2>3. CASE ~IsRow(row)
    <3>1. {j \in 1 .. n : IsRow(rows[j])} = {j \in 1 .. next : IsRow(rows[j])}
      BY <1>1, <1>4, <2>3
    <3> QED BY <1>2, <2>1, <2>3, <3>1
  <2> QED BY <2>2, <2>3
<1>11. skipped' = Cardinality(Skipped(rows, n))
  <2>1. ~IsRow(row) <=> row.kind = "damaged"
    BY <1>3, Kinds DEF IsRow
  <2>2. skipped' = skipped + (IF row.kind = "damaged" \/ row.target = Unreadable THEN 1 ELSE 0)
    BY <1>2, <2>1
  <2>3. skipped = Cardinality(Skipped(rows, next))
    BY DEF IndInv, LoadInv
  <2>4. Cardinality(Skipped(rows, next + 1)) =
          Cardinality(Skipped(rows, next))
            + (IF rows[next + 1].kind = "damaged" \/ rows[next + 1].target = Unreadable THEN 1 ELSE 0)
    BY <1>3, SkippedOfNext
  <2> QED BY <1>1, <1>4, <2>2, <2>3, <2>4
<1>12. LoadInv'
  BY <1>2, <1>9, <1>10, <1>11 DEF LoadInv, edgesAre
<1>13. TypeInv'
  <2>1. next' \in 0 .. Len(rows')
    BY <1>2, <1>3
  <2>2. edges' \in Seq(EdgeTypes)
    BY <1>9 DEF edgesAre
  <2> QED BY <1>2, <2>1, <2>2 DEF IndInv, TypeInv, CallTypes, IndirectCalls
<1>14. ControlInv'
  <2>1. Scanned' = Scanned
    BY <1>2 DEF Scanned, Base
  <2> QED BY <1>2, <2>1 DEF IndInv, ControlInv
<1>15. CallsInv' /\ TraceInv' /\ CallersInv' /\ OutcomeInv'
  <2>1. Base' = Base
    BY <1>2 DEF Base
  <2>2. CallsInv'
    BY <1>2, <2>1 DEF IndInv, CallsInv
  <2>3. TraceInv'
    BY <1>2 DEF IndInv, TraceInv, Traces
  <2>4. OutcomeInv'
    BY <1>2 DEF OutcomeInv
  <2>5. CallersInv'
    BY <1>2 DEF IndInv, CallersInv, From
  <2> QED BY <2>2, <2>3, <2>4, <2>5
<1> QED BY <1>12, <1>13, <1>14, <1>15 DEF IndInv

(* A report leaves everything but its outcome alone.                       *)
LEMMA LastStep ==
  ASSUME IndInv, pc = "load", pc' = "done",
         UNCHANGED <<image, bias, mode, static, rows, cut, next, executed, edges, skipped,
                     calls, scanned>>,
         OutcomeInv'
  PROVE  IndInv'
<1>1. Base' = Base /\ Scanned' = Scanned /\ CallTypes' = CallTypes
  BY DEF Base, Scanned, CallTypes, IndirectCalls
<1>2. TypeInv'
  BY <1>1 DEF IndInv, TypeInv
<1>3. ControlInv'
  BY <1>1 DEF IndInv, ControlInv
<1>4. CallsInv'
  BY <1>1 DEF IndInv, CallsInv
<1>5. TraceInv'
  BY DEF IndInv, TraceInv, Traces
<1>6. LoadInv'
  BY DEF IndInv, LoadInv
<1>7. CallersInv'
  BY DEF IndInv, CallersInv, From
<1> QED BY <1>2, <1>3, <1>4, <1>5, <1>6, <1>7 DEF IndInv

(* The summary is made of what was loaded.                                 *)
LEMMA SameSummary ==
  ASSUME UNCHANGED <<image, static, executed, edges>>
  PROVE  Summary' = Summary
<1>1. ProjectSites' = ProjectSites
  BY DEF ProjectSites, Symbolize
<1>2. Covered' = Covered
  BY <1>1 DEF Covered
<1>3. \A s : EdgeExport(s)' = EdgeExport(s)
  BY DEF EdgeExport
<1> QED BY <1>1, <1>2, <1>3 DEF Summary, EdgeExport

LEMMA ReportInv ==
  ASSUME IndInv, Report
  PROVE  IndInv'
<1>1. /\ pc = "load" /\ pc' = "done" /\ next = Len(rows) /\ outcome' = Summary
      /\ ElfImageBase(image.loads) = static.base
      /\ UNCHANGED <<image, bias, mode, static, rows, cut, next, executed, edges, skipped,
                     calls, scanned>>
  BY DEF Report, LoadedAll, Point, Goto, loaded
<1>2. static.base = Base
  <2>1. static = Scanned
    BY <1>1 DEF IndInv, ControlInv
  <2> QED BY <2>1 DEF Scanned
<1>3. outcome' = Summary'
  BY <1>1, SameSummary
<1>4. Base' = Base
  BY <1>1 DEF Base
<1>5. next' = Len(rows') /\ ElfImageBase(image'.loads) = Base'
  BY <1>1, <1>2, <1>4
<1>6. OutcomeInv'
  BY <1>3, <1>5 DEF OutcomeInv
<1> QED BY <1>1, <1>6, LastStep

LEMMA RejectInv ==
  ASSUME IndInv, Reject
  PROVE  IndInv'
<1>1. /\ pc = "load" /\ pc' = "done" /\ outcome' = [kind |-> "rejected"]
      /\ UNCHANGED <<image, bias, mode, static, rows, cut, next, executed, edges, skipped,
                     calls, scanned>>
  BY DEF Reject, LoadedAll, Point, Goto, loaded
<1>2. OutcomeInv'
  BY <1>1 DEF OutcomeInv
<1> QED BY <1>1, <1>2, LastStep

LEMMA StutterInv ==
  ASSUME IndInv, UNCHANGED vars
  PROVE  IndInv'
<1>1. UNCHANGED <<pc, image, bias, mode, static, rows, cut, next, executed, edges, skipped,
                  outcome, calls, scanned>>
  BY DEF vars, loaded
<1>2. Base' = Base /\ Scanned' = Scanned /\ CallTypes' = CallTypes
  BY <1>1 DEF Base, Scanned, CallTypes, IndirectCalls
<1>3. TypeInv'
  BY <1>1, <1>2 DEF IndInv, TypeInv
<1>4. ControlInv'
  BY <1>1, <1>2 DEF IndInv, ControlInv
<1>5. CallsInv'
  BY <1>1, <1>2 DEF IndInv, CallsInv
<1>6. TraceInv'
  BY <1>1 DEF IndInv, TraceInv, Traces
<1>7. LoadInv'
  BY <1>1 DEF IndInv, LoadInv
<1>8. OutcomeInv'
  <2>1. Summary' = Summary
    BY <1>1, SameSummary
  <2> QED BY <1>1, <1>2, <2>1 DEF IndInv, OutcomeInv
<1>9. CallersInv'
  BY <1>1 DEF IndInv, CallersInv, From
<1> QED BY <1>3, <1>4, <1>5, <1>6, <1>7, <1>8, <1>9 DEF IndInv

(* The invariant is inductive.                                             *)
THEOREM InvariantHolds == Spec => []IndInv
<1>1. IndInv /\ [Next]_vars => IndInv'
  BY ScanInv, CallInv, CallInLibraryInv, DamagedInv, RebuildInv, EndTestsInv,
     ReadRowInv, ReportInv, RejectInv, StutterInv DEF Next, Tracing, Reporting
<1> QED BY <1>1, InitInv, PTL DEF Spec

-----------------------------------------------------------------------------
(* Only a summary is reported, and only of a binary with the image base    *)
(* of the one that was scanned.                                            *)
LEMMA WhenReported ==
  ASSUME IndInv, outcome.kind = "summary"
  PROVE  /\ pc = "done" /\ outcome = Summary /\ next = Len(rows)
         /\ ElfImageBase(image.loads) = Base /\ static = Scanned
         /\ Base \in Nat /\ scanned \in Images
<1>1. None.kind = "none" /\ [kind |-> "rejected"].kind = "rejected"
  BY DEF None
<1>2. pc = "done"
  BY <1>1 DEF IndInv, ControlInv
<1>3. outcome # [kind |-> "rejected"]
  BY <1>1
<1>4. outcome = Summary /\ next = Len(rows) /\ ElfImageBase(image.loads) = Base
  BY <1>2, <1>3 DEF IndInv, OutcomeInv
<1>5. static = Scanned
  BY <1>2 DEF IndInv, ControlInv
<1>6. scanned \in Images
  BY DEF IndInv, TypeInv
<1> QED BY <1>2, <1>4, <1>5, <1>6, ImageBase DEF Base

(* Types, and what was loaded of the rows read.                            *)
THEOREM TypeCorrect == Spec => []TypeOK
<1>1. ASSUME IndInv PROVE TypeOK
  <2>1. /\ pc \in {"scan", "trace", "load", "done"}
        /\ {image, scanned} \subseteq Images /\ bias \in LoadBiases \cup {0}
        /\ mode \in {"fast", "edge"} /\ cut \in {"none", "target", "row"}
        /\ Len(rows) <= MaxCalls /\ Len(calls) <= MaxCalls
        /\ next \in 0 .. Len(rows)
    BY <1>1 DEF IndInv, TypeInv
  <2>2. (static # None) => (static.base \in Nat /\ DOMAIN static.sites \subseteq Nat)
    <3> SUFFICES ASSUME static # None
                 PROVE  static.base \in Nat /\ DOMAIN static.sites \subseteq Nat
      OBVIOUS
    <3>1. static = Scanned
      BY <1>1 DEF IndInv, ControlInv
    <3>2. /\ Base \in Nat
          /\ \A va \in DOMAIN scanned.code : va \in Nat /\ Base <= va
      BY <2>1, ImageBase DEF Base
    <3>3. static.base = Base /\ static.sites = ScanIndirectCalls(scanned)
      BY <3>1 DEF Scanned
    <3>4. DOMAIN static.sites = {va - Base : va \in IndirectCalls(scanned)}
      BY <3>3 DEF ScanIndirectCalls, Base
    <3>5. \A va \in IndirectCalls(scanned) : va - Base \in Nat
      BY <3>2 DEF IndirectCalls
    <3> QED BY <3>2, <3>3, <3>4, <3>5
  <2>3. skipped = Cardinality({i \in 1 .. next : rows[i].kind = "damaged" \/ rows[i].target = Unreadable})
    BY <1>1 DEF IndInv, LoadInv, Skipped
  <2>4. executed = {rows[i].caller : i \in {j \in 1 .. next : rows[j].kind = "row"}}
    BY <1>1 DEF IndInv, LoadInv, IsRow
  <2>5. outcome.kind \in {"none", "summary", "rejected"}
    BY <1>1 DEF IndInv, ControlInv, OutcomeInv, Summary, None
  <2> QED BY <2>1, <2>2, <2>3, <2>4, <2>5 DEF TypeOK
<1> QED BY <1>1, InvariantHolds, PTL

(* The tracer's offsets lead addr2line to the instructions executed, in    *)
(* whatever binary a report is made with.                                  *)
THEOREM OffsetsLeadBack == Spec => []AddressesRoundTrip
<1>1. ASSUME IndInv PROVE AddressesRoundTrip
  <2> SUFFICES ASSUME outcome.kind = "summary", NEW i \in DOMAIN calls
               PROVE  ElfImageBase(image.loads) + calls[i].offset = calls[i].site
    BY DEF AddressesRoundTrip
  <2>1. ElfImageBase(image.loads) = Base /\ Base \in Nat /\ scanned \in Images
    BY <1>1, WhenReported
  <2>2. calls[i].offset = calls[i].site - Base
    BY <1>1 DEF IndInv, CallsInv
  <2>3. calls[i] \in CallTypes
    BY <1>1, ElementOfSeq, LenProperties DEF IndInv, TypeInv
  <2>4. calls[i].site \in Nat
    BY <2>1, <2>3, ImageBase DEF CallTypes, IndirectCalls
  <2> QED BY <2>1, <2>2, <2>4
<1> QED BY <1>1, InvariantHolds, PTL

-----------------------------------------------------------------------------
(* What a callsite counts as depends on its name, its directories and its  *)
(* operand.                                                                *)
LEMMA ClassifiedAlike ==
  ASSUME NEW symbol, NEW c, NEW operand, symbol.name = c.name, symbol.dirs = c.dirs
  PROVE  ClassifySite(symbol, operand) = ClassifySite(c, operand)
BY DEF ClassifySite

LEMMA SourceIsProject ==
  ASSUME NEW symbol, NEW operand, "source" \in symbol.dirs, "test" \notin symbol.dirs
  PROVE  ClassifySite(symbol, operand) = "project"
BY DEF ClassifySite

(* The callsites counted are those of the project's call instructions.     *)
LEMMA SitesAreCalls ==
  ASSUME IndInv, Reported
  PROVE  /\ DOMAIN static.sites = {va - Base : va \in IndirectCalls(scanned)}
         /\ ProjectSites = {Site("binary", va - Base) : va \in ProjectCalls}
         /\ \A va \in IndirectCalls(scanned) :
              va \in Nat /\ va - Base \in Nat /\ Address(Site("binary", va - Base)) = va
<1>1. /\ ElfImageBase(image.loads) = Base /\ static = Scanned
      /\ Base \in Nat /\ scanned \in Images /\ image = scanned
  BY WhenReported DEF Reported
<1>2. static.sites = [o \in {va - Base : va \in IndirectCalls(scanned)} |-> scanned.code[Base + o].operand]
  BY <1>1 DEF Scanned, ScanIndirectCalls, Base
<1>3. DOMAIN static.sites = {va - Base : va \in IndirectCalls(scanned)}
  BY <1>2
<1>4. ASSUME NEW va \in IndirectCalls(scanned)
      PROVE  /\ va \in Nat /\ va - Base \in Nat /\ Base + (va - Base) = va
             /\ va \in DOMAIN scanned.code
  BY <1>1, ImageBase DEF IndirectCalls, Base
<1>5. ASSUME NEW va \in IndirectCalls(scanned)
      PROVE  Address(Site("binary", va - Base)) = va
  <2>1. Address(Site("binary", va - Base)) = ElfImageBase(image.loads) + (va - Base)
    BY DEF Address, Site
  <2> QED BY <1>1, <1>4, <2>1
<1>6. ASSUME NEW va \in IndirectCalls(scanned)
      PROVE  ClassifySite(Symbolize(va - Base), static.sites[va - Base]) = "project"
               <=> va \in ProjectCalls
  <2> DEFINE c == scanned.code[va]
  <2>1. Symbolize(va - Base) = [name |-> c.name, dirs |-> c.dirs]
    BY <1>1, <1>4 DEF Symbolize
  <2>2. static.sites[va - Base] = c.operand
    <3>1. va - Base \in {v - Base : v \in IndirectCalls(scanned)}
      OBVIOUS
    <3>2. static.sites[va - Base] = scanned.code[Base + (va - Base)].operand
      BY <1>2, <3>1
    <3> QED BY <1>4, <3>2
  <2>3. Symbolize(va - Base).name = c.name /\ Symbolize(va - Base).dirs = c.dirs
    BY <2>1
  <2>4. ClassifySite(Symbolize(va - Base), c.operand) = ClassifySite(c, c.operand)
    BY <2>3, ClassifiedAlike
  <2> QED BY <2>2, <2>4 DEF ProjectCalls
<1>7. ProjectSites = {Site("binary", va - Base) : va \in ProjectCalls}
  <2>1. ProjectCalls \subseteq IndirectCalls(scanned)
    BY DEF ProjectCalls
  <2>2. ASSUME NEW s \in ProjectSites PROVE \E va \in ProjectCalls : s = Site("binary", va - Base)
    <3>1. PICK o \in DOMAIN static.sites :
            s = Site("binary", o) /\ ClassifySite(Symbolize(o), static.sites[o]) = "project"
      BY DEF ProjectSites
    <3>2. PICK va \in IndirectCalls(scanned) : o = va - Base
      BY <1>3
    <3> QED BY <1>6, <3>1, <3>2
  <2>3. ASSUME NEW va \in ProjectCalls PROVE Site("binary", va - Base) \in ProjectSites
    <3>1. va \in IndirectCalls(scanned) /\ va - Base \in DOMAIN static.sites
      BY <1>3, <2>1
    <3>2. ClassifySite(Symbolize(va - Base), static.sites[va - Base]) = "project"
      BY <1>6, <3>1
    <3> QED BY <3>1, <3>2 DEF ProjectSites
  <2> QED BY <2>2, <2>3
<1> QED BY <1>3, <1>4, <1>5, <1>7

(* No indirect call of the project's sources is left out of the            *)
(* denominator, whatever its name.                                         *)
THEOREM NoSourceCallIsLost == Spec => []SourceCallsCount
<1>1. ASSUME IndInv PROVE SourceCallsCount
  <2> DEFINE inSource == {va \in IndirectCalls(scanned) :
                            "source" \in scanned.code[va].dirs /\ "test" \notin scanned.code[va].dirs}
  <2> SUFFICES ASSUME Reported
               PROVE  /\ outcome.raw = Cardinality(IndirectCalls(scanned))
                      /\ inSource \subseteq {Address(s) : s \in outcome.project}
                      /\ (outcome.exit = 2) => (inSource = {} /\ outcome.covered = {})
    BY DEF SourceCallsCount
  <2>1. /\ outcome.raw = Cardinality(DOMAIN static.sites) /\ outcome.project = ProjectSites
        /\ outcome.covered = Covered /\ outcome.exit = IF ProjectSites = {} THEN 2 ELSE 0
    BY <1>1, WhenReported DEF Reported, Summary
  <2>2. /\ DOMAIN static.sites = {va - Base : va \in IndirectCalls(scanned)}
        /\ ProjectSites = {Site("binary", va - Base) : va \in ProjectCalls}
        /\ \A va \in IndirectCalls(scanned) :
             va \in Nat /\ va - Base \in Nat /\ Address(Site("binary", va - Base)) = va
    BY <1>1, SitesAreCalls
  <2>3. Base \in Nat /\ scanned \in Images
    BY <1>1, WhenReported DEF Reported
  <2>4. outcome.raw = Cardinality(IndirectCalls(scanned))
    <3> DEFINE S == IndirectCalls(scanned)
               T == {va - Base : va \in S}
               f == [va \in S |-> va - Base]
    <3>1. IsFiniteSet(S)
      <4>1. IsFiniteSet(DOMAIN scanned.code) /\ S \in SUBSET (DOMAIN scanned.code)
        BY <2>3, ImagesAssumption DEF IndirectCalls
      <4> QED BY <4>1, FS_Subset
    <3>2. f \in Bijection(S, T)
      <4>1. f \in [S -> T] /\ \A y \in T : \E va \in S : f[va] = y
        OBVIOUS
      <4>2. ASSUME NEW a \in S, NEW b \in S, f[a] = f[b] PROVE a = b
        <5>1. a \in Nat /\ b \in Nat /\ a - Base = b - Base
          BY <2>2, <4>2
        <5> QED BY <2>3, <5>1
      <4> QED BY <4>1, <4>2 DEF Bijection, Injection, Surjection, IsInjective
    <3>3. Cardinality(T) = Cardinality(S)
      <4>1. ExistsBijection(S, T)
        BY <3>2 DEF ExistsBijection
      <4> QED BY <3>1, <4>1, FS_Bijection
    <3> QED BY <2>1, <2>2, <3>3
  <2>5. inSource \subseteq {Address(s) : s \in outcome.project}
    <3> SUFFICES ASSUME NEW va \in inSource
                 PROVE  \E s \in outcome.project : Address(s) = va
      OBVIOUS
    <3>1. va \in ProjectCalls
      <4>1. PICK c : c = scanned.code[va]
        OBVIOUS
      <4>2. ClassifySite(c, c.operand) = "project"
        BY <4>1, SourceIsProject
      <4> QED BY <4>1, <4>2 DEF ProjectCalls
    <3>2. Site("binary", va - Base) \in outcome.project
      BY <2>1, <2>2, <3>1
    <3> QED BY <2>2, <3>2
  <2>6. ASSUME outcome.exit = 2 PROVE inSource = {} /\ outcome.covered = {}
    <3>1. ProjectSites = {}
      BY <2>1, <2>6
    <3> QED BY <2>1, <2>5, <3>1 DEF Covered
  <2> QED BY <2>4, <2>5, <2>6
<1> QED BY <1>1, InvariantHolds, PTL

(* A call is told by its offset as by its instruction.                     *)
LEMMA OffsetTellsCall ==
  ASSUME IndInv, Reported, NEW va \in IndirectCalls(scanned), NEW j \in DOMAIN calls
  PROVE  calls[j].offset = va - Base <=> calls[j].site = va
<1>1. Base \in Nat /\ scanned \in Images
  BY WhenReported DEF Reported
<1>2. calls[j].offset = calls[j].site - Base
  BY DEF IndInv, CallsInv
<1>3. calls[j] \in CallTypes
  BY ElementOfSeq, LenProperties DEF IndInv, TypeInv
<1>4. calls[j].site \in Nat /\ va \in Nat
  BY <1>1, <1>3, ImageBase DEF CallTypes, IndirectCalls
<1> QED BY <1>1, <1>2, <1>4

(* Every row of the binary that kept its caller is from a call.            *)
LEMMA CallersAreCalls ==
  ASSUME IndInv, cut # "row"
  PROVE  /\ \A i \in DOMAIN rows : (IsRow(rows[i]) /\ rows[i].caller.module = "binary") =>
              \E j \in DOMAIN calls : From(rows[i], calls[j])
         /\ \A j \in DOMAIN calls : \E i \in DOMAIN rows : From(rows[i], calls[j])
<1>1. CASE cut = "none"
  BY <1>1 DEF IndInv, TraceInv, Traces, From
<1>2. CASE cut = "target"
  BY <1>2 DEF IndInv, CallersInv
<1> QED BY <1>1, <1>2 DEF IndInv, TypeInv

(* Unless a row lost its caller, the callsites reported as covered are     *)
(* exactly the project's instructions that some test executed.             *)
THEOREM CoverageIsWhatRan == Spec => []CoverageIsExact
<1>1. ASSUME IndInv PROVE CoverageIsExact
  <2> DEFINE ran == {calls[j].site : j \in DOMAIN calls}
  <2> SUFFICES ASSUME Reported, cut # "row"
               PROVE  {Address(s) : s \in outcome.covered} = ProjectCalls \cap ran
    BY DEF CoverageIsExact
  <2>1. outcome.covered = ProjectSites \cap executed /\ next = Len(rows)
    BY <1>1, WhenReported DEF Reported, Summary, Covered
  <2>2. /\ ProjectSites = {Site("binary", va - Base) : va \in ProjectCalls}
        /\ ProjectCalls \subseteq IndirectCalls(scanned)
        /\ \A va \in IndirectCalls(scanned) : Address(Site("binary", va - Base)) = va
    BY <1>1, SitesAreCalls DEF ProjectCalls
  <2>3. ASSUME NEW va \in ProjectCalls
        PROVE  Site("binary", va - Base) \in executed <=> va \in ran
    <3> DEFINE s == Site("binary", va - Base)
    <3>1. va \in IndirectCalls(scanned)
      BY <2>2
    <3>2. s \in executed <=> \E i \in DOMAIN rows : IsRow(rows[i]) /\ rows[i].caller = s
      <4>1. executed = {rows[i].caller : i \in {j \in 1 .. Len(rows) : IsRow(rows[j])}}
        BY <1>1, <2>1 DEF IndInv, LoadInv
      <4>2. DOMAIN rows = 1 .. Len(rows)
        BY <1>1, LenProperties DEF IndInv, TypeInv
      <4> HIDE DEF s
      <4> QED BY <4>1, <4>2
    <3>3. (\E i \in DOMAIN rows : IsRow(rows[i]) /\ rows[i].caller = s)
            <=> \E j \in DOMAIN calls : calls[j].offset = va - Base
      <4>1. ASSUME NEW i \in DOMAIN rows, IsRow(rows[i]), rows[i].caller = s
            PROVE  \E j \in DOMAIN calls : calls[j].offset = va - Base
        <5>1. rows[i].caller.module = "binary" /\ rows[i].caller.offset = va - Base
          BY <4>1 DEF Site
        <5>2. PICK j \in DOMAIN calls : From(rows[i], calls[j])
          BY <1>1, <4>1, <5>1, CallersAreCalls
        <5>3. rows[i].caller.offset = calls[j].offset
          BY <5>2 DEF From, Site
        <5> QED BY <5>1, <5>3
      <4>2. ASSUME NEW j \in DOMAIN calls, calls[j].offset = va - Base
            PROVE  \E i \in DOMAIN rows : IsRow(rows[i]) /\ rows[i].caller = s
        <5>1. PICK i \in DOMAIN rows : From(rows[i], calls[j])
          BY <1>1, CallersAreCalls
        <5> QED BY <4>2, <5>1 DEF From
      <4> QED BY <4>1, <4>2
    <3>4. (\E j \in DOMAIN calls : calls[j].offset = va - Base) <=> va \in ran
      BY <1>1, <3>1, OffsetTellsCall
    <3> QED BY <3>2, <3>3, <3>4
  <2>4. ASSUME NEW va \in ProjectCalls, va \in ran
        PROVE  \E s \in outcome.covered : Address(s) = va
    <3>1. Site("binary", va - Base) \in outcome.covered
      BY <2>1, <2>2, <2>3, <2>4
    <3> QED BY <2>2, <3>1
  <2>5. ASSUME NEW s \in outcome.covered
        PROVE  Address(s) \in ProjectCalls \cap ran
    <3>1. s \in executed /\ s \in ProjectSites
      BY <2>1
    <3>2. PICK va \in ProjectCalls : s = Site("binary", va - Base)
      BY <2>2, <3>1
    <3>3. Address(s) = va
      BY <2>2, <3>2
    <3> QED BY <2>3, <3>1, <3>2, <3>3
  <2> HIDE DEF ran
  <2> QED BY <2>4, <2>5
<1> QED BY <1>1, InvariantHolds, PTL

-----------------------------------------------------------------------------
(* An edge loaded from a complete trace is a call made, and each call of   *)
(* edge mode is loaded.                                                    *)
LEMMA EdgesAreCalls ==
  ASSUME IndInv, Reported, cut = "none", mode = "edge", NEW va \in IndirectCalls(scanned),
         NEW target, NEW test
  PROVE  (\E k \in DOMAIN edges : /\ edges[k].caller = Site("binary", va - Base)
                                  /\ edges[k].target = target /\ edges[k].test = test)
           <=> (\E j \in DOMAIN calls : /\ calls[j].site = va
                                        /\ calls[j].target = target /\ calls[j].test = test)
<1> DEFINE s == Site("binary", va - Base)
<1>1. next = Len(rows) /\ DOMAIN rows = 1 .. next /\ edges \in Seq(EdgeTypes)
  <2>1. next = Len(rows)
    BY WhenReported DEF Reported
  <2> QED BY <2>1, LenProperties DEF IndInv, TypeInv
<1>2. ASSUME NEW k \in DOMAIN edges, edges[k].caller = s,
             edges[k].target = target, edges[k].test = test
      PROVE  \E j \in DOMAIN calls : /\ calls[j].site = va
                                     /\ calls[j].target = target /\ calls[j].test = test
  <2>1. PICK i \in DOMAIN rows : rows[i] = edges[k]
    BY <1>1 DEF IndInv, LoadInv
  <2>2. IsRow(rows[i])
    <3>1. edges[k] \in EdgeTypes
      BY <1>1, ElementOfSeq, LenProperties
    <3> QED BY <2>1, <3>1, Kinds
  <2>3. rows[i].caller.module = "binary" /\ rows[i].caller.offset = va - Base
    BY <1>2, <2>1 DEF Site
  <2>4. PICK j \in DOMAIN calls : Traces(rows[i], calls[j])
    BY <2>2, <2>3 DEF IndInv, TraceInv
  <2>5. rows[i].caller.offset = calls[j].offset
    BY <2>4 DEF Traces, Site
  <2>6. calls[j].site = va
    BY <2>3, <2>5, OffsetTellsCall
  <2> QED BY <1>2, <2>1, <2>4, <2>6 DEF Traces
<1>3. ASSUME NEW j \in DOMAIN calls, calls[j].site = va,
             calls[j].target = target, calls[j].test = test
      PROVE  \E k \in DOMAIN edges : /\ edges[k].caller = s
                                     /\ edges[k].target = target /\ edges[k].test = test
  <2>1. calls[j].offset = va - Base
    BY <1>3, OffsetTellsCall
  <2>2. PICK i \in DOMAIN rows : Traces(rows[i], calls[j])
    BY DEF IndInv, TraceInv
  <2>3. /\ IsRow(rows[i]) /\ rows[i].caller = s
        /\ rows[i].target = target /\ rows[i].test = test
    BY <1>3, <2>1, <2>2 DEF Traces
  <2>4. rows[i].target \in SiteTypes
    BY <2>3 DEF IndInv, TraceInv
  <2>5. PICK k \in DOMAIN edges : edges[k] = rows[i]
    BY <1>1, <2>3, <2>4 DEF IndInv, LoadInv
  <2> QED BY <2>3, <2>5
<1> QED BY <1>2, <1>3

(* Of a fast trace no edge is loaded.                                      *)
LEMMA FastHasNoEdges ==
  ASSUME IndInv, Reported, cut = "none", mode = "fast"
  PROVE  DOMAIN edges = {}
<1>1. next = Len(rows) /\ DOMAIN rows = 1 .. next /\ edges \in Seq(EdgeTypes)
  <2>1. next = Len(rows)
    BY WhenReported DEF Reported
  <2> QED BY <2>1, LenProperties DEF IndInv, TypeInv
<1>2. SUFFICES ASSUME NEW k \in DOMAIN edges PROVE FALSE
  OBVIOUS
<1>3. edges[k] \in EdgeTypes
  BY <1>1, ElementOfSeq, LenProperties
<1>4. PICK i \in DOMAIN rows : rows[i] = edges[k]
  BY <1>1 DEF IndInv, LoadInv
<1>5. IsRow(rows[i]) /\ rows[i].target \in SiteTypes
  BY <1>3, <1>4, Kinds DEF EdgeTypes
<1>6. rows[i].target = None
  BY <1>5 DEF IndInv, TraceInv
<1> QED BY <1>5, <1>6, Kinds

(* The targets exported for a project callsite, with their hits and tests, *)
(* are those of the calls made there.                                      *)
THEOREM EdgesAreWhatRan == Spec => []EdgesAreObserved
<1>1. ASSUME IndInv PROVE EdgesAreObserved
  <2> DEFINE Observed(at) ==
               LET called == IF mode = "edge" THEN CallsAt(at) ELSE {}
                   to(t) == {j \in called : calls[j].target = t}
               IN {[target |-> t, hits |-> Cardinality(to(t)), tests |-> {calls[j].test : j \in to(t)}] :
                     t \in {calls[j].target : j \in called}}
  <2> SUFFICES ASSUME Reported, cut = "none", NEW s \in outcome.project
               PROVE  outcome.edges[s] = Observed(Address(s))
    BY DEF EdgesAreObserved
  <2> HIDE DEF Observed
  <2>1. /\ s \in ProjectSites /\ next = Len(rows)
        /\ outcome.edges[s] = EdgeExport(s)
    BY <1>1, WhenReported DEF Reported, Summary
  <2>2. PICK va \in IndirectCalls(scanned) :
          s = Site("binary", va - Base) /\ Address(s) = va /\ va - Base \in Nat
    BY <1>1, <2>1, SitesAreCalls DEF ProjectCalls
  <2> DEFINE mine == {k \in DOMAIN edges : edges[k].caller = s}
             called == IF mode = "edge" THEN CallsAt(va) ELSE {}
             to(t) == {j \in called : calls[j].target = t}
             of(t) == {k \in mine : edges[k].target = t}
             targets == {calls[j].target : j \in called}
  <2>3. {edges[k].target : k \in mine} = targets
    <3>1. CASE mode = "edge"
      <4>1. called = CallsAt(va)
        BY <3>1
      <4>2. ASSUME NEW k \in mine PROVE edges[k].target \in targets
        BY <1>1, <2>2, <3>1, <4>1, EdgesAreCalls DEF CallsAt
      <4>3. ASSUME NEW j \in called PROVE \E k \in mine : edges[k].target = calls[j].target
        BY <1>1, <2>2, <3>1, <4>1, EdgesAreCalls DEF CallsAt
      <4> HIDE DEF mine, called
      <4> QED BY <4>2, <4>3
    <3>2. CASE mode # "edge"
      <4>1. mode = "fast"
        BY <1>1, <3>2 DEF IndInv, TypeInv
      <4>2. DOMAIN edges = {}
        BY <1>1, <4>1, FastHasNoEdges
      <4> QED BY <3>2, <4>2
    <3> QED BY <3>1, <3>2
  <2>4. ASSUME NEW t \in targets
        PROVE  /\ Cardinality(of(t)) = Cardinality(to(t))
               /\ {edges[k].test : k \in of(t)} = {calls[j].test : j \in to(t)}
    <3>1. mode = "edge" /\ called = CallsAt(va)
      <4>1. mode = "edge"
        BY <2>4
      <4> QED BY <4>1
    <3>2. t \in SiteTypes
      <4>1. PICK j \in DOMAIN calls : calls[j].target = t
        BY <2>4, <3>1 DEF CallsAt
      <4>2. calls[j] \in CallTypes
        BY <1>1, ElementOfSeq, LenProperties DEF IndInv, TypeInv
      <4> QED BY <4>1, <4>2 DEF CallTypes
    <3>3. of(t) = RowsTo(edges, Len(edges), s, t)
      <4>1. edges \in Seq(EdgeTypes)
        BY <1>1 DEF IndInv, TypeInv
      <4>2. DOMAIN edges = 1 .. Len(edges) /\ \A k \in DOMAIN edges : edges[k] \in EdgeTypes
        BY <4>1, ElementOfSeq, LenProperties
      <4>3. \A k \in DOMAIN edges : IsRow(edges[k])
        BY <4>2, Kinds
      <4> QED BY <4>2, <4>3 DEF RowsTo, IsTo
    <3>4. to(t) = CallsTo(calls, Len(calls), va - Base, t)
      <4>1. DOMAIN calls = 1 .. Len(calls)
        BY <1>1, LenProperties DEF IndInv, TypeInv
      <4>2. \A j \in DOMAIN calls : calls[j].offset = va - Base <=> calls[j].site = va
        BY <1>1, OffsetTellsCall
      <4> QED BY <3>1, <4>1, <4>2 DEF CallsTo, CallsAt
    <3>5. Hits(edges, Len(edges), s, t) = Hits(rows, Len(rows), s, t)
      <4>1. s \in SiteTypes
        BY <2>2 DEF Site, SiteTypes
      <4> QED BY <1>1, <2>1, <3>2, <4>1 DEF IndInv, LoadInv
    <3>6. Hits(rows, Len(rows), s, t) = Cardinality(CallsTo(calls, Len(calls), va - Base, t))
      BY <1>1, <2>2, <3>1, <3>2 DEF IndInv, TraceInv
    <3>7. Cardinality(of(t)) = Cardinality(to(t))
      BY <3>3, <3>4, <3>5, <3>6 DEF Hits
    <3>8. \A test : (\E k \in of(t) : edges[k].test = test) <=> (\E j \in to(t) : calls[j].test = test)
      BY <1>1, <2>2, <3>1, EdgesAreCalls DEF CallsAt
    <3> HIDE DEF of, to
    <3>9. {edges[k].test : k \in of(t)} = {calls[j].test : j \in to(t)}
      BY <3>8
    <3> QED BY <3>7, <3>9
  <2>5. EdgeExport(s) =
          {[target |-> t, hits |-> Cardinality(of(t)), tests |-> {edges[k].test : k \in of(t)}] :
             t \in {edges[k].target : k \in mine}}
    BY DEF EdgeExport
  <2> HIDE DEF of, to, mine, targets
  <2>6. EdgeExport(s) =
          {[target |-> t, hits |-> Cardinality(to(t)), tests |-> {calls[j].test : j \in to(t)}] :
             t \in targets}
    <3>1. \A t \in targets :
            [target |-> t, hits |-> Cardinality(of(t)), tests |-> {edges[k].test : k \in of(t)}]
              = [target |-> t, hits |-> Cardinality(to(t)), tests |-> {calls[j].test : j \in to(t)}]
      BY <2>4
    <3> QED BY <2>3, <2>5, <3>1
  <2>7. EdgeExport(s) = Observed(va)
    BY <2>6 DEF to, targets, Observed
  <2> QED BY <2>1, <2>2, <2>7
<1> QED BY <1>1, InvariantHolds, PTL
=============================================================================
