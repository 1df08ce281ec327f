----------------------------- MODULE CoverageInv -----------------------------
(***************************************************************************)
(* The inductive invariant of Coverage: how the rows of a complete trace   *)
(* stand for the calls made, and what is loaded of them.                   *)
(***************************************************************************)
EXTENDS Coverage

Base == ElfImageBase(scanned.loads)

SiteTypes == [module : {"binary", "library"}, offset : Nat]
EdgeTypes == [kind : {"row"}, caller : SiteTypes, target : SiteTypes, test : Tests]
RowTypes ==
  [kind : {"row"}, caller : SiteTypes, target : SiteTypes \cup {None, Unreadable}, test : Tests]
    \cup {[kind |-> "damaged"]}
CallTypes ==
  [site : IndirectCalls(scanned), offset : Nat, target : SiteTypes, test : Tests]

TypeInv ==
  /\ pc \in {"scan", "trace", "load", "done"}
  /\ image \in Images /\ scanned \in Images /\ bias \in LoadBiases \cup {0}
  /\ mode \in {"fast", "edge"} /\ cut \in {"none", "target", "row"}
  /\ rows \in Seq(RowTypes) /\ Len(rows) <= MaxCalls
  /\ calls \in Seq(CallTypes) /\ Len(calls) <= MaxCalls
  /\ edges \in Seq(EdgeTypes)
  /\ next \in 0 .. Len(rows)

Scanned ==
  [kind |-> "static", base |-> Base, sites |-> ScanIndirectCalls(scanned)]

ControlInv ==
  /\ pc \in {"scan", "trace"} =>
       /\ image = scanned /\ cut = "none"
       /\ next = 0 /\ executed = {} /\ edges = << >> /\ skipped = 0
  /\ pc = "scan" => static = None
  /\ pc # "scan" => static = Scanned
  /\ pc # "done" => outcome = None

(* The offset of a call is that of its instruction in the image scanned.   *)
CallsInv == \A i \in DOMAIN calls : calls[i].offset = calls[i].site - Base

(* A row of the binary is the call it was written for.                     *)
IsRow(row) == row.kind = "row"
Traces(row, call) ==
  /\ IsRow(row)
  /\ row.caller = Site("binary", call.offset)
  /\ mode = "edge" => row.target = call.target /\ row.test = call.test

IsTo(row, s, t) == IsRow(row) /\ row.caller = s /\ row.target = t
RowsTo(rs, n, s, t) == {i \in 1 .. n : IsTo(rs[i], s, t)}
CallsTo(cs, n, o, t) == {i \in 1 .. n : cs[i].offset = o /\ cs[i].target = t}
Hits(rs, n, s, t) == Cardinality(RowsTo(rs, n, s, t))

TraceInv ==
  cut = "none" =>
    /\ \A i \in DOMAIN rows : IsRow(rows[i]) =>
         /\ rows[i].target \in (IF mode = "edge" THEN SiteTypes ELSE {None})
         /\ rows[i].caller.module = "binary" => \E j \in DOMAIN calls : Traces(rows[i], calls[j])
    /\ \A j \in DOMAIN calls : \E i \in DOMAIN rows : Traces(rows[i], calls[j])
    /\ mode = "edge" =>
         \A o \in Nat, t \in SiteTypes :
           Hits(rows, Len(rows), Site("binary", o), t) = Cardinality(CallsTo(calls, Len(calls), o, t))

(* A row that lost its target only still has the caller of a call.         *)
From(row, call) == IsRow(row) /\ row.caller = Site("binary", call.offset)
CallersInv ==
  cut = "target" =>
    /\ \A i \in DOMAIN rows : (IsRow(rows[i]) /\ rows[i].caller.module = "binary") =>
         \E j \in DOMAIN calls : From(rows[i], calls[j])
    /\ \A j \in DOMAIN calls : \E i \in DOMAIN rows : From(rows[i], calls[j])

(* What is loaded of the rows read.                                        *)
Skipped(rs, n) ==
  {i \in 1 .. n : rs[i].kind = "damaged" \/ rs[i].target = Unreadable}
LoadInv ==
  /\ executed = {rows[i].caller : i \in {j \in 1 .. next : IsRow(rows[j])}}
  /\ skipped = Cardinality(Skipped(rows, next))
  /\ \A k \in DOMAIN edges : \E i \in 1 .. next : rows[i] = edges[k]
  /\ \A i \in 1 .. next :
       (IsRow(rows[i]) /\ rows[i].target \in SiteTypes) =>
         \E k \in DOMAIN edges : edges[k] = rows[i]
  /\ \A s, t \in SiteTypes : Hits(edges, Len(edges), s, t) = Hits(rows, next, s, t)

OutcomeInv ==
  pc = "done" =>
    \/ outcome = [kind |-> "rejected"]
    \/ outcome = Summary /\ next = Len(rows) /\ ElfImageBase(image.loads) = Base

IndInv ==
  TypeInv /\ ControlInv /\ CallsInv /\ TraceInv /\ CallersInv /\ LoadInv /\ OutcomeInv
=============================================================================
