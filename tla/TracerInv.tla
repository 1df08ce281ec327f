------------------------------ MODULE TracerInv ------------------------------
(***************************************************************************)
(* The inductive invariant of Tracer: its types, and for each process      *)
(* what its trace is at each point of its life.                            *)
(***************************************************************************)
EXTENDS Tracer

Started == {"running", "flushing", "exited", "killed"}

(* The call sites in a file, which are its pieces at odd places.           *)
HeadsOf(f) == {f[2 * i - 1] : i \in {j \in Nat \ {0} : 2 * j - 1 <= Len(f)}}
SitesIn(records) == {site[1] : site \in records}

(* A process writes to its own trace, which is empty until it does, and a  *)
(* thread that has begun a row holds the lock.                             *)
OwnerInv(p) ==
  /\ life[p] \in {"running", "flushing"} => log[p] = p
  /\ life[p] \notin Started => file[p] = << >> /\ holder[p] = None
  /\ life[p] = "forked" => calls[p] = << >>
  /\ holder[p] # None => busy[p][holder[p]] # None
  /\ \A t \in Threads : busy[p][t] # None => holder[p] = t
  /\ life[p] \in {"flushing", "exited"} => holder[p] = None

(* Edge mode: a row for each call, the last one begun while the lock is    *)
(* held.                                                                   *)
Row(p, i) == file[p][2 * i - 1] = calls[p][i][1] /\ file[p][2 * i] = calls[p][i][2]

EdgeInv(p) ==
  mode = "edge" =>
    /\ covered[p] = {} /\ unwritten[p] = {}
    /\ calls[p] \in Seq(Calls)
    /\ (life[p] \in Started /\ holder[p] = None) =>
         /\ Len(file[p]) = 2 * Len(calls[p])
         /\ \A i \in 1 .. Len(calls[p]) : Row(p, i)
    /\ (life[p] \in Started /\ holder[p] # None) =>
         LET n == Len(calls[p]) IN
         /\ n > 0 /\ Len(file[p]) = 2 * n - 1
         /\ \A i \in 1 .. n - 1 : Row(p, i)
         /\ file[p][2 * n - 1] = calls[p][n][1]
         /\ busy[p][holder[p]] = calls[p][n]

(* Fast mode: the sites of the calls are those of the flags until the exit *)
(* writes them out.                                                        *)
FastInv(p) ==
  mode = "fast" =>
    /\ holder[p] = None
    /\ life[p] = "running" =>
         file[p] = << >> /\ SitesIn(covered[p]) = SitesOf(calls[p])
    /\ life[p] = "flushing" =>
         HeadsOf(file[p]) \cup SitesIn(unwritten[p]) = SitesOf(calls[p])
    /\ life[p] = "exited" =>
         HeadsOf(file[p]) = SitesOf(calls[p]) /\ Len(file[p]) % 2 = 0
    /\ life[p] = "killed" => HeadsOf(file[p]) \subseteq SitesOf(calls[p])

ProcessInv(p) == OwnerInv(p) /\ EdgeInv(p) /\ FastInv(p)
IndInv == TypeOK /\ \A p \in Pids : ProcessInv(p)
=============================================================================
