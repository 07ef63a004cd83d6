------------------------------ MODULE Requests ------------------------------
(***************************************************************************)
(* Requests that check first and write later.  A table of sessions says    *)
(* for each of them what it has checked and is about to write, or that it  *)
(* is idle; the write and the commit are one step, and a commit overtakes  *)
(* every request whose check is already behind it.  The services commit in *)
(* their routers, after the last write.                                    *)
(***************************************************************************)

\* Session s of the table f has made its checks and will write r.
Checked(f, s, r) == [f EXCEPT ![s] = [overtaken |-> FALSE, todo |-> r]]

\* The table once s has committed; s need not have had a check to make.
Committed(f, s, idle) ==
  [t \in DOMAIN f |->
     IF t = s \/ f[t] = idle THEN idle ELSE [f[t] EXCEPT !.overtaken = TRUE]]

\* Session s had been overtaken by the time it commits.
Overtaken(f, s, idle) == f[s] # idle /\ f[s].overtaken

=============================================================================
