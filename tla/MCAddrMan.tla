---- MODULE MCAddrMan ----
(***************************************************************************)
(* A small instance of AddrMan: ha and ha2 are two ports of one host.      *)
(***************************************************************************)
EXTENDS AddrMan

CONSTANTS ha, ha2, hb, hc, s1, s2, s3

HostOf == [x \in Addr |-> IF x = ha2 THEN ha ELSE x]

(* An address goes to the new bucket of its source, but hc goes to bucket 0 *)
(* or 1 in any case.                                                        *)
NewBucketOf ==
  [h \in Addr \ {ha2} |->
     [s \in Source |-> CASE s = s1 -> 0 [] s = s2 -> 1
                          [] s = s3 -> IF h = hc THEN 1 ELSE 2]]
TriedBucketOf == [x \in Addr |-> IF x = ha2 THEN 1 ELSE 0]

====
