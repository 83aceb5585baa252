----------------------------- MODULE MCRelayNode -----------------------------
(***************************************************************************)
(* TLC instances of RelayNode.  RawPackets deviates from a well-formed     *)
(* packet of the car in one respect at a time.                             *)
(***************************************************************************)
EXTENDS RelayNode

CONSTANTS mercedes, k1, k2, ka, Speed, RPM

MCPhysicalLimits == [c \in Channels |-> [min |-> 0, max |-> 4]]
MCThresholds == [n \in Nodes |-> [c \in {Speed} |-> [lower |-> 0, upper |-> 3]]]
MCRocLimits == [c \in Channels |-> 2]

Frame(s, r) == [c \in Channels |-> IF c = Speed THEN s ELSE r]

Good(s) ==
  [form |-> "ok", node |-> mercedes, key |-> k1, intact |-> TRUE, json |-> TRUE,
   sig |-> "present", signer |-> ka, header |-> s, seq |-> s, ts |-> 0,
   payload |-> Frame(1, 1)]

MCRawPackets ==
  {Good(s) : s \in {1, 2, 3}}
    \cup {[Good(1) EXCEPT !.form = f] : f \in {"unparsable", "badhex", "invalid"}}
    \cup {[Good(2) EXCEPT !.payload = Frame(4, 1)],
          [Good(2) EXCEPT !.payload = Frame(5, 4)],
          [Good(3) EXCEPT !.payload = [c \in {RPM} |-> 1]],
          [Good(1) EXCEPT !.intact = FALSE],
          [Good(1) EXCEPT !.json = FALSE],
          [Good(2) EXCEPT !.key = k2],
          [Good(2) EXCEPT !.sig = "badhex", !.signer = NoKey],
          [Good(3) EXCEPT !.sig = "absent", !.signer = NoKey],
          [Good(3) EXCEPT !.ts = 1]}
=============================================================================
