--------------------------- MODULE MCValidatorNode ---------------------------
(***************************************************************************)
(* TLC instance of ValidatorNode: two cars, one signing key each, and two  *)
(* generations of the relay session.  Packets deviates from a well-formed  *)
(* packet of the current kind in one respect at a time.                    *)
(***************************************************************************)
EXTENDS ValidatorNode

CONSTANTS mercedes, redbull, k1, k2, ka, kb

Good(n, s) ==
  [node |-> n, key |-> k1, intact |-> TRUE,
   signer |-> IF n = mercedes THEN ka ELSE kb,
   header |-> s, seq |-> s, ts |-> 0, zkp |-> "absent"]

MCPackets ==
  {Good(mercedes, s) : s \in {1, 2, 4}}
    \cup {Good(redbull, 2)}
    \cup {[Good(mercedes, 2) EXCEPT !.zkp = z] : z \in {"valid", "invalid"}}
    \cup {[Good(mercedes, 1) EXCEPT !.intact = FALSE],
          [Good(mercedes, 1) EXCEPT !.key = k2],
          [Good(mercedes, 3) EXCEPT !.signer = NoKey],
          [Good(mercedes, 1) EXCEPT !.seq = 3],
          [Good(mercedes, 1) EXCEPT !.header = 0],
          [Good(mercedes, 3) EXCEPT !.ts = 1]}
=============================================================================
