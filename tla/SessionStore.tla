----------------------------- MODULE SessionStore -----------------------------
(***************************************************************************)
(* What the operations on sessions promise about the database: every       *)
(* record that is stored for a device is the whole of one operation on the *)
(* record that was there.  No operation's change is lost, applied twice or *)
(* applied in part, whatever other operations, failed storage calls or     *)
(* stops there are.  There are no jobs, loads or locks here.               *)
(***************************************************************************)
CONSTANTS Addresses,  \* the devices of one peer
          Calls,      \* the calls the application makes: the address, the
                      \* kind of operation, and its message or device
          Draws,      \* numbers of the draws from the key pair generator
          Start,      \* the records the database starts with
          IsChange(_, _, _, _)  \* of two records, a call and a draw: the call
                      \* may leave the second where it finds the first

VARIABLE stored       \* the record of each address

Init == stored = Start

\* An operation that changes the record of its address.
Operation(call, draw) ==
  LET after == stored'[call.address]
  IN  /\ after # stored[call.address]
      /\ IsChange(stored[call.address], after, call, draw)
      /\ stored' = [stored EXCEPT ![call.address] = after]

Next == \E call \in Calls, draw \in Draws : Operation(call, draw)

Spec == Init /\ [][Next]_stored
=============================================================================
