------------------------------ MODULE Response ------------------------------
(***************************************************************************)
(* What WriteJSON promises (write.go): "WriteJSON streams the array for    *)
(* validated p and returns the bytes written, exactly JSONSize(p). It      *)
(* stops at the first write error." The client gets the bytes of the array *)
(* in order, and WriteJSON returns no error only when it sent all of them, *)
(* as many as the handler announced in Content-Length (server.go:75).      *)
(***************************************************************************)
EXTENDS SequencesExt

CONSTANT Bodies  \* the arrays of the requests

VARIABLES
    body,       \* the bytes of the array
    announced,  \* JSONSize(p)
    got,        \* the bytes that the client got
    result,     \* "writing", "complete" or "failed"
    written     \* the number that WriteJSON returns

vars == <<body, announced, got, result, written>>

Init ==
    /\ body \in Bodies
    /\ announced \in Nat
    /\ got = <<>>
    /\ result = "writing"
    /\ written = 0

Send ==
    /\ result = "writing"
    /\ IsPrefix(got, got') /\ IsPrefix(got', body)
    /\ written' = Len(got')
    /\ result' \in {"writing", "complete", "failed"}
    /\ result' = "complete" => got' = body /\ written' = announced
    /\ UNCHANGED <<body, announced>>

Spec == Init /\ [][Send]_vars

=============================================================================
