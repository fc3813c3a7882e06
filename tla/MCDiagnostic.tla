----------------------------- MODULE MCDiagnostic -----------------------------
(* Small instances of Diagnostic. *)
EXTENDS Diagnostic, TLC

Msg(len, to, kind) == [len |-> len, to |-> to, kind |-> kind]

CONSTANTS e1, e2, i1, n1, n2

\* A message in one chunk, one in up to four, one without diagnostic data.
Small(to) == Msg(2, to, "accept")
Large(to) == Msg(7, to, "accept")
Alive == Msg(1, n1, "other")

\* One tester and one local test equipment; one of the two has a large message.
OneLarge ==
  LET Tester == {<<Large(n1), Small(n2)>>, <<Alive, Large(n2)>>,
                 <<Msg(7, n1, "refuse")>>, <<Msg(7, n1, "power")>>,
                 <<Msg(7, n1, "close")>>, <<Small("all"), Large(n1)>>,
                 <<Large("all")>>, <<Msg(2, n1, "bad")>>}
      Equip == {<<Large(n2), Small(n1)>>, <<Small("all"), Msg(2, n2, "refuse")>>}
  IN  {(e1 :> s @@ i1 :> <<Small(n1)>>) : s \in Tester}
      \cup {(e1 :> <<Small(n1)>> @@ i1 :> s) : s \in Equip}

\* A tester that answers an alive check right after a large message.
Pipelined == {(e1 :> <<Large(n1), Alive>>)}

\* Two testers that are both patient, a single one, and one
\* whose first message is refused.
TwoLarge == {(e1 :> <<Large(n1)>> @@ e2 :> <<Large(n2)>>)}
AfterRefusal == {(e1 :> <<Msg(2, n1, "refuse"), Large(n1)>>)}
LargeOnly == {(e1 :> <<Large(n1)>>)}
=============================================================================
