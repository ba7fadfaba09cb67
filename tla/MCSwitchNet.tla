----------------------------- MODULE MCSwitchNet -----------------------------
(* Three switches in a row, with narrow, middle and wide interfaces. *)
EXTENDS SwitchNet

RowEnds == {<<"a", 1>>, <<"b", 1>>, <<"b", 2>>, <<"c", 1>>}

RowPeer == [e \in RowEnds |-> CASE e = <<"a", 1>> -> <<"b", 1>>
                                [] e = <<"b", 1>> -> <<"a", 1>>
                                [] e = <<"b", 2>> -> <<"c", 1>>
                                [] e = <<"c", 1>> -> <<"b", 2>>]

\* Interface 0 at every switch, for as long as the label lasts.
ZeroForEver == {{b \in 0..63 : b % 4 < 2}}

\* Every number of an interface (but the router's) comes back from each form that is wide enough
\* for it, NumberCompress and EncodingScheme agree on the forms, and the label of an interface is canonical.
ASSUME NumbersComeBack ==
    \A n \in (0..256) \ {1}, i \in DOMAIN V358 :
        LET bits == FormSize(V358[i])
            label == GetCompressed(n, bits) \cup {bits}
        IN  bits >= BitsUsedForNumber(n) =>
                /\ BitsUsedForLabel(label) = bits /\ GetDecompressed(label, bits) = n
                /\ FormNum(V358, label) = i
                /\ ConvertLabel(V358, LabelOut(n), i) = label
                /\ ConvertLabel(V358, label, Canonical) = LabelOut(n)

=============================================================================
