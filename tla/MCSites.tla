------------------------------ MODULE MCSites ------------------------------
(* A directory with an index, a subdirectory, a name with a backslash and a  *)
(* file that is not HTML, in five states to start from, and six archives     *)
(* that no Pack has made.                                                    *)
EXTENDS Sites

CONSTANTS s1, t1, s3, huge, v1

Root == <<"index.html">>
Docs == <<"docs", "index.html">>
DocsA == <<"docs", "a.html">>
Back == <<"b\\c.html">>
Style == <<"style.css">>
Clash == <<"a.html">>
ClashIndex == <<"a.html", "index.html">>

MCPath == {Root, Docs, DocsA, Back, Style, Clash, ClashIndex}
MCOnDisk == {Root, Docs, DocsA, Back, Style, Clash}
MCHtml == MCPath \ {Style}
MCInvalid == {Back}
MCSize == (s1 :> 1) @@ (t1 :> 1) @@ (s3 :> 3) @@ (huge :> 15)

Regular(b) == [type |-> "regular", body |-> b]
Holding(files) == [p \in OnDisk |-> IF p \in DOMAIN files THEN Regular(files[p]) ELSE Absent]
MCDrafts == {Holding((Root :> s1) @@ (Docs :> s1) @@ (DocsA :> t1)),
             Holding((Root :> s1) @@ (Docs :> s3)),
             Holding((Root :> s1) @@ (Back :> s1)),
             Holding((Docs :> s1) @@ (Style :> s1)),
             Holding((Root :> s1) @@ (Docs :> s1) @@ (DocsA :> s1) @@ (Clash :> s1))}
MCEdited == {Absent, Regular(t1), Regular(huge), [type |-> "link", body |-> s1],
             [type |-> "other", body |-> s1]}

E(name, b) == [name |-> name, size |-> Size[b], body |-> b, regular |-> TRUE]
MCUploads == {<<E(Root, s1), E(Docs, huge)>>,
              <<E(Root, t1), E(Root, s3)>>,
              <<E(Docs, s1)>>,
              <<E(Root, s1), E(Clash, t1), E(ClashIndex, t1)>>,
              <<E(Root, s1), [E(Docs, s3) EXCEPT !.size = 1]>>,
              <<[E(Root, s1) EXCEPT !.regular = FALSE]>>}

MCSubpath == {<<>>, <<"docs">>, DocsA, Clash}
=============================================================================
