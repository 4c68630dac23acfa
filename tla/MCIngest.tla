------------------------------ MODULE MCIngest ------------------------------
(***************************************************************************)
(* Small inputs for Ingest.  Texts "a" and "a+" are one edit apart, "a"    *)
(* and "b" are not; "b.a" is what a document of the paragraphs b and a     *)
(* collects.                                                               *)
(***************************************************************************)
EXTENDS Readers

MCType == {"document", "section", "paragraph", "sentence", "heading",
           "thematic_break"}
MCText == {"", "a", "a+", "b", "b.a", "a.b"}
MCBody == {"Para a", "Para a+", "Header a", "Header b", "Rule"}
MCPaths == {"notes.md"}

(* Percent; pairs not listed are as far apart as texts can be. *)
Close == {{"a", "a+"}}
MCRatio == [t \in MCText |-> [u \in MCText |->
              IF t = u THEN 0 ELSE IF {t, u} \in Close THEN 10 ELSE 100]]

Entry(type, text, body, par) == [type |-> type, text |-> text, body |-> body, par |-> par]
DocumentNode == Entry("document", "", NoBody, 0)
Para(text, body, par) == Entry("paragraph", text, body, par)
Sentence(text, par) == Entry("sentence", text, NoBody, par)
HeadingB == Entry("heading", "b", "Header b", 1)
HeadingA == Entry("heading", "a", "Header a", 1)
Rule == Entry("thematic_break", "", "Rule", 1)

Source(blocks, full) == [nodes |-> <<DocumentNode>> \o blocks, full |-> full]

(* One paragraph of one sentence, and the same after a small edit. *)
OnlyA == Source(<<Para("a", "Para a", 1), Sentence("a", 2)>>, "a")
OnlyAEdited == Source(<<Para("a+", "Para a+", 1), Sentence("a+", 2)>>, "a+")
OnlyB == Source(<<HeadingB>>, "b")
(* A heading and a paragraph. *)
BThenA == Source(<<HeadingB, Para("a", "Para a", 1), Sentence("a", 3)>>, "b.a")
(* A thematic break has an empty text, as the root has during the diff. *)
RuleThenB == Source(<<Rule, HeadingB>>, "b")

(* Two headings, which a reader finds in the table of contents. *)
HeadingsAB == Source(<<HeadingA, HeadingB>>, "a.b")
HeadingsBA == Source(<<HeadingB, HeadingA>>, "b.a")

EditedSources == {OnlyA, OnlyAEdited, BThenA}
AllSources == {OnlyA, OnlyAEdited, BThenA, RuleThenB,
               HeadingsAB, HeadingsBA}
SmallSources == {OnlyA, OnlyB}
(* A section has the text of the paragraph in it. *)
Nested == Source(<<Entry("section", "a", NoBody, 1), Para("a", "Para a", 2), Sentence("a", 3)>>,
                 "a")
NestedSources == {OnlyB, Nested}

=============================================================================
