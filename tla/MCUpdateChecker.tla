-------------------------- MODULE MCUpdateChecker --------------------------
(***************************************************************************)
(* A small instance of UpdateChecker: manifests over two components, with  *)
(* versions whose numbers have one digit.                                  *)
(***************************************************************************)
EXTENDS UpdateChecker

Entry(n, v) == << <<"Name", n>>, <<"Version", v>> >>

\* Manifests with two components, or the same one twice.
TwoEntries(versions) ==
    {Entry(n, v) \o Entry(m, w) : n, m \in 1..2, v, w \in versions}

\* No entry, one entry, and one entry behind a tag without a partner: an entry
\* without a version, an empty name, a version without a name.
Incomplete(versions) ==
    LET tags == {<<"Name", n>> : n \in 0..2} \union {<<"Version", v>> : v \in versions}
    IN  {s \o e : s \in BoundedSeq(tags, 1),
                  e \in {<<>>} \union {Entry(n, v) : n \in 0..2, v \in versions}}

OneDigit == TwoEntries({<<0, 5>>, <<0, 5, 1>>}) \union Incomplete({<<0, 5>>, <<0, 5, 1>>})

\* In this instance the versions can be compared as text.
ASSUME OneDigitCompares == TextOrderIsNumberOrder
=============================================================================
