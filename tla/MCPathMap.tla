----------------------------- MODULE MCPathMap ------------------------------
(* Constants for PathMapProps: names of which one begins with the other. *)
EXTENDS PathMapProps

MCChars == {"/", ":", "a", "b"}

Names == {<<"a">>, <<"a", "b">>}

Slash == <<"/">>

Joined(names) == FlattenSeq([i \in DOMAIN names |-> Slash \o names[i]])

MCFusePaths == {Slash} \cup {Joined(ns) : ns \in UNION {[1 .. n -> Names] : n \in 1 .. 3}}

\* Two levels of directories and /a/a/a, and a file ab in every directory of the second.
MCDirs == {<<>>} \cup UNION {[1 .. n -> Names] : n \in 1 .. 2} \cup {<<<<"a">>, <<"a">>, <<"a">>>>}
MCFiles == {ns \o <<<<"a", "b">>>> : ns \in [1 .. 2 -> Names]}

Colon == <<":">>

Sources == {Joined(<<<<"a">>>>), Joined(<<<<"a", "b">>, <<"a">>>>) \o Slash,
            Joined(<<<<"a">>, <<"a">>, <<"a", "b">>>>)}

Targets == {Slash, Joined(<<<<"a">>>>), Joined(<<<<"a">>>>) \o Slash, Joined(<<<<"a", "b">>>>) \o Slash \o Slash,
            Joined(<<<<"a">>, <<"a">>>>), Joined(<<<<"a", "b">>, <<"a">>>>)}

MCBindings ==
    {s \o Colon \o t : s \in Sources, t \in Targets}
      \cup {Joined(<<<<"a">>>>), Colon \o Slash, Slash \o Colon \o <<"a">>,
            Slash \o Colon \o Slash \o Slash}

MCRoots == {Slash, Joined(<<<<"a", "b">>>>), Joined(<<<<"a", "b">>>>) \o Slash, <<"a">>}
=============================================================================
