---------------------------- MODULE PathMapProps ----------------------------
(***************************************************************************)
(* What -M promises, said of path components and of the objects of a host  *)
(* instead of characters.                                                  *)
(***************************************************************************)
EXTENDS PathMap

CONSTANTS
    Dirs, Files     \* the host's objects, as sequences of names

ASSUME HostAssumption ==
    /\ Dirs \cap Files = {}
    /\ <<>> \in Dirs
    /\ \A o \in Dirs \cup Files : o # <<>> => Front(o) \in Dirs

\* Where the names of a string start, the name at a start, and all of them in order.
Starts(s) == {i \in DOMAIN s : s[i] # "/" /\ (i = 1 \/ s[i - 1] = "/")}

NameAt(s, i) == SubSeq(s, i, Max({j \in i .. Len(s) : \A k \in i .. j : s[k] # "/"}))

Nth(S, n) == CHOOSE i \in S : Cardinality({j \in S : j =< i}) = n

Components(s) == [n \in 1 .. Cardinality(Starts(s)) |-> NameAt(s, Nth(Starts(s), n))]

\* What the host finds for names, if it has to be a directory or not.
resolve(names, directory) ==
    LET blocked == {o \in Files : IsStrictPrefix(o, names) \/ (o = names /\ directory)}
        Result(e, o) == [error |-> e, object |-> o]
    IN  IF blocked # {} THEN Result("ENOTDIR", <<>>)
        ELSE IF names \in Dirs \cup Files THEN Result("OK", names) ELSE Result("ENOENT", <<>>)

\* path_resolution(7): a path that ends in a slash is that of a directory.
lookup(s) == resolve(Components(s), Last(s) = "/")

\* A target that ends in a slash.
Slashed(s) == Last(s) = "/" /\ Components(s) # <<>>

\* The new root as the user orders it: the root directory, and on top of it what is
\* mapped, a deeper target over its ancestors, one with a slash at its end over the same
\* one without, and a later option over an earlier one.
Over(i, j) ==
    LET s == given[i].inside
        t == given[j].inside
        deeper == Len(Components(s)) - Len(Components(t))
    IN  \/ deeper > 0
        \/ deeper = 0 /\ Slashed(s) /\ ~Slashed(t)
        \/ deeper = 0 /\ (Slashed(s) <=> Slashed(t)) /\ j =< i

Covering(p) == {i \in DOMAIN given : IsPrefix(Components(given[i].inside), Components(p))}

Chosen(p) == {i \in Covering(p) : \A j \in Covering(p) : Over(i, j)}

Ordered(p) == \E i \in Chosen(p) : Components(given[i].inside) # <<>>

TheChosen(p) == given[CHOOSE i \in Chosen(p) : TRUE]

OrderedObject(p) ==
    LET rest(inside) == SubSeq(Components(p), Len(Components(inside)) + 1, Len(Components(p)))
        names == IF Ordered(p)
                 THEN Components(TheChosen(p).outside) \o rest(TheChosen(p).inside)
                 ELSE Components(chrootDir) \o Components(p)
    IN  resolve(names, Last(p) = "/")

Doubled(s) == \E i \in DOMAIN s : i > 1 /\ s[i] = "/" /\ s[i - 1] = "/" /\ ~(\A j \in i .. Len(s) : s[j] = "/")

\* A target that ends in a slash is not matched by the target itself, and the slash put
\* after a mapped file makes it no file.
Special(p) ==
    \E i \in DOMAIN given :
        \/ Doubled(given[i].inside)
        \/ /\ Components(p) = Components(given[i].inside)
           /\ Slashed(given[i].inside) \/ Components(given[i].outside) \in Files

IsEntry(e) ==
    /\ e.attrType \in {"Mapped", "Emulated"}
    /\ \A s \in {e.inside, e.outside} :
         Absolute(s) /\ (Len(s) > 1 /\ Last(s) = "/" => s[Len(s) - 1] # "/")

\* The list is sorted, has an entry per option, and nothing ends in two slashes
\* (addPathMapping, local.cc:22-30).
TypeOK ==
    /\ phase \in {"options", "running", "usage"}
    /\ \A i \in DOMAIN paths : IsEntry(paths[i])
    /\ \A i \in DOMAIN paths : i > 1 => Len(paths[i].inside) =< Len(paths[i - 1].inside)
    /\ Len(paths) = Len(given) + IF phase = "running" /\ withfuse THEN 1 ELSE 0

\* The owner and mode of a path are emulated exactly if no -M covers it, whatever the
\* order of the options and however their names overlap (findPathProp, local.cc:50-63).
RightRules ==
    phase = "running" /\ withfuse =>
        \A p \in FusePaths : Special(p) \/
            getAttrType(p) = IF Ordered(p) THEN "Mapped" ELSE "Emulated"

\* A request for a path reaches the object of the host that the options place there, the
\* same file and never its neighbour (translatePath, local.cc:65-94).
RightObject ==
    phase = "running" /\ withfuse =>
        \A p \in FusePaths : Special(p) \/ lookup(translatePath(p)) = OrderedObject(p)

\* The file named with -M is found under its target (usage text, main.cc:112).
MappedIsFound ==
    phase = "running" /\ withfuse =>
        \A p \in FusePaths :
            (\E i \in Chosen(p) : Components(p) = Components(given[i].inside)
                                    /\ ~Slashed(given[i].inside)
                                    /\ Components(given[i].inside) # <<>>)
              => lookup(translatePath(p)) = OrderedObject(p)
=============================================================================
