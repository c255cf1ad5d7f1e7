------------------------------ MODULE PathMap -------------------------------
(***************************************************************************)
(* Which directory of the host a path of the new root stands for: the      *)
(* options -M, -r and -E of uchroot (main.cc) and the path properties of   *)
(* LocalRequestProcessor (local.cc:12-94).  Strings are sequences of       *)
(* characters, for the code decides by characters.                         *)
(***************************************************************************)
EXTENDS Integers, Sequences, SequencesExt

CONSTANTS
    Chars,
    Bindings,       \* arguments of -M
    Roots,          \* arguments of -r
    FusePaths,      \* paths FUSE asks for: "/" or "/name/name..."
    MaxBindings     \* how many -M options are given

\* With the root directory's, the list has at most 16 entries: see addPathMapping.
ASSUME PathMapAssumption ==
    /\ MaxBindings \in 0 .. 15
    /\ {"/", ":"} \subseteq Chars
    /\ \A s \in Bindings : s \in Seq(Chars)
    /\ \A s \in Roots \cup FusePaths : s \in Seq(Chars) /\ s # <<>>
    /\ \A p \in FusePaths : p[1] = "/" /\ (p # <<"/">> => Last(p) # "/")
    /\ \A p \in FusePaths : \A i \in 2 .. Len(p) : p[i] = "/" => p[i - 1] # "/"

VARIABLES
    phase,          \* "options", "running" or "usage", uchroot gave up
    given,          \* the -M options so far: [inside, outside], as typed
    chrootDir,
    withfuse,
    paths           \* the program's list of [attrType, inside, outside]

vars == <<phase, given, chrootDir, withfuse, paths>>

Absolute(s) == s # <<>> /\ s[1] = "/"

\* SRC:TGT, both absolute; <<>> if it is not.
parseBind(s) ==
    LET colons == {i \in DOMAIN s : s[i] = ":"}
        pos == CHOOSE i \in colons : \A j \in colons : i =< j
        bind == [outside |-> SubSeq(s, 1, pos - 1), inside |-> SubSeq(s, pos + 1, Len(s))]
    IN  IF colons # {} /\ Absolute(bind.outside) /\ Absolute(bind.inside) THEN bind ELSE <<>>

\* Mutant: the slashes stay.
removeTrailingSlashesNone(s) == s

\* All but one go.  (The string "/" is emptied on the way; reading before its begin
\* finds a zero byte of the string's length.)
removeTrailingSlashes(s) ==
    LET body == SubSeq(s, 1, Max({0} \cup {i \in DOMAIN s : s[i] # "/"}))
    IN  IF Last(s) = "/" THEN Append(body, "/") ELSE body

\* The new entry is put first and the list sorted, longest inside path first.  The others
\* are in order, and among up to 16 entries sort() leaves equals as they are: only the
\* new one moves, behind all that are longer.
addPathMapping(attrType, inside, outside) ==
    LET pp == [attrType |-> attrType, inside |-> removeTrailingSlashes(inside),
               outside |-> removeTrailingSlashes(outside)]
        longer == {i \in DOMAIN paths : Len(paths[i].inside) > Len(pp.inside)}
    IN  InsertAt(paths, Max({0} \cup longer) + 1, pp)

\* Mutant: a prefix of the string is enough.
isPathPrefixOfString(prefix, path) == IsPrefix(prefix, path)

isPathPrefixOf(prefix, path) ==
    IF Last(prefix) = "/" THEN IsPrefix(prefix, path)
    ELSE path = prefix \/ IsPrefix(prefix \o <<"/">>, path)

\* The first entry that fits, as a set of at most one.
findPathProp(path) ==
    LET hits == {i \in DOMAIN paths : Absolute(path) /\ isPathPrefixOf(paths[i].inside, path)}
    IN  {paths[i] : i \in {j \in hits : \A k \in hits : j =< k}}

getAttrType(path) ==
    IF findPathProp(path) = {} THEN "Untranslated"
    ELSE (CHOOSE pp \in findPathProp(path) : TRUE).attrType

\* Mutant: the slash between the two is forgotten.
pathConcatGlued(p1, p2) ==
    IF Last(p1) = "/" /\ p2 # <<>> /\ p2[1] = "/" THEN p1 \o Tail(p2) ELSE p1 \o p2

pathConcat(p1, p2) ==
    IF Last(p1) = "/" THEN p1 \o IF p2 # <<>> /\ p2[1] = "/" THEN Tail(p2) ELSE p2
    ELSE IF p2 # <<>> /\ p2[1] = "/" THEN p1 \o p2
    ELSE p1 \o <<"/">> \o p2

translatePath(path) ==
    IF findPathProp(path) = {} THEN path
    ELSE LET pp == CHOOSE e \in findPathProp(path) : TRUE
         IN  pathConcat(pp.outside, SubSeq(path, Len(pp.inside) + 1, Len(path)))
-----------------------------------------------------------------------------
Init ==
    /\ phase = "options"
    /\ given = <<>>
    /\ chrootDir = <<"/">>
    /\ withfuse = FALSE
    /\ paths = <<>>

OptM ==
    /\ phase = "options" /\ Len(given) < MaxBindings
    /\ \E arg \in Bindings :
         LET bind == parseBind(arg)
         IN  IF bind = <<>>
             THEN phase' = "usage" /\ UNCHANGED <<given, paths>>
             ELSE /\ paths' = addPathMapping("Mapped", bind.inside, bind.outside)
                  /\ given' = Append(given, bind)
                  /\ UNCHANGED phase
    /\ UNCHANGED <<chrootDir, withfuse>>

OptR ==
    /\ phase = "options"
    /\ chrootDir' \in Roots
    /\ UNCHANGED <<phase, given, withfuse, paths>>

OptE ==
    /\ phase = "options"
    /\ withfuse' = TRUE
    /\ UNCHANGED <<phase, given, chrootDir, paths>>

\* Without -E nobody asks the processor anything.
Start ==
    /\ phase = "options"
    /\ IF ~Absolute(chrootDir) THEN phase' = "usage" /\ UNCHANGED paths
       ELSE /\ phase' = "running"
            /\ paths' = IF withfuse THEN addPathMapping("Emulated", <<"/">>, chrootDir) ELSE paths
    /\ UNCHANGED <<given, chrootDir, withfuse>>

Next == OptM \/ OptR \/ OptE \/ Start

Spec == Init /\ [][Next]_vars
=============================================================================
