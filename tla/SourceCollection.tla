-------------------------- MODULE SourceCollection --------------------------
(***************************************************************************)
(* collectSourceEvidence (quarantine.js) over createSourcePlan             *)
(* (source-plan.js): which files of an unpacked package are read, in which *)
(* order, and what is recorded as a gap.  A specifier is a link: the set   *)
(* of the inventory's files the plan takes it for (empty when it leaves    *)
(* the package, is computed or names nothing), whether it is a glob, and   *)
(* the files the auditor's walk and the execution graph try for it, in     *)
(* their order: each of the three knows suffixes of its own.               *)
(***************************************************************************)
EXTENDS Integers, Sequences, SequencesExt, FiniteSetsExt

CONSTANTS Order,      \* all file names, sorted
          Packages,   \* the packages that may be staged
          Marker      \* the bytes of the line that replaces an elided middle

Manifest == "package.json"
Index == "index.js"
Names == ToSet(Order)
LinkType(files) == [to : SUBSET files, glob : BOOLEAN, audit : Seq(Names), graph : Seq(Names)]

\* A package: its files and those listed before the entry limit; of the manifest, which is text, the
\* entry points (noMain: neither main nor exports), the scripts npm runs by itself (hooks) and the
\* others; what each file imports (traced: specifiers only the parser finds, none the plan's pattern
\* does), and the scripts it starts, which only a file that parses does for the scan; sizes and kinds.
WellFormed(p) ==
    /\ p.files \subseteq Names /\ p.text \subseteq p.files /\ p.binary \subseteq p.files
    /\ p.listed \subseteq p.files /\ p.unparsable \subseteq p.files /\ p.nonAscii \subseteq p.files
    /\ p.parses \in BOOLEAN /\ p.noMain \in BOOLEAN
    /\ \A key \in {"entries", "hooks", "scripts"} :
          /\ p[key] \in Seq(LinkType(p.files))
          /\ Manifest \notin p.files => p[key] = << >>
    /\ Manifest \in p.files => Manifest \in p.text
    /\ \A f \in p.files :
          /\ p.imports[f] \in Seq(LinkType(p.files)) /\ p.starts[f] \in Seq(LinkType(p.files))
          /\ p.traced[f] \subseteq Seq(Names) /\ p.size[f] \in Nat
          /\ f \in p.unparsable => p.starts[f] = << >>
    /\ \A key \in {"maxFiles", "perFile", "maxTotal", "maxWork"} : p[key] \in Nat
ASSUME PackagesAssumption ==
    Order \in Seq(STRING) /\ Marker \in Nat /\ \A p \in Packages : WellFormed(p)

VARIABLES
    package,
    plan,      \* [required : in the order of insertion, install : set, gaps : set, work : Nat]
    readOrder, \* the files whose content is in sourceFiles, as they were read
    elided,    \* of those, the ones read without their middle
    blind,     \* of those, the ones whose links were in the middle
    unparsed,  \* of the files read, the ones whose text the parser rejects
    visited,
    expanded,  \* the install flag a file's links were followed with, "no" before
    at,        \* position of the pass over the required files
    cursor,    \* position in the sorted inventory
    bytes,
    gaps,      \* gaps the collection itself records
    phase      \* "pass" over the required files and on to the next one, "done"

collection == <<package, plan, readOrder, elided, blind, unparsed, visited, expanded, at, cursor, bytes, gaps, phase>>

\* The given files, sorted.
InOrder(files) ==
    LET pick[n \in 0 .. Len(Order)] ==
            IF n = 0 THEN << >>
            ELSE IF Order[n] \in files THEN Append(pick[n - 1], Order[n]) ELSE pick[n - 1]
    IN pick[Len(Order)]

read == ToSet(readOrder)
Inventory == package.listed
Listed == InOrder(Inventory)
Pending == (IF Manifest \in Inventory THEN <<Manifest>> ELSE << >>)
               \o Listed
Truncated == package.listed # package.files

InitCollection ==
    /\ package \in Packages
    /\ plan = [required |-> << >>, install |-> {}, gaps |-> {}, work |-> 0]
    /\ readOrder = << >> /\ elided = {} /\ blind = {} /\ unparsed = {} /\ visited = {}
    /\ expanded = [f \in Names |-> "no"]
    /\ at = 1 /\ cursor = 1 /\ bytes = 0
    /\ gaps = IF Truncated THEN {"entry limit"} ELSE {}
    /\ phase = "pass"

----------------------------------------------------------------------------
\* The plan.

Require(p, names, install) ==
    [p EXCEPT !.required = @ \o InOrder(names \ ToSet(p.required)),
              !.install = IF install THEN @ \cup names ELSE @]

\* Each resolution costs one unit of work, and a glob one more for each file it is compared with.
Resolve(p, link, install) ==
    LET left == package.maxWork - p.work - 1
        seen == IF link.glob
                THEN {Listed[n] : n \in 1 .. Min({Len(Listed), Max({0, left})})}
                ELSE Inventory
        hits == link.to \cap seen
        spent == IF link.glob THEN Min({Cardinality(Inventory), Max({0, left}) + 1}) ELSE 0
        found == Require([p EXCEPT !.work = @ + 1 + spent], hits, install)
    IN IF left < 0 THEN [p EXCEPT !.work = @ + 1, !.gaps = @ \cup {"work limit"}]
       ELSE [found EXCEPT !.gaps = @ \cup (IF hits = {} THEN {"unresolved"} ELSE {})
                                     \cup (IF seen = Inventory THEN {} ELSE {"work limit"})]

ResolveAll(p, links, install) ==
    LET q[n \in 0 .. Len(links)] ==
            IF n = 0 THEN p ELSE Resolve(q[n - 1], links[n], install)
    IN q[Len(links)]

\* Entry points, index.js by default, then the files the scripts name.
ManifestPlan(p) ==
    LET entries == ResolveAll(p, package.entries, FALSE)
        main == IF package.noMain /\ Index \in Inventory
                THEN Require(entries, {Index}, FALSE) ELSE entries
    IN ResolveAll(ResolveAll(main, package.hooks, TRUE), package.scripts, FALSE)

----------------------------------------------------------------------------
\* The reading loop.

Mode(f) == IF f \in plan.install THEN "install" ELSE "runtime"

\* Mutant: a file's links are followed once.
StaleOnce(f) == f \in read /\ expanded[f] = "no"
\* A file's links are followed again when it turns out to run at install time.
Stale(f) == f \in read /\ expanded[f] # Mode(f)

\* What the content that was read shows of a file's links: a pattern finds the imports, the parser
\* the started scripts.
LinksRead(f) ==
    IF f \in blind THEN << >>
    ELSE IF f \in unparsed THEN package.imports[f] ELSE package.imports[f] \o package.starts[f]

Expand ==
    /\ phase = "pass"
    /\ at <= Len(plan.required)
    /\ Stale(plan.required[at])
    /\ LET f == plan.required[at]
       IN /\ plan' = ResolveAll(plan, LinksRead(f), Mode(f) = "install")
          /\ expanded' = [expanded EXCEPT ![f] = Mode(f)]
    /\ at' = at + 1
    /\ UNCHANGED <<package, readOrder, elided, blind, unparsed, visited, cursor, bytes, gaps, phase>>

Pass ==
    /\ phase = "pass"
    /\ at <= Len(plan.required)
    /\ ~Stale(plan.required[at])
    /\ at' = at + 1
    /\ UNCHANGED <<package, plan, readOrder, elided, blind, unparsed, visited, expanded, cursor, bytes, gaps, phase>>

Unvisited == {n \in DOMAIN plan.required : plan.required[n] \notin visited}
EndOfPass == phase = "pass" /\ at > Len(plan.required)
NextIsOptional == EndOfPass /\ Unvisited = {} /\ cursor <= Len(Pending)

MoreRequired == EndOfPass /\ Unvisited # {}
MoreToDo == MoreRequired \/ NextIsOptional

\* An optional file that was visited, or that is not source text: it stays available to an import.
Skip ==
    /\ NextIsOptional
    /\ Pending[cursor] \in visited \/ Pending[cursor] \notin package.text
    /\ cursor' = cursor + 1
    /\ at' = 1
    /\ UNCHANGED <<package, plan, readOrder, elided, blind, unparsed, visited, expanded, bytes, gaps, phase>>

\* The file visited next: a required one first.
Visits(f) ==
    \/ MoreRequired /\ f = plan.required[Min(Unvisited)] /\ UNCHANGED cursor
    \/ /\ NextIsOptional
       /\ f = Pending[cursor] /\ f \notin visited /\ f \in package.text
       /\ cursor' = cursor + 1

Full == Cardinality(read) >= package.maxFiles \/ bytes >= package.maxTotal

Visit(f) ==
    /\ Visits(f)
    /\ visited' = visited \cup {f}
    /\ at' = 1
    /\ UNCHANGED <<package, expanded, phase>>

\* The file is no regular file any more, or a limit is reached.
Refuse(f) ==
    /\ Visit(f)
    /\ \/ gaps' = gaps \cup {"changed"}
       \/ Full /\ gaps' = gaps \cup {"limit"}
    /\ UNCHANGED <<plan, readOrder, elided, blind, unparsed, bytes>>

Limit == Min({package.perFile, package.maxTotal - bytes})

Cut(f) == package.size[f] > Limit

\* What n bytes of a file count for once they were decoded: each invalid one becomes a character of
\* three.
Decoded(f, n) == IF f \in package.nonAscii THEN n .. 3 * n ELSE {n}

ReadFile(f) ==
    /\ Visit(f)
    /\ ~Full
    /\ readOrder' = Append(readOrder, f)
    /\ \/ /\ ~Cut(f)
          /\ \E n \in Decoded(f, package.size[f]) : bytes' = bytes + n
          /\ unparsed' = unparsed \cup ({f} \cap package.unparsable)
          /\ plan' = IF f = Manifest /\ package.parses THEN ManifestPlan(plan) ELSE plan
          /\ gaps' = gaps \cup (IF f = Manifest /\ ~package.parses THEN {"manifest"} ELSE {})
          /\ UNCHANGED <<elided, blind>>
       \/ /\ Cut(f)                    \* both ends are read; a cut manifest does not parse
          /\ \E n \in Decoded(f, 2 * (Limit \div 2)) : bytes' = bytes + n + Marker
          /\ elided' = elided \cup {f}
          /\ \E lost, broken \in SUBSET {f} : blind' = blind \cup lost /\ unparsed' = unparsed \cup broken
          /\ gaps' = gaps \cup {"truncated"} \cup (IF f = Manifest THEN {"manifest"} ELSE {})
          /\ UNCHANGED plan

Uninspected == {f \in ToSet(plan.required) : f \notin read}
Opaque == {f \in ToSet(plan.required) : f \in read /\ f \in package.binary}

Finish ==
    /\ EndOfPass
    /\ ~MoreToDo
    /\ phase' = "done"
    /\ gaps' = gaps \cup plan.gaps \cup (IF Uninspected = {} THEN {} ELSE {"not inspected"})
                    \cup (IF Opaque = {} THEN {} ELSE {"binary"})
    /\ UNCHANGED <<package, plan, readOrder, elided, blind, unparsed, visited, expanded, at, cursor, bytes>>

CollectStep == Expand \/ Pass \/ Skip \/ Finish \/ \E f \in Names : Refuse(f) \/ ReadFile(f)
----------------------------------------------------------------------------
\* What complete coverage means.

Targets(links) == UNION {links[n].to : n \in DOMAIN links}
Links == [f \in package.files |-> package.imports[f] \o package.starts[f]]
Edges == [f \in Names |-> IF f \in package.files THEN Targets(Links[f]) ELSE {}]
Closed(files) == \A f \in files : Edges[f] \subseteq files
\* The least closed set with the roots.
ReachableFrom(roots) ==
    LET closed == {files \in SUBSET Names : roots \subseteq files /\ Closed(files)}
    IN {f \in Names : \A files \in closed : f \in files}
Roots == IF Manifest \in package.files
         THEN Targets(package.entries) \cup Targets(package.hooks) \cup Targets(package.scripts)
              \cup (IF package.noMain /\ Index \in package.files THEN {Index} ELSE {})
         ELSE {}
Complete == phase = "done" /\ gaps = {}

\* Complete coverage (mandatory holds rest on it) means: every file the package's entry points,
\* hooks and scripts lead to by literal specifiers, and every source file, was read to its last
\* byte, and none of the former is a binary.
CompleteIsWhole ==
    Complete => /\ ReachableFrom(Roots) \cup package.text \subseteq read \ elided
                /\ ReachableFrom(Roots) \cap package.binary = {}
                /\ \A f \in ReachableFrom(Roots) : \A n \in DOMAIN Links[f] : Links[f][n].to # {}

\* With complete coverage the files marked as run by `npm install` are all those the install hooks
\* lead to, also the ones first met as ordinary imports: on them a detector blocks.
InstallTimeIsClosed ==
    Complete /\ Manifest \in package.files => plan.install = ReachableFrom(Targets(package.hooks))

\* The scan never holds more files than allowed, nor more bytes than three times its budget and one
\* marker: the budget limits what is read of the last file, not what its text takes.
CoverageIsBounded ==
    /\ Cardinality(read) <= package.maxFiles
    /\ bytes <= 3 * package.maxTotal + Marker
=============================================================================
