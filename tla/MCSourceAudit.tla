------------------------------ MODULE MCSourceAudit ------------------------------
(* Small packages: a hook and an entry point that share files, a document and a test among what
   runs, a bundle, a concealed start, every limit, and files that are not what they were. *)
EXTENDS SourceAudit, TLC

pkg == "package.json"
main == "index.js"
hook == "hook.js"
lib == "lib.js"
notes == "notes.md"
addon == "tool.node"
MCOrder == <<hook, main, lib, notes, pkg, addon>>

To(f) == [to |-> {f}, glob |-> FALSE, audit |-> <<f>>, graph |-> <<f>>]
Nowhere == [to |-> {}, glob |-> FALSE, audit |-> << >>, graph |-> << >>]
Glob(files) == [Nowhere EXCEPT !.to = files, !.glob = TRUE]
\* With a suffix that the plan alone adds; with another file to fall back on.
Suffixed(f) == [Nowhere EXCEPT !.to = {f}]
Either(f, g) == [To(f) EXCEPT !.audit = <<f, g>>, !.graph = <<f, g>>]

Clean == [code |-> {}, comment |-> {}, folded |-> {}, kind |-> {}, surface |-> "none"]
Script == [Clean EXCEPT !.kind = {"source"}]
Doc == [Clean EXCEPT !.kind = {"doc"}]
Manifests == [Clean EXCEPT !.surface = "package.json", !.kind = {"inert"}, !.code = {"install-hook"}]
Quiet == [Manifests EXCEPT !.code = {}]

\* The hook imports lib, which index imports as well; lib imports the notes.
Base == [files |-> {pkg, main, hook, lib, notes}, listed |-> {pkg, main, hook, lib, notes},
         text |-> {pkg, main, hook, lib}, binary |-> {}, parses |-> TRUE, noMain |-> FALSE,
         entries |-> <<To(main)>>, hooks |-> << >>, scripts |-> << >>,
         imports |-> main :> <<To(lib)>> @@ hook :> <<To(lib)>> @@ lib :> <<To(notes)>>
                     @@ [f \in {pkg, notes} |-> << >>],
         starts |-> [f \in ToSet(MCOrder) |-> << >>], traced |-> [f \in ToSet(MCOrder) |-> {}],
         unparsable |-> {pkg, notes}, nonAscii |-> {},
         size |-> [f \in ToSet(MCOrder) |-> 2],
         content |-> pkg :> Quiet @@ notes :> Doc @@ [f \in {main, hook, lib} |-> Script],
         maxFiles |-> 9, perFile |-> 4, maxTotal |-> 20, maxWork |-> 12]
Hooked == [Base EXCEPT !.hooks = <<To(hook)>>, !.content[pkg] = Manifests]

Sized(p, f, n) == [p EXCEPT !.size[f] = n]
Marked(p, f, marks) == [p EXCEPT !.content[f].code = marks]
Named(p, f, kind) == [p EXCEPT !.content[f].kind = @ \cup kind]

\* A chain below the hook whose end a script starts as well.
Chain == [Hooked EXCEPT !.entries = <<To(lib)>>, !.hooks = <<To(lib)>>, !.scripts = <<To(hook)>>,
                        !.files = @ \cup {addon}, !.listed = @ \cup {addon}, !.text = ToSet(MCOrder),
                        !.imports = lib :> <<To(notes)>> @@ notes :> <<To(addon)>> @@ hook :> <<To(main)>>
                                    @@ [f \in {addon, main, pkg} |-> << >>],
                        !.starts[addon] = <<To(hook)>>, !.unparsable = {pkg},
                        !.content = addon :> Clean @@ Hooked.content]

Shapes ==
    {Base, Hooked, Chain,
     [Chain EXCEPT !.maxWork = 4],
     [Chain EXCEPT !.entries = <<To(pkg)>>],
     [Base EXCEPT !.noMain = TRUE, !.entries = << >>],
     [Base EXCEPT !.entries = <<Nowhere, To(main)>>],
     [Base EXCEPT !.parses = FALSE],
     [Base EXCEPT !.scripts = <<To(hook)>>, !.listed = @ \ {notes}],
     [Hooked EXCEPT !.entries = <<Glob({hook, lib}), To(main)>>],
     [Hooked EXCEPT !.maxFiles = 3],
     [Hooked EXCEPT !.entries = <<To(lib), To(main)>>],
     [Sized(Hooked, lib, 4) EXCEPT !.maxTotal = 5, !.nonAscii = {lib}, !.entries = <<To(lib)>>],
     [Hooked EXCEPT !.maxWork = 3],
     Sized(Hooked, lib, 5), Sized(Hooked, pkg, 5),
     [Hooked EXCEPT !.files = @ \cup {addon}, !.listed = @ \cup {addon}, !.binary = {addon},
                    !.imports = addon :> << >> @@ [@ EXCEPT ![hook] = << >>], !.starts[hook] = <<To(addon)>>,
                    !.content = addon :> Clean @@ Hooked.content],
     [Hooked EXCEPT !.imports[main] = <<To(hook)>>, !.starts[main] = <<To(lib)>>,
                    !.imports[lib] = <<Nowhere, To(main)>>],
     \* Links the graph does not follow, or follows elsewhere or alone; text that takes more than its bytes.
     [Chain EXCEPT !.imports[notes] = <<Suffixed(addon)>>],
     [Chain EXCEPT !.unparsable = @ \cup {lib}],
     [Hooked EXCEPT !.imports[hook] = <<Suffixed(lib)>>, !.listed = @ \ {lib}],
     [Hooked EXCEPT !.traced[main] = {<<hook, lib>>, <<addon>>}, !.imports[main] = <<Either(lib, hook)>>,
                    !.maxFiles = 4],
     [Hooked EXCEPT !.nonAscii = {lib}, !.maxTotal = 7]}

Bad == {"bulk-env", "network"}
Dressed ==
    {Marked(Named(Hooked, lib, kind), lib, Bad) : kind \in {{"test"}, {"build"}, {"minified"}}}
    \cup {Marked(Named(Base, lib, kind), lib, {"key-read", "exec"}) : kind \in {{"test"}, {"build"}}}
    \cup {Marked(Named(Base, hook, kind), hook, {"key-read"}) : kind \in {{"test"}, {"build"}, {"inert"}}}
    \cup {Marked(Hooked, notes, {"runtime-download", "eval"}), Marked(Base, notes, {"exfil-domain", "network"}),
          Marked(Marked(Base, main, {"hidden-spawn"}), lib, {"write-verb", "rc-file"}),
          Named(Base, lib, {"python"}), Marked(Base, hook, {"injection"}),
          [Base EXCEPT !.content[hook].comment = {"injection"}, !.content[lib].folded = {"exfil-domain"}]}

\* A concealed start of lib, whose path says that it is generated.
Launcher ==
    Marked(Named([Base EXCEPT !.imports[main] = <<To(hook)>>, !.starts[main] = <<To(lib)>>], lib, {"output", "unhashed"}), main, {"hidden-spawn"})
Built(p) == Marked(p, pkg, {"build-script"})
Launching ==
    {Launcher, Built(Launcher), Marked(Launcher, lib, {"key-read"}), Sized(Sized(Sized(Launcher, hook, 4), main, 4), lib, 3),
     Built(Named(Launcher, hook, {"output"})), Named(Launcher, hook, {"output", "differs"}),
     Named(Named(Marked(Launcher, main, {}), hook, {"output"}), lib, {"output"}),
     Named(Launcher, lib, {"skipped-dir"}),
     [Built(Launcher) EXCEPT !.imports[hook] = << >>, !.starts[hook] = <<To(main)>>, !.content[hook].code = {"hidden-spawn", "key-read"}]}

MCPackages == Shapes \cup Dressed \cup Launching

Everything == ToSet(MCOrder)
Mirror == [files |-> Everything, same |-> Everything, size |-> [f \in Everything |-> 2],
           known |-> Everything, subdir |-> FALSE, listing |-> TRUE]
Repositories ==
    {Mirror, [Mirror EXCEPT !.listing = FALSE, !.same = {pkg, main, notes}],
     [Mirror EXCEPT !.files = {pkg, main}, !.known = {}], [Mirror EXCEPT !.files = {main, addon}, !.known = {}, !.same = {}],
     [Mirror EXCEPT !.same = {pkg}],
     [Mirror EXCEPT !.files = {}, !.known = {hook, lib}], [Mirror EXCEPT !.files = {}, !.subdir = TRUE],
     [Mirror EXCEPT !.same = {pkg}, !.size[main] = 4, !.size[hook] = 3],
     [Mirror EXCEPT !.same = {main}, !.size[main] = 4, !.size[hook] = 4, !.size[lib] = 5, !.subdir = TRUE]}

Published == [npm |-> TRUE, repo |-> << >>, self |-> FALSE, attestation |-> "none",
              github |-> "elsewhere", traits |-> {}, metadata |-> "plain", vulns |-> 0,
              vulnError |-> FALSE, deps |-> "none"]
MCSurroundings ==
    {Published, [Published EXCEPT !.attestation = "match"],
     [Published EXCEPT !.attestation = "mismatch", !.github = "found", !.traits = {"lonely", "young"}],
     [Published EXCEPT !.npm = FALSE, !.github = "missing"],
     [Published EXCEPT !.github = "found", !.traits = {"single-maintainer", "old", "stale"}],
     [Published EXCEPT !.self = TRUE, !.attestation = "match", !.vulns = 1],
     [Published EXCEPT !.self = TRUE, !.attestation = "match", !.github = "none", !.metadata = "deprecated"],
     [Published EXCEPT !.vulnError = TRUE, !.deps = "incomplete"],
     [Published EXCEPT !.deps = "vulnerable", !.github = "unreachable"]}
    \cup {[Published EXCEPT !.github = "found", !.repo = <<tree>>] : tree \in Repositories}
    \cup {[Published EXCEPT !.github = "found", !.repo = <<tree>>, !.self = TRUE] :
              tree \in {Mirror, [Mirror EXCEPT !.same = {pkg}]}}
==============================================================================
