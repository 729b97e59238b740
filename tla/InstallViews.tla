----------------------------- MODULE InstallViews -----------------------------
(***************************************************************************)
(* What the installer's screens compute from the host's answers, as        *)
(* operators: the slice of the changelog that is new for a node            *)
(* (changelog-model.js, screen-changelog.js), the cards of the diagnosis   *)
(* (screen-diagnose.js), the text for an issue and how it is cut to size   *)
(* (live-log.js), the rows of the precheck and of the preview, and what    *)
(* the result screen says (screen-precheck.js, screen-preview.js,          *)
(* screen-result.js).  Texts are kinds; versions are numbers, with 0 for   *)
(* one that is none ("dev", or nothing installed).                         *)
(***************************************************************************)
EXTENDS Integers, Sequences, SequencesExt, FiniteSets, FiniteSetsExt, Functions

CONSTANTS
    Documents,    \* changelog documents: a sequence of components
    Logs,         \* the lines of each unit's log
    Budgets,      \* sizes of an issue
    CheckLists,   \* check lists of a node: a sequence of checks
    Plans         \* plans of an update: its components and its steps

VARIABLE view     \* what one screen works on

Has(s, P(_)) == \E i \in DOMAIN s : P(s[i])
Total(s, F(_)) == FoldLeft(LAMBDA n, x : n + F(x), 0, s)
Flat(s) == FoldLeft(LAMBDA all, part : all \o part, <<>>, s)
Row(key, state) == <<[key |-> key, state |-> state]>>
When(c, rows) == IF c THEN rows ELSE <<>>

-----------------------------------------------------------------------------
(* The changelog.  A document is a sequence of components with their       *)
(* releases, newest first; a release has entries, each of a type.          *)

\* compare: versions that are none count as equal.
Above(a, b) == a # 0 /\ b # 0 /\ a > b

KindOrder == <<"app", "shared", "service", "library", "tool", "integration">>
KindRank(kind) == IF kind \in ToSet(KindOrder) THEN CHOOSE i \in DOMAIN KindOrder : KindOrder[i] = kind
                  ELSE Len(KindOrder) + 1
InKindOrder(rows) ==
    Flat([r \in 1..Len(KindOrder) + 1 |-> SelectSeq(rows, LAMBDA row : KindRank(row.kind) = r)])

\* The releases above the installed version up to the package's; for what was
\* not there before only the newest.  Releases without an entry fall away.
NewReleases(component, from) ==
    LET chosen == IF from = 0 THEN SubSeq(component.releases, 1, IF component.releases = <<>> THEN 0 ELSE 1)
                  ELSE SelectSeq(component.releases,
                           LAMBDA r : Above(r.version, from) /\ ~Above(r.version, component.version))
    IN SelectSeq(chosen, LAMBDA r : r.entries # <<>>)

Slice(document, installed) ==
    LET row(c) == [id |-> c.id, kind |-> c.kind, isNew |-> installed[c.id] = 0,
                   releases |-> NewReleases(c, installed[c.id])]
    IN InKindOrder(SelectSeq([i \in DOMAIN document |-> row(document[i])], LAMBDA r : r.releases # <<>>))

Entries(rows) == Flat([i \in DOMAIN rows |-> Flat([j \in DOMAIN rows[i].releases |-> rows[i].releases[j].entries])])

\* A filter keeps what fits and drops releases and components left empty.
Kept(entry, wanted) == /\ wanted.highlights => entry.highlight
                       /\ wanted.scope # "" => entry.scope = wanted.scope
Filter(rows, wanted) ==
    LET release(r) == [r EXCEPT !.entries = SelectSeq(@, LAMBDA e : Kept(e, wanted))]
        row(c) == [c EXCEPT !.releases = SelectSeq([j \in DOMAIN @ |-> release(@[j])], LAMBDA r : r.entries # <<>>)]
    IN SelectSeq([i \in DOMAIN rows |-> row(rows[i])],
                 LAMBDA c : c.releases # <<>> /\ (wanted.kind # "" => c.kind = wanted.kind))

HasHighlights(rows) == Has(Entries(rows), LAMBDA e : e.highlight)
Focus(rows) == IF HasHighlights(rows) THEN Filter(rows, [kind |-> "", scope |-> "", highlights |-> TRUE]) ELSE rows

Summarize(rows) ==
    LET count(P(_)) == Len(SelectSeq(Entries(rows), P))
    IN [feat |-> count(LAMBDA e : e.type = "feat"), fix |-> count(LAMBDA e : e.type = "fix"),
        other |-> count(LAMBDA e : e.type \notin {"feat", "fix"}), breaking |-> count(LAMBDA e : e.breaking),
        total |-> Len(Entries(rows)), components |-> Len(rows)]

\* screen-changelog: the mode only counts where there is something to switch.
HighlightsOnly(rows, mode) == HasHighlights(rows) /\ mode = "highlights"
Visible(rows, wanted, mode) == Filter(rows, [wanted EXCEPT !.highlights = HighlightsOnly(rows, mode)])
DetailsOnly(rows, wanted, mode) ==
    IF HighlightsOnly(rows, mode)
    THEN Len(Filter(rows, [wanted EXCEPT !.highlights = FALSE])) - Len(Visible(rows, wanted, mode)) ELSE 0
CountLine(rows, mode) == Summarize(IF HighlightsOnly(rows, mode) THEN Focus(rows) ELSE rows)

-----------------------------------------------------------------------------
(* The text for an issue: a report and one block of lines per unit, cut to *)
(* the size the issue tracker takes.  A line is its length as logged and   *)
(* its length once names and addresses are replaced.                       *)

BlockHead == 3
OlderNote == 2

Rest(lines, drop) == SubSeq(lines, drop + 1, Len(lines))
Remaining(lines, drop) == Total(Rest(lines, drop), LAMBDA l : l.raw + 1)
BlockLen(lines, drop, text) ==
    BlockHead + (IF drop > 0 THEN OlderNote ELSE 0) + Total(Rest(lines, drop), LAMBDA l : l[text] + 1)
RawLen(report, blocks, drop) == report.raw + Total([i \in DOMAIN blocks |-> BlockLen(blocks[i], drop[i], "raw")], LAMBDA n : n)
FinalLen(report, blocks, drop) == report.scrubbed + Total([i \in DOMAIN blocks |-> BlockLen(blocks[i], drop[i], "scrubbed")], LAMBDA n : n)

CeilDiv(a, b) == (a + b - 1) \div b

\* The lines dropped from a block so that at least `want` characters go.
DropFor(lines, drop, want) ==
    LET enough == {d \in drop + 1..Len(lines) : Remaining(lines, drop) - Remaining(lines, d) >= want}
    IN IF enough = {} THEN Len(lines) ELSE Min(enough)

\* The longest log is cut to the length of the second, then both by turns.
Want(excess, diff) == IF diff > 0 THEN Min({excess, diff}) ELSE CeilDiv(excess, 2)

\* One round of the loop: where nothing is left to drop, nothing changes.
CutOnce(report, blocks, drop, budget) ==
    LET final == FinalLen(report, blocks, drop)
        excess == CeilDiv((final - budget) * RawLen(report, blocks, drop), final)
        pending == {i \in DOMAIN blocks : drop[i] < Len(blocks[i])}
        longest == CHOOSE i \in pending : \A j \in pending :
                       \/ Remaining(blocks[j], drop[j]) < Remaining(blocks[i], drop[i])
                       \/ Remaining(blocks[j], drop[j]) = Remaining(blocks[i], drop[i]) /\ i <= j
        second == IF Cardinality(pending) = 1 THEN 0
                  ELSE Max({Remaining(blocks[j], drop[j]) : j \in pending \ {longest}})
        want == Want(excess, Remaining(blocks[longest], drop[longest]) - second)
    IN IF final <= budget \/ pending = {} THEN drop
       ELSE IF want <= 0 THEN drop
       ELSE [drop EXCEPT ![longest] = DropFor(blocks[longest], drop[longest], want)]

-----------------------------------------------------------------------------
(* The cards of the diagnosis.  A check has a kind, a group, whether it is *)
(* ok, how bad it is, and the step that repairs it.                        *)

LevelOf(check) == IF check.ok THEN "ok" ELSE IF check.severity = "warn" THEN "warn" ELSE "bad"
Tally(checks) == [level \in {"ok", "warn", "bad"} |-> Len(SelectSeq(checks, LAMBDA c : LevelOf(c) = level))]

\* Under a check that failed: a hint, or the fault with its repair.
Follow(check) ==
    CASE LevelOf(check) = "ok" -> <<>>
      [] LevelOf(check) = "warn" -> <<[type |-> "warnbox"]>>
      [] OTHER -> <<[type |-> "fail", step |-> check.step, needs |-> check.needs]>>

\* All ports share a row; the first closed one speaks for them.
PortParts(ports) ==
    LET closed == SelectSeq(ports, LAMBDA p : ~p.ok)
    IN IF closed = <<>> THEN <<[type |-> "r", level |-> "ok"]>>
       ELSE <<[type |-> "r", level |-> LevelOf(closed[1])]>> \o Follow(closed[1])

Parts(checks) ==
    LET ports == SelectSeq(checks, LAMBDA c : c.kind = "port")
        firstPort == CHOOSE i \in DOMAIN checks : checks[i].kind = "port" /\ \A j \in 1..i - 1 : checks[j].kind # "port"
        part(i) == IF checks[i].kind = "port" THEN When(i = firstPort, PortParts(ports))
                   ELSE <<[type |-> "r", level |-> LevelOf(checks[i])]>> \o Follow(checks[i])
    IN Flat([i \in DOMAIN checks |-> part(i)])

\* A group the card does not know is shown with the system.
GroupOf(check) == IF check.group \in {"services", "config"} THEN check.group ELSE "system"
NotInstalled(steps, units) ==
    LET missing == SelectSeq(steps, LAMBDA s : s.service /\ s.unit # "" /\ s.unit \in DOMAIN units /\ units[s.unit] = "not-installed")
    IN [i \in DOMAIN missing |-> [type |-> "info", unit |-> missing[i].unit]]
Cards(report, steps) ==
    LET group(g) == Parts(SelectSeq(report.checks, LAMBDA c : GroupOf(c) = g))
                    \o When(g = "services", NotInstalled(steps, report.units))
                    \o When(g = "system" /\ report.updates # "untold", <<[type |-> "info"], [type |-> "act"]>>)
    IN SelectSeq(<<group("services"), group("system"), group("config")>>, LAMBDA parts : parts # <<>>)

-----------------------------------------------------------------------------
(* The rows of the precheck.                                               *)

RowWarnings == {"DISK_LOW", "NO_INTERNET", "SUDO_PASSWORD_REQUIRED", "TIMEZONE_UTC", "PYTHON_ABI_ONLINE"}
RowBlocking == {"ARCH_MISMATCH", "PYTHON_ABI_MISMATCH"}

\* What the host finds (EvaluatePreflight): facts about the node, and whether
\* the operator let it fetch dependencies from the network.
Preflight(facts) ==
    LET online == facts.allowed /\ facts.internet
        found(c, code) == IF c THEN {code} ELSE {}
    IN [archOk |-> facts.arch, abiOk |-> facts.abi, internet |-> facts.internet, sudo |-> facts.sudo,
        timezone |-> facts.timezone # "",
        blocking |-> found(~facts.arch, "ARCH_MISMATCH") \cup found(~facts.abi /\ ~online, "PYTHON_ABI_MISMATCH"),
        warnings |-> found(~facts.abi /\ online, "PYTHON_ABI_ONLINE") \cup found(~facts.disk, "DISK_LOW")
                     \cup found(~facts.sudo, "SUDO_PASSWORD_REQUIRED") \cup found(~facts.internet, "NO_INTERNET")
                     \cup found(facts.timezone = "UTC", "TIMEZONE_UTC")]

OsState(report) == IF report.abiOk THEN "ok" ELSE IF "PYTHON_ABI_ONLINE" \in report.warnings THEN "warn" ELSE "bad"

PrecheckRows(report) ==
    LET rest(codes, state) == LET s == SetToSeq(codes) IN [i \in DOMAIN s |-> [key |-> s[i], state |-> state]]
    IN Row("arch", IF report.archOk THEN "ok" ELSE "bad") \o Row("os", OsState(report))
       \o Row("disk", IF "DISK_LOW" \in report.warnings THEN "warn" ELSE "ok")
       \o Row("internet", IF report.internet THEN "ok" ELSE "warn")
       \o Row("sudo", IF report.sudo THEN "ok" ELSE "warn") \o Row("installed", "ok")
       \o When(report.timezone, Row("timezone", IF "TIMEZONE_UTC" \in report.warnings THEN "warn" ELSE "ok"))
       \o rest(report.warnings \ RowWarnings, "warn") \o rest(report.blocking \ RowBlocking, "bad")


-----------------------------------------------------------------------------
(* The preview: versions that change and units that restart.               *)

ServiceVersions(plan, service) ==
    LET steps == SelectSeq(plan, LAMBDA s : s.id \in service /\ s.state # "deselected" /\ s.to # 0)
    IN [i \in DOMAIN steps |-> [key |-> steps[i].id, changed |-> steps[i].from # steps[i].to,
                                unknown |-> steps[i].from = 0 /\ steps[i].restart = "unknown"]]

\* Dependencies that stay as they are make one row; the services' own versions
\* stand in for their common one.
ComponentRows(all, plan, service) ==
    LET services == ServiceVersions(plan, service)
        shown == {c \in all : c.kind = "dependency" => c.from # c.to}
        row(c) == IF c.kind = "services" /\ services # <<>> THEN services
                  ELSE <<[key |-> c.name, changed |-> c.from # c.to, unknown |-> FALSE]>>
    IN Flat(SetToSeq({row(c) : c \in shown})) \o When(shown # all, <<[key |-> "rest", changed |-> FALSE, unknown |-> FALSE]>>)

CoreStep == "60"
DashboardUnit == "dashboard"
UnitOf(s) == IF s.unit # "" THEN s.unit ELSE IF s.id = CoreStep THEN DashboardUnit ELSE ""

\* The units that are said to restart, each with its first reason.
Restart(plan, restartAll) ==
    LET restarts == SelectSeq(plan, LAMBDA s : s.state = "pending" /\ UnitOf(s) # ""
                                              /\ (s.unit # "" => restartAll \/ s.restart # ""))
        first(i) == \A j \in 1..i - 1 : UnitOf(restarts[j]) # UnitOf(restarts[i])
        reason(s) == IF s.unit = "" THEN "package" ELSE IF s.restart = "" THEN "all" ELSE s.restart
    IN {[unit |-> UnitOf(restarts[i]), reason |-> reason(restarts[i])] : i \in {k \in DOMAIN restarts : first(k)}}

\* What the steps do on the node: service_step skips what is done unless all
\* are to restart, and restarts a unit for a reason; step 60 restarts the dashboard.
Runs(s, restartAll) == s.state = "pending" \/ (s.state = "done" /\ s.service /\ restartAll)
NodeRestarts(plan, restartAll) ==
    {UnitOf(plan[i]) : i \in {k \in DOMAIN plan : /\ Runs(plan[k], restartAll)
                                                  /\ IF plan[k].service THEN restartAll \/ plan[k].restart # ""
                                                     ELSE plan[k].id = CoreStep}}


\* The units of the steps that reported ok: the services', and step 60's.
Restarted(okSteps, steps) ==
    Cardinality({UnitOf(steps[i]) : i \in {k \in DOMAIN steps : steps[k].id \in okSteps
                                                              /\ (steps[k].service \/ steps[k].id = CoreStep)}})

-----------------------------------------------------------------------------
(* The screens at work: a node that is updated package by package, an      *)
(* issue that is cut to size, checks that fail and recover, a plan that    *)
(* brings more.                                                            *)

\* The document as a package carries it that was built at a version.
PackageOf(document, version) ==
    [i \in DOMAIN document |->
        [document[i] EXCEPT !.version = version,
                            !.releases = SelectSeq(@, LAMBDA r : r.version <= version)]]
Installed(document, version) == [id \in {document[i].id : i \in DOMAIN document} |-> version]
Shown(rows) == UNION {{<<rows[i].id, rows[i].releases[j].version>> : j \in DOMAIN rows[i].releases} : i \in DOMAIN rows}
Written(document, from, to) ==
    UNION {{<<document[i].id, document[i].releases[j].version>> :
               j \in {k \in DOMAIN document[i].releases : /\ document[i].releases[k].entries # <<>>
                                                          /\ document[i].releases[k].version \in from + 1..to}}
           : i \in DOMAIN document}

Facts == {"arch", "abi", "disk", "internet", "sudo", "allowed"}

Init ==
    \/ \E d \in Documents : view = [part |-> "changelog", document |-> d, first |-> 1, at |-> 1, shown |-> {}]
    \/ \E l \in Logs, b \in Budgets : view = [part |-> "issue", report |-> [raw |-> 4, scrubbed |-> 5], logs |-> l,
                                            budget |-> b, drop |-> [i \in DOMAIN l |-> 0]]
    \/ \E c \in CheckLists : view = [part |-> "diagnose", checks |-> c]
    \/ \E p \in Plans : view = [part |-> "preview", plan |-> p, restartAll |-> FALSE]
    \/ view = [part |-> "precheck", facts |-> [fact \in Facts |-> TRUE] @@ [timezone |-> ""]]

\* The operator reads what is new and installs the package.
Update ==
    /\ view.part = "changelog"
    /\ \E to \in view.at + 1..3 :
          view' = [view EXCEPT !.at = to,
                      !.shown = @ \cup Shown(Slice(PackageOf(view.document, to), Installed(view.document, view.at)))]

\* One round of the loop that cuts the issue to size.
Cut ==
    /\ view.part = "issue"
    /\ FinalLen(view.report, view.logs, view.drop) > view.budget
    /\ \E i \in DOMAIN view.logs : view.drop[i] < Len(view.logs[i])
    /\ view' = [view EXCEPT !.drop = CutOnce(view.report, view.logs, @, view.budget)]

\* A check fails, or holds again.
Recheck ==
    /\ view.part = "diagnose"
    /\ \E i \in DOMAIN view.checks : view' = [view EXCEPT !.checks[i].ok = ~@]

\* A package brings another version of one component.
NewVersion ==
    /\ view.part = "preview"
    /\ \E c \in view.plan.all :
          view' = [view EXCEPT !.plan.all = (@ \ {c}) \cup {[c EXCEPT !.to = 3 - @]}]

\* The switch "restart all services".
RestartAll == view.part = "preview" /\ view' = [view EXCEPT !.restartAll = ~@]

\* The precheck is run again, and one fact about the node is another one.
Finding ==
    /\ view.part = "precheck"
    /\ \/ \E fact \in Facts : view' = [view EXCEPT !.facts[fact] = ~@]
       \/ \E zone \in {"", "UTC", "Europe/Berlin"} : view' = [view EXCEPT !.facts.timezone = zone]

Next == Update \/ Cut \/ Recheck \/ NewVersion \/ RestartAll \/ Finding
Spec == Init /\ [][Next]_view

-----------------------------------------------------------------------------
\* Whoever reads the changelog before every update has read every release
\* between the first version and the installed one, and none from outside:
\* what updates show adds up however many versions each of them skips.
UpdatesAddUp == view.part = "changelog" => view.shown = Written(view.document, view.first, view.at)

\* The line that counts the news counts what is shown: both fall back to all
\* entries when the slice has no highlight.
CountsWhatIsShown ==
    view.part = "changelog" =>
        \A to \in 2..4, mode \in {"highlights", "all"} :
            LET rows == Slice(PackageOf(view.document, to), Installed(view.document, view.at))
                none == [kind |-> "", scope |-> "", highlights |-> FALSE]
            IN /\ CountLine(rows, mode).total = Len(Entries(Visible(rows, none, mode)))
               /\ DetailsOnly(rows, none, mode) >= 0
               /\ rows # <<>> => Visible(rows, none, mode) # <<>>

\* Cutting the issue to size comes to an end: as long as the text is too long
\* and a line is left, a round drops one - also where names and addresses made
\* the text longer than it was logged.
EveryRoundCuts ==
    /\ view.part = "issue" /\ FinalLen(view.report, view.logs, view.drop) > view.budget
    /\ \E i \in DOMAIN view.logs : view.drop[i] < Len(view.logs[i])
    => CutOnce(view.report, view.logs, view.drop, view.budget) # view.drop

\* Neither log is cut away for the other: once the text fits, a log that lost
\* lines is shorter than the other by less than two of its own longest lines.
CutIsFair ==
    view.part = "issue" /\ FinalLen(view.report, view.logs, view.drop) <= view.budget =>
        \A i, j \in DOMAIN view.logs :
            LET longest == Max({0} \cup {view.logs[i][k].raw + 1 : k \in DOMAIN view.logs[i]})
                rest(k) == Remaining(view.logs[k], view.drop[k])
            IN view.drop[i] > 0 /\ rest(i) < rest(j) => rest(j) - rest(i) <= 2 * longest

\* Every check that failed is named on its card, with a repair when one is
\* known; the ports share a row that is only quiet when all of them are open.
FailuresAreNamed ==
    view.part = "diagnose" =>
        LET parts == Flat(Cards([checks |-> view.checks, units |-> <<>>, updates |-> "told"], <<>>))
            failed == SelectSeq(view.checks, LAMBDA c : LevelOf(c) = "bad")
            offered == {parts[i].step : i \in {k \in DOMAIN parts : parts[k].type = "fail"}}
        IN /\ Tally(view.checks)["bad"] = Len(failed)
           /\ \A i \in DOMAIN failed : failed[i].kind # "port" => failed[i].step \in offered
           /\ Has(failed, LAMBDA c : c.kind = "port") =>
                  \E i \in DOMAIN failed : failed[i].kind = "port" /\ failed[i].step \in offered
           /\ offered \subseteq {failed[i].step : i \in DOMAIN failed}

\* No change of the package goes unnamed in the preview: a component whose
\* version changes has a row that says so, new dependencies too, and what
\* stays is summed up in one row.
ChangesAreShown ==
    view.part = "preview" =>
        LET rows == ComponentRows(view.plan.all, view.plan.steps, view.plan.service)
            services == ServiceVersions(view.plan.steps, view.plan.service)
        IN \A c \in view.plan.all :
              c.from # c.to /\ (c.kind = "services" => services = <<>>)
              => Has(rows, LAMBDA r : r.key = c.name /\ r.changed)

\* The restarts a preview names are those that come: every unit a service step
\* restarts for a reason is named before, also one that only a shared library
\* changed for, and the result counts no fewer.  (Only for an update that does
\* not ask for all services.)
RestartsAreNamed ==
    view.part = "preview" /\ ~view.restartAll =>
        LET steps == view.plan.steps
            okSteps == {steps[i].id : i \in {k \in DOMAIN steps : Runs(steps[k], FALSE)}}
        IN /\ NodeRestarts(steps, FALSE) = {r.unit : r \in Restart(steps, FALSE)}
           /\ Restarted(okSteps, steps) >= Cardinality(NodeRestarts(steps, FALSE))

\* Every finding of the host stands in one row of the precheck: as many rows
\* are red as findings block, as many yellow as warn - whichever rows take
\* their colour from a fact and whichever from a code.
OneRowPerFinding ==
    view.part = "precheck" =>
        LET report == Preflight(view.facts)
            rows == PrecheckRows(report)
            count(state) == Len(SelectSeq(rows, LAMBDA r : r.state = state))
        IN count("bad") = Cardinality(report.blocking) /\ count("warn") = Cardinality(report.warnings)

=============================================================================
