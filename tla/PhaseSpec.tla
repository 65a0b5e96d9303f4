------------------------------ MODULE PhaseSpec ------------------------------
(***************************************************************************)
(* The specification of a phase, its ratification and the hitches linked to *)
(* it (src/src/roadmap/phase-repository.ts, src/src/hitch/spec-gates.ts and *)
(* the phase commands and tools in front of them).                          *)
(*                                                                         *)
(* A phase carries a scope and close conditions.  An update that widens the *)
(* scope or loosens the gate needs a flag; once a human ratified the spec,  *)
(* a hitch is linked only if its own spec matches or tightens the phase's.  *)
(* `phase start-hitch` creates and links a hitch in one transaction;        *)
(* `phase link-hitch` checks first and inserts afterwards.                  *)
(***************************************************************************)
EXTENDS Naturals, FiniteSets

CONSTANTS
    Files,          \* target file patterns
    Operations,     \* targetOperations and allowedFindingCategories
    Categories,     \* finding categories a scope may exclude
    Commands,       \* what a close condition runs
    PhaseHitches,   \* hitch sessions
    HitchSpecs,     \* the specs hitches are created with
    McpClients,     \* MCP clients
    VisibleTo,      \* those whose project filter admits the course
    Undefined       \* a field that is not given

VARIABLES
    spec,        \* scope_json and close_conditions_json of the phase
    approval,    \* review_state_json.specApproval: the approved spec's hash
    note,        \* review_state_json.note
    linkedHitches, \* phase_hitches rows of the phase
    linking,     \* link-hitch between its checks and its INSERT
    flagged      \* history: a flag let the spec be loosened since it was ratified

specVars == <<spec, approval, note, linkedHitches, linking, flagged>>

-----------------------------------------------------------------------------
(* Specs and what loosens them.                                            *)

Scopes == [files: SUBSET Files, operations: SUBSET Operations,
           excluded: (SUBSET Categories) \cup {Undefined}]

\* A close condition is required with a command, or not required at all.
Conditions == {"optional"} \cup Commands

\* No file pattern at all means no gate, so both removing the last one and
\* adding the first one counts as widening.
TargetFilesWiden(prev, next) ==
    /\ prev # {} \/ next # {}
    /\ prev = {} \/ next = {} \/ ~(next \subseteq prev)

ArrayFieldWidens(prev, next) == ~(next \subseteq prev)

\* Mutant: dropping the list of exclusions is not noticed.
ExcludedUndefinedPasses(prev, next) ==
    /\ prev # Undefined /\ next # Undefined
    /\ ~(prev \subseteq next)

ExcludedCategoriesWiden(prev, next) ==
    /\ prev # Undefined
    /\ next = Undefined \/ ~(prev \subseteq next)

IsScopeWidening(prev, next) ==
    \/ TargetFilesWiden(prev.files, next.files)
    \/ ArrayFieldWidens(prev.operations, next.operations)
    \/ ExcludedCategoriesWiden(prev.excluded, next.excluded)

\* A required condition was dropped, made optional or given other commands.
CloseConditionsLoosenGate(prev, next) == prev \in Commands /\ next # prev

\* phaseSpecHash digests the tuple of both parts: equal exactly when they are.
PhaseSpecHash(s) == <<s.scope, s.condition>>

Flags == [widen: BOOLEAN, loosen: BOOLEAN]
NoFlags == [widen |-> FALSE, loosen |-> FALSE]

Loosens(prev, next, flags) ==
    \/ ~flags.widen /\ IsScopeWidening(prev.scope, next.scope)
    \/ ~flags.loosen /\ CloseConditionsLoosenGate(prev.condition, next.condition)

-----------------------------------------------------------------------------
PhaseInit ==
    /\ spec \in HitchSpecs
    /\ approval = Undefined
    /\ note = FALSE
    /\ linkedHitches = {}
    /\ linking = Undefined
    /\ flagged = FALSE

\* updateSpec: the fields that are given replace the stored ones.
UpdateSpec(next, flags) ==
    /\ ~Loosens(spec, next, flags)
    /\ spec' = next
    /\ flagged' = (flagged \/ Loosens(spec, next, NoFlags))
    /\ UNCHANGED <<approval, linkedHitches, linking>>

\* `phase update` in one transaction: a scope or close conditions, and a note.
\* (A call that gives both parts is the two updates in a row: each is compared
\* with the part it replaces only.)
PhaseUpdate(flags) ==
    \E scope \in Scopes \cup {Undefined}, condition \in Conditions \cup {Undefined},
       noted \in {note, TRUE} :
        /\ (scope = Undefined) # (condition = Undefined)
        /\ UpdateSpec([scope |-> IF scope = Undefined THEN spec.scope ELSE scope,
                       condition |-> IF condition = Undefined
                                       THEN spec.condition ELSE condition], flags)
        /\ note' = noted

\* The note alone goes through the review-state compare-and-swap.
SetNote ==
    /\ ~note
    /\ note' = TRUE
    /\ UNCHANGED <<spec, approval, linkedHitches, linking, flagged>>

\* recordSpecApproval: the hash is taken of the spec the transaction reads,
\* and the other keys of the review state survive.
RecordSpecApproval ==
    /\ approval' = PhaseSpecHash(spec)
    /\ flagged' = FALSE
    /\ UNCHANGED <<spec, note, linkedHitches, linking>>

\* assertRatifiedSpecAllowsHitch.
RatifiedSpecAllows(s, flags) == approval = Undefined \/ ~Loosens(spec, s, flags)

\* link-hitch reads the phase and the hitch and checks them ...
LinkCheck(h, s, flags) ==
    /\ linking = Undefined
    /\ RatifiedSpecAllows(s, flags)
    /\ linking' = h
    /\ UNCHANGED <<spec, approval, note, linkedHitches, flagged>>

\* ... and inserts the link in a statement of its own; the primary key
\* refuses a hitch that is linked already.
LinkInsert ==
    /\ linking # Undefined
    /\ linkedHitches' = linkedHitches \cup {linking}
    /\ linking' = Undefined
    /\ UNCHANGED <<spec, approval, note, flagged>>

\* start-hitch: the session is created with the given spec, or the phase's
\* own, and linked, in one IMMEDIATE transaction.
StartHitch(h, flags) ==
    /\ h \notin linkedHitches
    /\ \E s \in HitchSpecs \cup {spec} : RatifiedSpecAllows(s, flags)
    /\ linkedHitches' = linkedHitches \cup {h}
    /\ UNCHANGED <<spec, approval, note, linking, flagged>>

UnlinkPhaseHitch(h) ==
    /\ h \in linkedHitches
    /\ linkedHitches' = linkedHitches \ {h}
    /\ UNCHANGED <<spec, approval, note, linking, flagged>>

-----------------------------------------------------------------------------
(* The commands and the MCP tools.  A tool first checks that the project of *)
(* the phase's course is visible to its client.                             *)

\* One part is given at a time, so only one of the flags is ever consulted.
CliPhaseUpdate == \/ \E flags \in {NoFlags, [widen |-> TRUE, loosen |-> TRUE]} :
                        PhaseUpdate(flags)
                  \/ SetNote

CliPhaseRatify == RecordSpecApproval

CliPhaseLinkHitch ==
    \E h \in PhaseHitches, s \in HitchSpecs, flags \in Flags : LinkCheck(h, s, flags)

CliPhaseStartHitch == \E h \in PhaseHitches, flags \in Flags : StartHitch(h, flags)

CliPhaseUnlinkHitch == \E h \in PhaseHitches : UnlinkPhaseHitch(h)

PhaseRatifyTool(c) == c \in VisibleTo /\ RecordSpecApproval

PhaseLinkHitchTool(c) ==
    /\ c \in VisibleTo
    /\ \E h \in PhaseHitches, s \in HitchSpecs, flags \in Flags : LinkCheck(h, s, flags)

PhaseStartHitchTool(c) ==
    /\ c \in VisibleTo
    /\ \E h \in PhaseHitches, flags \in Flags : StartHitch(h, flags)

PhaseNext ==
    \/ CliPhaseUpdate
    \/ CliPhaseRatify
    \/ CliPhaseLinkHitch
    \/ LinkInsert
    \/ CliPhaseStartHitch
    \/ CliPhaseUnlinkHitch
    \/ \E c \in McpClients : PhaseRatifyTool(c)
    \/ \E c \in McpClients : PhaseLinkHitchTool(c)
    \/ \E c \in McpClients : PhaseStartHitchTool(c)

PhaseBehaviour == PhaseInit /\ [][PhaseNext]_specVars

-----------------------------------------------------------------------------
\* A ratified spec never gets wider or looser without a flag, however many
\* updates of single fields are made after the approval: each update is only
\* compared with the spec before it (updateSpec), so the comparisons of
\* spec-gates.ts must compose.
RatifiedSpecOnlyTightens ==
    (approval # Undefined /\ ~flagged) =>
        /\ ~IsScopeWidening(approval[1], spec.scope)
        /\ ~CloseConditionsLoosenGate(approval[2], spec.condition)
=============================================================================
