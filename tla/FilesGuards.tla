------------------------------ MODULE FilesGuards ------------------------------
(***************************************************************************)
(* What an upload is checked against before its transaction                *)
(* (src/files/upload.ts): the caller's access, read from Clerk at most     *)
(* FreshTicks ago (src/files/access.ts), and the mode of operation, the    *)
(* strictest of the operator's override and the automatic guards, measured *)
(* at most once per ModeTicks by each instance (src/files/guards.ts).      *)
(*                                                                         *)
(* Time counts in ticks.  The figures of the guards are reduced to what    *)
(* autoMode makes of them; environment switches, terms and texts are left  *)
(* out.  Instances share nothing but the store, so one is enough.  The     *)
(* mode and the access are two questions that never meet: each behaviour   *)
(* follows one.  The transaction of an upload is FilesTakedown.            *)
(***************************************************************************)
EXTENDS Naturals, FiniteSets

CONSTANTS
    ModeTicks,      \* MODE_CACHE_MS
    MeasureTicks,   \* the longest a measurement takes
    FreshTicks,     \* FRESH_TTL_MS
    AccessTicks,    \* CACHE_TTL_MS of access.ts
    MonthTicks,     \* bound: the length of a month
    LastTick,       \* bound: where the clock stops
    MaxSettings     \* bound: changes of what is in force

ASSUME GuardsAssumption ==
    /\ {ModeTicks, MeasureTicks, FreshTicks, AccessTicks, MonthTicks, LastTick, MaxSettings} \subseteq Nat \ {0}
    /\ MeasureTicks < ModeTicks /\ FreshTicks <= AccessTicks

VARIABLES
    question,     \* "mode" or "access"
    tick,
    setting,      \* the operator's override, what the figures amount to, whether the owner has Pro
    modeCache,    \* the mode measured last and until when it counts
    measuring,    \* the measurement its callers share
    accessCache,  \* the access read last and when
    decided,      \* the last decision on an upload
    inForce,      \* history: tick -> the modes in force during it
    proDuring,    \* history: tick -> whether the owner had Pro during it
    settings      \* bound: changes so far

guardsVars == <<question, tick, setting, modeCache, measuring, accessCache, decided, inForce, proDuring, settings>>

Modes == {"on", "readonly", "off"}
Rank(m) == CASE m = "on" -> 0 [] m = "readonly" -> 1 [] m = "off" -> 2
Stricter(a, b) == IF Rank(a) >= Rank(b) THEN a ELSE b

\* What the automatic guards make of the figures: a full store or high compute
\* hours allow reading only, hours near the month's allowance nothing at all.
AutoMode(s) == s.figures
ModeOf(s) == Stricter(s.override, AutoMode(s))

NotMeasuring == [st |-> "none", since |-> 0, mode |-> "on", computeOff |-> FALSE]
Undecided == [by |-> "nothing", mode |-> "on", pro |-> TRUE, blind |-> FALSE]

GuardsInit ==
    /\ question \in {"mode", "access"}
    /\ tick = 0
    /\ setting = [override |-> "on", figures |-> "on", pro |-> TRUE]
    /\ modeCache = [until |-> 0, mode |-> "on"]
    /\ measuring = NotMeasuring
    /\ accessCache = [at |-> 0, none |-> TRUE, pro |-> TRUE]
    /\ decided = Undecided
    /\ inForce = [t \in {0} |-> {"on"}] /\ proDuring = [t \in {0} |-> {TRUE}]
    /\ settings = 0

-----------------------------------------------------------------------------
(* Variants with a plausible bug are named <definition>_<bug>.             *)

NextMonth(t) == (t \div MonthTicks + 1) * MonthTicks


CachedUntil_anyOff(m) == IF m.mode = "off" THEN NextMonth(m.since) ELSE m.since + ModeTicks

\* How long a measurement counts: from its START; switched off by the guards,
\* until the month rolls over.
CachedUntil(m) == IF m.computeOff THEN NextMonth(m.since) ELSE m.since + ModeTicks

\* effectiveMode without a mode that still counts.
MeasureStarts ==
    /\ question = "mode" /\ tick >= modeCache.until /\ measuring.st = "none"
    /\ measuring' = [NotMeasuring EXCEPT !.st = "asked", !.since = tick]
    /\ UNCHANGED <<question, tick, setting, modeCache, accessCache, decided, inForce, proDuring, settings>>

\* One transaction reads the override and the figures.
MeasureReads ==
    /\ measuring.st = "asked"
    /\ measuring' = [measuring EXCEPT !.st = "read", !.mode = ModeOf(setting), !.computeOff = AutoMode(setting) = "off"]
    /\ UNCHANGED <<question, tick, setting, modeCache, accessCache, decided, inForce, proDuring, settings>>

Acts(mode, blind) == decided' = [by |-> "mode", mode |-> mode, pro |-> TRUE, blind |-> blind]

CheckCached ==
    /\ question = "mode" /\ tick < modeCache.until
    /\ Acts(modeCache.mode, FALSE)
    /\ UNCHANGED <<question, tick, setting, modeCache, measuring, accessCache, inForce, proDuring, settings>>

\* The measurement ends: its mode is kept, and every caller that waited acts on it.
MeasureEnds ==
    /\ measuring.st = "read"
    /\ modeCache' = [until |-> CachedUntil(measuring), mode |-> measuring.mode]
    /\ Acts(measuring.mode, FALSE)
    /\ measuring' = NotMeasuring
    /\ UNCHANGED <<question, tick, setting, accessCache, inForce, proDuring, settings>>

\* It fails: its callers act on the environment's mode, nothing is kept.
MeasureFails ==
    /\ measuring.st # "none"
    /\ Acts("on", TRUE)
    /\ measuring' = NotMeasuring
    /\ UNCHANGED <<question, tick, setting, modeCache, accessCache, inForce, proDuring, settings>>

\* getAccess: a kept access young enough, else Clerk's, stamped when it arrives.
AccessFor(young) ==
    IF ~accessCache.none /\ tick - accessCache.at <= (IF young THEN FreshTicks ELSE AccessTicks) THEN accessCache
    ELSE [at |-> tick, none |-> FALSE, pro |-> setting.pro]

\* Any other request of the user fills the cache an upload reads.
Browses ==
    /\ question = "access"
    /\ accessCache' = AccessFor(FALSE)
    /\ UNCHANGED <<question, tick, setting, modeCache, measuring, decided, inForce, proDuring, settings>>

UploadAccess_notFresh == AccessFor(FALSE)

\* Uploads and edits ask for a fresh access.
UploadAccess == AccessFor(TRUE)

ChecksAccess ==
    /\ question = "access"
    /\ accessCache' = UploadAccess
    /\ decided' = [by |-> "access", mode |-> "on", pro |-> UploadAccess.pro, blind |-> FALSE]
    /\ UNCHANGED <<question, tick, setting, modeCache, measuring, inForce, proDuring, settings>>

Sets(s) ==
    /\ settings < MaxSettings /\ settings' = settings + 1
    /\ setting' = s /\ s # setting
    /\ inForce' = [inForce EXCEPT ![tick] = @ \cup {ModeOf(s)}]
    /\ proDuring' = [proDuring EXCEPT ![tick] = @ \cup {s.pro}]
    /\ UNCHANGED <<question, tick, modeCache, measuring, accessCache, decided>>

WriteModeOverride == question = "mode" /\ \E mode \in Modes : Sets([setting EXCEPT !.override = mode])

\* The store fills and is emptied; the compute hours never fall within a month.
FiguresChange ==
    /\ question = "mode" /\ setting.figures # "off"
    /\ \E figures \in Modes : Sets([setting EXCEPT !.figures = figures])

ProChanges == question = "access" /\ Sets([setting EXCEPT !.pro = ~@])

\* A measurement under way does not outlast MeasureTicks.
Tick ==
    /\ tick < LastTick
    /\ measuring.st = "none" \/ tick < measuring.since + MeasureTicks
    /\ tick' = tick + 1
    /\ setting' = [setting EXCEPT !.figures = IF (tick + 1) % MonthTicks = 0 THEN "on" ELSE @]
    /\ inForce' = [t \in 0 .. tick + 1 |-> IF t <= tick THEN inForce[t] ELSE {ModeOf(setting')}]
    /\ proDuring' = [t \in 0 .. tick + 1 |-> IF t <= tick THEN proDuring[t] ELSE {setting.pro}]
    /\ decided' = Undecided
    /\ UNCHANGED <<question, modeCache, measuring, accessCache, settings>>

GuardsNext ==
    \/ MeasureStarts \/ MeasureReads \/ CheckCached \/ MeasureEnds \/ MeasureFails
    \/ Browses \/ ChecksAccess
    \/ WriteModeOverride \/ FiguresChange \/ ProChanges \/ Tick

GuardsSpec == GuardsInit /\ [][GuardsNext]_guardsVars

-----------------------------------------------------------------------------
(* Properties.                                                             *)

During(history, ticks) == UNION {history[t] : t \in {t \in DOMAIN history : t + ticks >= tick}}

\* An upload is decided by a mode that was in force within the last ModeTicks,
\* whatever the order of override, measurement and expiry ("Takes effect within
\* 30 s on every instance"), unless the measurement failed or a mode that only
\* the new month lifts is kept; and by an access the account had within FreshTicks.
DecisionsAreTimely ==
    /\ decided.by = "mode" => decided.blind \/ decided.mode \in During(inForce, ModeTicks - 1)
    /\ decided.by = "access" => decided.pro \in During(proDuring, FreshTicks)

=============================================================================
