-------------------------------- MODULE Doctor --------------------------------
(****************************************************************************)
(* What stands between an installation and a running bot: `b3 doctor`        *)
(* (core/doctor.py), `b3 run` up to its first line and what starts it again   *)
(* (cli.py, start in runtime/bot.py), and the schema that both of them and    *)
(* `b3 db` find in the database (storage/store.py, storage/migrate.py).       *)
(*                                                                          *)
(* Whatever can be wrong with an installation is a member of a set; an        *)
(* operator looks with the doctor, mends one thing after another, updates     *)
(* the code and starts the bot, which may be killed between any two steps.    *)
(* A database is the migrations whose changes its tables have, and the one    *)
(* it is stamped with.  Another bot's newer code may migrate it.              *)
(****************************************************************************)
EXTENDS Naturals, FiniteSets

CONSTANTS
    Families,  \* of engines: those below and "q3", which stands for all others
    Newest,    \* the newest revision of the code and of the schema
    Keepers,   \* who starts the bot again, of "terminal", "supervise" and "systemd"
    MaxWrong   \* how much is wrong at first: the bound

Push == {"frostbite", "homefront", "ravaged", "frontline", "battleye"}
LogIn == Push \cup {"source"}

\* What load_plugins refuses and no check of the doctor asks: a plugin requires one that is not
\* configured, is listed twice, or requires itself by way of others; a plugin's file is not YAML,
\* or its check_config stumbles over what is in it.
Unasked == {"unmetPlugin", "listedTwice", "cycle", "oddConfig"}

\* What can be wrong, for each family.  The first names belong to every installation.  Ravaged and
\* Frontline log in as rcon_user: badUser, no account of the server has that name; otherUser, one
\* has, and it is not "admin".
Everywhere ==
    {"zone", "unwritable", "noPlugins", "badPlugin", "noConfig", "noConfigOff", "unmetSetting",
     "noRemote"} \cup Unasked
Relevant(f) ==
    Everywhere
    \cup (IF f \in Push THEN {} ELSE {"noLog", "emptyLog"})
    \cup (IF f = "altitude" THEN {"noFile", "noDirectory", "lockedFile", "leftCommands"}
          ELSE {"noPassword", "badPassword", "down"})
    \cup (CASE f = "q3" -> {"noGame", "oddStatus"} [] f = "source" -> {"noMod"}
            [] f = "frostbite" -> {"otherGame"} [] f = "frontline" -> {"badUser"}
            [] f = "ravaged" -> {"badUser", "otherUser"} [] OTHER -> {})

VARIABLES
    family,
    wrong,    \* what is wrong now
    code,     \* the revision that is installed, and that its schema is made from
    applied,  \* the migrations whose changes the tables have: none, and there are no tables
    stamp,    \* alembic_version, 0 for none
    unsigned, \* history: tables without a stamp were left to another process
    bot,      \* [at, code, keeper, drift, asked]: the process, who starts it again, whether it
              \* is to ignore the schema, and whether the database could be asked for it
    verdict,  \* the doctor's last, while nothing was mended since: the set of what failed, or none
    since,    \* the run began after it
    outcome   \* of that run

doVars == <<family, wrong, code, applied, stamp, unsigned, bot, verdict, since, outcome>>
schema == <<applied, stamp, unsigned>>

None == "none"
Down == [at |-> "down", code |-> 0, keeper |-> "terminal", drift |-> FALSE, asked |-> FALSE]

\* `b3 init` wrote down what it was told; the database is new, or was made by this code, or by
\* hand and not stamped.
Init ==
    /\ family \in Families
    /\ wrong \in {w \in SUBSET Relevant(family) : Cardinality(w) <= MaxWrong}
    /\ code = 1
    /\ \/ applied = {} /\ stamp = 0 /\ unsigned = FALSE
       \/ applied = {1} /\ stamp = 1 /\ unsigned = FALSE
       \/ applied = {1} /\ stamp = 0 /\ unsigned = TRUE
    /\ bot = Down
    /\ verdict = {} /\ since = FALSE /\ outcome = None

-----------------------------------------------------------------------------
(* The schema.                                                              *)

\* A bug: the stamp is taken for what is new.
BehindIfNotSame(revision) == stamp # 0 /\ stamp > revision

\* schema_state, for code of a revision: without a stamp nothing is pending.
Behind(revision) == stamp # 0 /\ stamp < revision
Ahead(revision) == stamp > revision

Created(revision) == IF applied = {} THEN 1..revision ELSE applied

\* connect: tables that are not there are made, and what has no stamp gets one.
Baseline(revision) == IF stamp = 0 THEN revision ELSE stamp

\* Tables that nobody stamped are there when a process goes, or its code.
LeftUnsigned == unsigned' = (unsigned \/ (applied # {} /\ stamp = 0))

-----------------------------------------------------------------------------
(* The doctor.  Each check is one of its functions.                         *)

Has(problems) == wrong \cap problems # {}
Row(name, bad, odd) == [name |-> name, fail |-> bad, warn |-> odd]

CheckServer == Row("game", Has({"noGame"}), FALSE)
CheckTimezone == Row("timezone", FALSE, Has({"zone"}))
CheckDatabase == Row("database", Has({"unwritable"}), FALSE)

\* It comes after the database's check, which has made and stamped what was missing.
CheckSchema ==
    LET now == Baseline(code)
    IN  Row("schema", ~Has({"unwritable"}) /\ now < code, Has({"unwritable"}) \/ now > code)

CheckGameLog ==
    Row("gamelog", family \notin Push /\ Has({"noLog"}), family \notin Push /\ Has({"emptyLog"}))

LoginFails == Has({"badPassword", "down"})
FrontlineRcon == LoginFails \/ Has({"badUser"})
\* The account is not passed on: this logs in as "admin", whatever rcon_user says.
RavagedRcon == LoginFails \/ Has({"otherUser"})
HomefrontRcon == LoginFails
BattleyeRcon == LoginFails
FrostbiteRcon == LoginFails

\* A bug: whether the mod answers is not asked.
SourceRconOnly == LoginFails
SourceRcon == LoginFails \/ Has({"noMod"})

CommandFile == Has({"noFile", "noDirectory", "lockedFile"})

CheckRcon ==
    LET bad == CASE family = "altitude" -> CommandFile
                 [] family = "frontline" -> FrontlineRcon
                 [] family = "ravaged" -> RavagedRcon
                 [] family = "homefront" -> HomefrontRcon
                 [] family = "battleye" -> BattleyeRcon
                 [] family = "frostbite" -> FrostbiteRcon
                 [] family = "source" -> SourceRcon
                 [] OTHER -> LoginFails
    IN  IF Has({"noPassword"}) THEN Row("rcon", FALSE, TRUE)
        ELSE Row("rcon", bad, Has({"leftCommands", "oddStatus"}))

\* A plugin that is switched off has to be there, and its file too.  A file that cannot be read
\* is no problem, and neither is what is Unasked besides.
CheckPlugins ==
    Row("plugins", Has({"badPlugin", "noConfig", "noConfigOff", "unmetSetting"}),
        Has({"noPlugins"}))

CheckUpdate == Row("update", FALSE, Has({"noRemote"}) \/ code < Newest)

Checks == {CheckServer, CheckTimezone, CheckDatabase, CheckSchema, CheckGameLog, CheckRcon,
           CheckPlugins, CheckUpdate}

\* `b3 doctor`
Examine ==
    /\ verdict' = {{row.name : row \in {c \in Checks : c.fail}}}
    /\ since' = FALSE /\ outcome' = None
    /\ IF Has({"unwritable"}) THEN UNCHANGED <<applied, stamp>>
       ELSE applied' = Created(code) /\ stamp' = Baseline(code)
    /\ LeftUnsigned
    /\ UNCHANGED <<family, wrong, code, bot>>

-----------------------------------------------------------------------------
(* The run.                                                                 *)

Begins(keeper, drift) ==
    [at |-> "schema", code |-> code, keeper |-> keeper, drift |-> drift, asked |-> FALSE]

\* `b3 run`, at a terminal, with --supervise, or as a service.
Run(keeper, drift) ==
    /\ bot.at = "down"
    /\ bot' = Begins(keeper, drift)
    /\ since' = (verdict # {}) /\ outcome' = None
    /\ UNCHANGED <<family, wrong, code, schema, verdict>>

Goes(at) == bot' = [bot EXCEPT !.at = at] /\ UNCHANGED <<since, outcome>>

\* The process ends.  The service is always started again; --supervise starts the bot again
\* when that is what it asked for.
Ends(asked) ==
    IF bot.keeper = "systemd" \/ (bot.keeper = "supervise" /\ asked)
    THEN bot' = Begins(bot.keeper, bot.drift) /\ since' = (verdict # {})
    ELSE bot' = Down /\ UNCHANGED since

\* Refused with a message, or by an exception that nobody catches: code 1 either way.
Fails == Ends(FALSE) /\ outcome' = "failed"

\* _refuse_on_schema_drift: a database that cannot be asked is left to what follows.
SchemaDrift ==
    /\ bot.at = "schema"
    /\ IF ~bot.drift /\ ~Has({"unwritable"}) /\ Behind(bot.code) THEN Fails
       ELSE /\ bot' = [bot EXCEPT !.at = "connect", !.asked = ~Has({"unwritable"})]
            /\ UNCHANGED <<since, outcome>>
    /\ UNCHANGED <<family, wrong, code, schema, verdict>>

\* _connect.  The command file's directory is made and what is left in the file thrown away;
\* a Source server is logged in to here, and those that push not yet.
Connect ==
    /\ bot.at = "connect"
    /\ IF \/ Has({"noGame", "noFile", "lockedFile"})
          \/ family = "source" /\ Has({"noPassword", "badPassword", "down"})
       THEN Fails /\ UNCHANGED wrong
       ELSE Goes("load") /\ wrong' = wrong \ {"noDirectory", "leftCommands"}
    /\ UNCHANGED <<family, code, schema, verdict>>

\* load_plugins.  The file of one that is switched off may be missing.
Load ==
    /\ bot.at = "load"
    /\ IF Has({"badPlugin", "noConfig", "unmetSetting"} \cup Unasked) THEN Fails
       ELSE Goes("store")
    /\ UNCHANGED <<family, wrong, code, schema, verdict>>

\* Bot.start and SqlAlchemyStorage.connect: first the tables, then the stamp.
CreateSchema ==
    /\ bot.at = "store"
    /\ IF Has({"unwritable"}) THEN Fails /\ UNCHANGED applied
       ELSE Goes("stamp") /\ applied' = Created(bot.code)
    /\ UNCHANGED <<family, wrong, code, stamp, unsigned, verdict>>

EnsureBaseline ==
    /\ bot.at = "stamp"
    /\ stamp' = Baseline(bot.code)
    /\ Goes("ask")
    /\ UNCHANGED <<family, wrong, code, applied, unsigned, verdict>>

\* check_required_mod and _check_is_the_right_game: a question that cannot be sent is passed
\* over, and the connection of a server that pushes is not open yet.
Asked(problem) == family \notin Push /\ Has({problem})

AskServer ==
    /\ bot.at = "ask"
    /\ IF Asked("noMod") \/ Asked("otherGame") THEN Fails ELSE Goes("open")
    /\ UNCHANGED <<family, wrong, code, schema, verdict>>

\* source.open: the game log, or the connection that the server pushes to.
Open ==
    /\ bot.at = "open"
    /\ IF \/ family \notin Push /\ Has({"noLog"})
          \/ family \in Push /\ Has({"noPassword", "badPassword", "badUser", "down"})
       THEN Fails
       ELSE bot' = [bot EXCEPT !.at = "up"] /\ outcome' = "up" /\ UNCHANGED since
    /\ UNCHANGED <<family, wrong, code, schema, verdict>>

\* !die and !restart: code 0 and code 221.
Stop(asked) ==
    /\ bot.at = "up"
    /\ Ends(asked)
    /\ outcome' = None
    /\ UNCHANGED <<family, wrong, code, schema, verdict>>

Killed ==
    /\ bot.at # "down"
    /\ Ends(FALSE)
    /\ outcome' = None
    /\ LeftUnsigned
    /\ UNCHANGED <<family, wrong, code, applied, stamp, verdict>>

-----------------------------------------------------------------------------
(* The operator, and another bot.                                           *)

Unjudged == verdict' = {} /\ since' = FALSE /\ outcome' = None

Mend(problem) ==
    /\ problem \in wrong
    /\ wrong' = wrong \ {problem}
    /\ Unjudged
    /\ UNCHANGED <<family, code, schema, bot>>

\* `b3 update`: the bot that runs goes on with the code it has.
Update ==
    /\ ~Has({"noRemote"}) /\ code < Newest
    /\ code' = code + 1
    /\ LeftUnsigned
    /\ Unjudged
    /\ UNCHANGED <<family, wrong, applied, stamp, bot>>

\* `b3 db upgrade`, from the stamp on: what is there already cannot be made again.
Pending == {revision \in 1..code : revision > stamp}
DbUpgrade ==
    /\ ~Has({"unwritable"}) /\ Pending # {} /\ Pending \cap applied = {}
    /\ applied' = applied \cup Pending /\ stamp' = code
    /\ Unjudged
    /\ UNCHANGED <<family, wrong, code, unsigned, bot>>

\* `b3 db stamp`
DbStamp ==
    /\ ~Has({"unwritable"}) /\ stamp = 0
    /\ stamp' = code
    /\ unsigned' = TRUE
    /\ Unjudged
    /\ UNCHANGED <<family, wrong, code, applied, bot>>

\* Another bot's code is newer, and its operator has migrated the database they share.
OthersUpgrade ==
    /\ stamp \in 1..(Newest - 1)
    /\ applied' = applied \cup ((stamp + 1)..Newest) /\ stamp' = Newest
    /\ Unjudged
    /\ UNCHANGED <<family, wrong, code, unsigned, bot>>

Starts == SchemaDrift \/ Connect \/ Load \/ CreateSchema \/ EnsureBaseline \/ AskServer \/ Open

Next ==
    \/ Examine \/ Starts \/ Killed
    \/ \E keeper \in Keepers, drift \in BOOLEAN : Run(keeper, drift)
    \/ \E asked \in BOOLEAN : Stop(asked)
    \/ \E problem \in wrong : Mend(problem)
    \/ Update \/ DbUpgrade \/ DbStamp \/ OthersUpgrade

Spec == Init /\ [][Next]_doVars

-----------------------------------------------------------------------------
TypeOK ==
    /\ family \in Families /\ wrong \subseteq Relevant(family)
    /\ code \in 1..Newest /\ applied \subseteq 1..Newest /\ stamp \in 0..Newest
    /\ unsigned \in BOOLEAN /\ since \in BOOLEAN
    /\ bot.at \in {"down", "schema", "connect", "load", "store", "stamp", "ask", "open", "up"}
    /\ outcome \in {None, "failed", "up"}

\* "Check this install before starting it" (docs/cli.md:15): when nothing failed, the run that
\* follows gets as far as its first line - unless the plugins have what the doctor does not ask,
\* a password is missing that the server asks for, of which it only warns, or a Ravaged server is
\* to be logged in to as an account it does not have, which the doctor does not try.  When
\* something failed the run does not, or it can only read, as it says - or it logs in to a Ravaged
\* server whose account is not "admin", where the doctor fails although nothing is wrong.
DoctorIsRight ==
    since => \A failed \in verdict :
        /\ outcome = "failed" /\ failed = {} =>
              \/ wrong \cap Unasked # {}
              \/ "noPassword" \in wrong /\ family \in LogIn
              \/ "badUser" \in wrong /\ family = "ravaged"
        /\ outcome = "up" /\ failed # {} =>
              \/ failed = {"rcon"} /\ (family \notin LogIn \/ "otherUser" \in wrong)
              \/ "noConfigOff" \in wrong
              \/ bot.drift

\* "the bot refuses to start when its database is behind" (docs/cli.md:68-70): whatever is
\* updated, migrated, killed and started in whatever order, a bot that has not been told to
\* ignore it never runs on tables that lack what its code expects, and the stamp never claims
\* what the tables do not have - if no tables were left without a stamp, and for a bot that
\* could ask: one that could not goes on, and the database may be back a moment later.
SchemaFits ==
    ~unsigned =>
        /\ bot.at \in {"ask", "open", "up"} /\ ~bot.drift /\ bot.asked => 1..bot.code \subseteq applied
        /\ stamp # 0 => 1..stamp = applied
=============================================================================
