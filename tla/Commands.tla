------------------------------- MODULE Commands -------------------------------
(****************************************************************************)
(* The command registry (core/commands.py) and who changes it: plugins that  *)
(* register their commands when they start (core/plugin.py), cmdmanager,     *)
(* which gives a command another level or alias and stores it as an override *)
(* (plugins/cmdmanager), an admin who switches plugins on and off            *)
(* (plugins/admin) and match mode, which does so too (plugins/poweradminurt).*)
(*                                                                          *)
(* Chat lines are handled one at a time, so every command is one step; the   *)
(* event that tells of an enabled plugin is delivered before the next line.  *)
(* The overrides outlive the bot; everything else is built anew when it      *)
(* starts.  A level is whatever !cmdlevel was given; who may use which level *)
(* is not modelled.  The admin plugin is left out: !plugin refuses to switch *)
(* it off, and matchmode_plugins is assumed not to name it.                  *)
(****************************************************************************)
EXTENDS Integers, Sequences, FiniteSets, SequencesExt

CONSTANTS
    LoadOrder,   \* the plugins in the order they start
    Offers,      \* the commands of each, in order: [plugin, name, alias]
    Manager,     \* cmdmanager
    Referee,     \* the plugin with !pamatch
    Listed,      \* matchmode_plugins
    Words,       \* what can be typed
    Levels, CodeLevel,
    Nobody, NoWord, NoRow

Plugins == {LoadOrder[i] : i \in DOMAIN LoadOrder}
Known == UNION {{Offers[p][i] : i \in DOMAIN Offers[p]} : p \in Plugins}
Rows == [level : Levels, alias : Words \cup {NoWord}]

ASSUME PluginsAssumption ==
    /\ LoadOrder \in Seq(Plugins) /\ IsInjective(LoadOrder) /\ Manager \in Plugins /\ Referee \in Plugins
    /\ Listed \subseteq Plugins \ {Referee}
ASSUME WordsAssumption ==
    /\ IsFiniteSet(Words) /\ NoWord \notin Words /\ Nobody \notin Known
    /\ \A c \in Known : c.name \in Words /\ c.alias \in Words \cup {NoWord}
\* No plugin uses one word twice.
ASSUME OffersAssumption ==
    /\ Offers \in [Plugins -> Seq(Known)]
    /\ \A p \in Plugins : \A i \in DOMAIN Offers[p] : Offers[p][i].plugin = p
    /\ \A c, d \in Known : /\ c.alias # c.name
                           /\ c.plugin = d.plugin /\ c # d
                                  => {c.name, c.alias} \cap {d.name, d.alias} \subseteq {NoWord}
ASSUME LevelsAssumption == CodeLevel \in Levels

VARIABLES
    registry,   \* [names, commands, alias, level]: CommandRegistry and its Commands
    enabled,    \* Plugin._enabled
    started,    \* Plugin._started
    matchMode,  \* match_mode
    heldBack,   \* _disabled_for_match
    stored,     \* cmdmanager_overrides, by command name
    switchedOff \* history: the plugins an admin switched off between matches

plugins == <<enabled, started>>
match == <<matchMode, heldBack>>
vars == <<registry, plugins, match, stored, switchedOff>>

-----------------------------------------------------------------------------
(* The registry.                                                            *)

Empty == [names |-> [w \in Words |-> Nobody],
          commands |-> {},
          alias |-> [c \in Known |-> c.alias],
          level |-> [c \in Known |-> CodeLevel]]

Taken(r, c) == r.names[c.name] # Nobody

AliasIsFree(r, c) == c.alias # NoWord /\ r.names[c.alias] = Nobody

\* Mutant: a word goes to whoever asks last.
RegisterLast(r, c) ==
    [r EXCEPT !.names = [w \in Words |-> IF w \in {c.name, c.alias} THEN c ELSE @[w]],
              !.commands = @ \cup {c}]

Named(r, c) == [w \in Words |-> IF w = c.name \/ (w = c.alias /\ AliasIsFree(r, c)) THEN c
                                ELSE r.names[w]]

Register(r, c) ==
    IF Taken(r, c) THEN r
    ELSE [r EXCEPT !.names = Named(r, c), !.commands = @ \cup {c},
                   !.alias[c] = IF AliasIsFree(r, c) THEN c.alias ELSE NoWord]

MayHave(r, c, w) == r.names[w] \in {Nobody, c}

\* Mutant: the old alias goes on working.
SetAliasKeepsOld(r, c, w) ==
    IF ~MayHave(r, c, w) THEN r
    ELSE [r EXCEPT !.names[w] = c, !.alias[c] = w]

\* The old alias is forgotten first, and so is the name if it is the alias.
SetAlias(r, c, w) ==
    IF ~MayHave(r, c, w) THEN r
    ELSE [r EXCEPT !.names = [v \in Words |-> IF v = w THEN c
                                              ELSE IF v = r.alias[c] THEN Nobody ELSE @[v]],
                   !.alias[c] = w]

-----------------------------------------------------------------------------
(* cmdmanager's overrides.                                                  *)

\* A row is put on the command its name finds, which may be another's alias.
ApplyRow(r, w) ==
    LET c == r.names[w]
        s == [r EXCEPT !.level[c] = stored[w].level]
    IN  IF c = Nobody THEN r
        ELSE IF stored[w].alias \in {NoWord, r.alias[c]} THEN s
        ELSE SetAlias(s, c, stored[w].alias)

\* The rows come in no particular order.
RowOrders == SetToSeqs({w \in Words : stored[w] # NoRow})

ApplyOverrides(r, order) == FoldLeft(ApplyRow, r, order)

Store(c, r) == stored' = [stored EXCEPT ![c.name] = [level |-> r.level[c], alias |-> r.alias[c]]]

CmdLevel(w, level) ==
    LET c == registry.names[w]
    IN  /\ enabled[Manager]
        /\ c # Nobody
        /\ registry' = [registry EXCEPT !.level[c] = level]
        /\ Store(c, registry')
        /\ UNCHANGED <<plugins, match, switchedOff>>

CmdAlias(w, alias) ==
    LET c == registry.names[w]
    IN  /\ enabled[Manager]
        /\ c # Nobody
        /\ MayHave(registry, c, alias)
        /\ registry' = SetAlias(registry, c, alias)
        /\ Store(c, registry')
        /\ UNCHANGED <<plugins, match, switchedOff>>

-----------------------------------------------------------------------------
(* Plugins.                                                                 *)

\* Plugin.start: the commands, then on_startup, where cmdmanager puts its rows.
Start(r, p, order) ==
    LET s == FoldLeft(Register, r, Offers[p])
    IN  IF p = Manager THEN ApplyOverrides(s, order) ELSE s

\* BigBrotherBot.start, with the plugins the config leaves on.
Boot(on, order) ==
    FoldLeft(LAMBDA r, p : IF p \in on THEN Start(r, p, order) ELSE r, Empty, LoadOrder)

Init ==
    /\ stored = [w \in Words |-> NoRow]
    /\ enabled \in [Plugins -> BOOLEAN]
    /\ started = enabled
    /\ registry = Boot({p \in Plugins : enabled[p]}, <<>>)
    /\ matchMode = FALSE /\ heldBack = {}
    /\ switchedOff = {}

\* The bot stops, and starts again with the plugins its config then leaves on.
Restart(on) ==
    /\ \E order \in RowOrders : registry' = Boot(on, order)
    /\ enabled' = [p \in Plugins |-> p \in on]
    /\ started' = enabled'
    /\ matchMode' = FALSE /\ heldBack' = {}
    /\ switchedOff' = {}
    /\ UNCHANGED stored

\* !plugin enable: the plugin starts if it never did, and cmdmanager, told of it,
\* puts its rows again.
Enable(p) ==
    /\ ~enabled[p]
    /\ enabled' = [enabled EXCEPT ![p] = TRUE]
    /\ started' = [started EXCEPT ![p] = TRUE]
    /\ \E first, second \in RowOrders :
          LET r == IF started[p] THEN registry ELSE Start(registry, p, first)
          IN  registry' = IF enabled'[Manager] THEN ApplyOverrides(r, second) ELSE r
    /\ switchedOff' = switchedOff \ {p}
    /\ UNCHANGED <<match, stored>>

\* !plugin disable.
Disable(p) ==
    /\ enabled[p]
    /\ enabled' = [enabled EXCEPT ![p] = FALSE]
    /\ switchedOff' = IF matchMode THEN switchedOff ELSE switchedOff \cup {p}
    /\ UNCHANGED <<registry, started, match, stored>>

\* Mutant: everything on the list is brought back, as the classic bot did.
RunningAll == Listed

Running == {p \in Listed : enabled[p]}

MatchOn ==
    /\ enabled[Referee]
    /\ matchMode' = TRUE
    /\ heldBack' = Running
    /\ enabled' = [p \in Plugins |-> enabled[p] /\ p \notin Running]
    /\ UNCHANGED <<registry, started, stored, switchedOff>>

\* What was held back has started before, so enable only switches it on.
MatchOff ==
    /\ enabled[Referee]
    /\ matchMode' = FALSE
    /\ heldBack' = {}
    /\ enabled' = [p \in Plugins |-> enabled[p] \/ p \in heldBack]
    /\ UNCHANGED <<registry, started, stored, switchedOff>>

Next ==
    \/ \E w \in Words : (\E l \in Levels : CmdLevel(w, l)) \/ (\E a \in Words : CmdAlias(w, a))
    \/ \E p \in Plugins : Enable(p) \/ Disable(p)
    \/ MatchOn \/ MatchOff
    \/ \E on \in SUBSET Plugins : Restart(on)

Spec == Init /\ [][Next]_vars

-----------------------------------------------------------------------------
TypeOK ==
    /\ registry.names \in [Words -> Known \cup {Nobody}]
    /\ registry.commands \subseteq Known
    /\ registry.alias \in [Known -> Words \cup {NoWord}]
    /\ registry.level \in [Known -> Levels]
    /\ enabled \in [Plugins -> BOOLEAN] /\ started \in [Plugins -> BOOLEAN]
    /\ matchMode \in BOOLEAN /\ heldBack \subseteq Listed
    /\ stored \in [Words -> Rows \cup {NoRow}]
    /\ switchedOff \subseteq Plugins

\* "The old alias has to stop working, or a command ends up with two"
\* (commands.py:205): a word finds a command only as its name or as the alias it
\* has now, and the alias that !cmdalias and !help show is one that finds it -
\* after any number of renamings, overrides put again, and restarts.
AliasesAgree ==
    /\ \A w \in Words :
          LET c == registry.names[w]
          IN  c # Nobody => c \in registry.commands /\ w \in {c.name, registry.alias[c]}
    /\ \A c \in registry.commands :
          registry.alias[c] # NoWord => registry.names[registry.alias[c]] = c

\* "The command that was registered *first* wins" (commands.py:158): while the bot
\* runs, a word passes to another command only if the one it found gave it up as
\* its alias.
FirstKeepsTheWord ==
    [][\/ \A w \in Words :
            LET c == registry.names[w]
            IN  c # Nobody /\ w \in {c.name, registry'.alias[c]}
                    => registry'.names[w] \in {c, Nobody}
       \/ Restart({p \in Plugins : enabled'[p]})]_vars

\* "a plugin an operator had deliberately switched off came back on because a match
\* had happened" (poweradminurt/__init__.py:1575-1576): what an admin switched off
\* between matches stays off through the matches that follow.
SwitchedOffStaysOff == \A p \in switchedOff : ~enabled[p]

\* "as an operator last set them, so a restart keeps them" (cmdmanager/__init__.py:79):
\* while cmdmanager runs, every command has the level and the alias stored for it.
OverridesHold == enabled[Manager] => \A c \in registry.commands :
    stored[c.name] # NoRow =>
        /\ registry.level[c] = stored[c.name].level
        /\ stored[c.name].alias \in {NoWord, registry.alias[c]}
=============================================================================
