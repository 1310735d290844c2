------------------------------- MODULE Install -------------------------------
(****************************************************************************)
(* Installing, updating, enabling and removing plugins: core/plugininstall.py *)
(* and the command of cli.py that runs it.                                   *)
(*                                                                          *)
(* Three things on disk say what there is: the directory of each plugin, the  *)
(* lockfile of the directory they are in, and the rows of the bot's           *)
(* configuration.  No command changes them at once, each may be refused on    *)
(* the way or killed between any two steps, and the two files are rewritten   *)
(* in place.                                                                 *)
(*                                                                          *)
(* One directory, which several servers share or one has to itself, and one   *)
(* command at a time.  Of a row its plugin is kept; a plugin's own            *)
(* configuration file is never taken away and is left out, as are files cut   *)
(* off where no command can read them any more.                              *)
(****************************************************************************)
EXTENDS Naturals, FiniteSets

CONSTANTS
    Offered,  \* the plugins that can be installed
    Tags,     \* [Offered -> SUBSET (Nat \ {0})]: of their repositories
    Servers,  \* whose configurations name them
    Demands,  \* of a plugin at a tag, requires_plugins
    Good,     \* plugins at a tag: what has a manifest and is for this version of the bot
    MaxKills  \* how many commands are killed: the bound

VARIABLES
    disk,     \* the tag whose files are in the directory of each plugin, or Gone
    record,   \* installed.yaml: the tag recorded, or Gone
    rows,     \* the plugins in the configuration of each server
    task,     \* the command that runs, or Idle
    cut,      \* what a command was killed on, and what was lost from a file, until it is put right
    fetched,  \* plugins whose update was refused after the new files were there
    moved,    \* plugins that were updated
    dropped,  \* plugins that were removed, by which server
    killed    \* how many commands were killed

inVars == <<disk, record, rows, task, cut, fetched, moved, dropped, killed>>
ghosts == <<cut, fetched, moved, dropped>>

Gone == 0
Idle == [do |-> "nothing"]
Recorded == {p \in Offered : record[p] # Gone}
OnDisk == {p \in Offered : disk[p] # Gone}

Init ==
    /\ disk = [p \in Offered |-> Gone] /\ record = disk
    /\ rows = [s \in Servers |-> {}]
    /\ task = Idle /\ cut = {} /\ fetched = {} /\ moved = {} /\ dropped = {} /\ killed = 0

\* What the lockfile is rewritten with.
Rewritten == [record EXCEPT ![task.plugin] = task.tag]

Do(what) == task' = [task EXCEPT !.do = what]
Done(s) ==
    /\ task' = Idle /\ cut' = cut \ {task.plugin} /\ fetched' = fetched \ {task.plugin}
    /\ moved' = IF task.for = "update" THEN moved \cup {task.plugin} ELSE moved \ {task.plugin}
    /\ dropped' = IF task.for = "remove" THEN dropped \cup {<<task.plugin, s>>}
                  ELSE {d \in dropped : d[1] # task.plugin}
Refuse == task' = Idle /\ UNCHANGED ghosts

-----------------------------------------------------------------------------
\* install: a tag is cloned beside the plugins, looked at, put in place, recorded and activated.

BeginInstall(p, t) ==
    /\ task = Idle
    /\ task' = [for |-> "install", do |-> "clone", plugin |-> p, tag |-> t]
    /\ UNCHANGED <<disk, record, rows, ghosts, killed>>

\* What an earlier clone left beside the plugins is cleared first; git may fail.
Clone ==
    /\ task.do = "clone"
    /\ (Do("look") /\ UNCHANGED ghosts) \/ Refuse
    /\ UNCHANGED <<disk, record, rows, killed>>

\* A bug: what it requires may be missing.
AcceptsAnyNeeds(r, p, t, force) == <<p, t>> \in Good /\ (r[p] = Gone \/ force)

\* The manifest, the version of the bot, whether it is installed and whether what it requires is.
Accepts(r, p, t, force) ==
    /\ <<p, t>> \in Good
    /\ r[p] = Gone \/ force
    /\ \A q \in Demands[<<p, t>>] \ {p} : r[q] # Gone

Look ==
    /\ task.do = "look"
    /\ \E force \in BOOLEAN :
          IF Accepts(record, task.plugin, task.tag, force)
          THEN Do("clear") /\ UNCHANGED ghosts ELSE Refuse
    /\ UNCHANGED <<disk, record, rows, killed>>

\* The former files go before the new ones come.
ClearTarget ==
    /\ task.do = "clear" /\ Do("place")
    /\ disk' = [disk EXCEPT ![task.plugin] = Gone]
    /\ UNCHANGED <<record, rows, ghosts, killed>>

\* A bug: the new files stay where they were cloned.
PlaceNot ==
    /\ task.do = "place" /\ Do("record")
    /\ UNCHANGED <<disk, record, rows, ghosts, killed>>

Place ==
    /\ task.do = "place" /\ Do("record")
    /\ disk' = [disk EXCEPT ![task.plugin] = task.tag]
    /\ UNCHANGED <<record, rows, ghosts, killed>>

\* The lockfile as it was read, with the new record.
Record ==
    /\ task.do = "record" /\ Do("activate")
    /\ record' = Rewritten
    /\ UNCHANGED <<disk, rows, ghosts, killed>>

Activate ==
    /\ task.do = "activate"
    /\ \E s \in Servers :
          /\ Done(s)
          /\ rows' \in {rows, [rows EXCEPT ![s] = @ \cup {task.plugin}]}
    /\ UNCHANGED <<disk, record, killed>>

-----------------------------------------------------------------------------
\* update: in the directory of the plugin itself.

BeginUpdate(p, t) ==
    /\ task = Idle /\ p \in Recorded /\ p \in OnDisk
    /\ task' = [for |-> "update", do |-> "checkout", plugin |-> p, tag |-> t]
    /\ UNCHANGED <<disk, record, rows, ghosts, killed>>

\* The new files are in place before their manifest is looked at.
Checkout ==
    /\ task.do = "checkout"
    /\ \/ Refuse /\ UNCHANGED disk
       \/ /\ disk' = [disk EXCEPT ![task.plugin] = task.tag]
          /\ IF <<task.plugin, task.tag>> \in Good
             THEN Do("rerecord") /\ UNCHANGED ghosts
             ELSE /\ task' = Idle /\ fetched' = fetched \cup {task.plugin}
                  /\ UNCHANGED <<cut, moved, dropped>>
    /\ UNCHANGED <<record, rows, killed>>

Rerecord ==
    /\ task.do = "rerecord" /\ \E s \in Servers : Done(s)
    /\ record' = Rewritten
    /\ UNCHANGED <<disk, rows, killed>>

-----------------------------------------------------------------------------
\* remove: the record, then the files unless they are to stay, then the row.

BeginRemove(p) ==
    /\ task = Idle /\ p \in Recorded
    /\ task' = [for |-> "remove", do |-> "unrecord", plugin |-> p, tag |-> Gone]
    /\ UNCHANGED <<disk, record, rows, ghosts, killed>>

Unrecord ==
    /\ task.do = "unrecord" /\ Do("delete")
    /\ record' = Rewritten
    /\ UNCHANGED <<disk, rows, ghosts, killed>>

Delete ==
    /\ task.do = "delete" /\ Do("deactivate")
    /\ disk' \in {disk, [disk EXCEPT ![task.plugin] = Gone]}
    /\ UNCHANGED <<record, rows, ghosts, killed>>

Deactivate ==
    /\ task.do = "deactivate"
    /\ \E s \in Servers : Done(s) /\ rows' = [rows EXCEPT ![s] = @ \ {task.plugin}]
    /\ UNCHANGED <<disk, record, killed>>

\* A bug: a row for what is not there.
EnableAny(s, p) ==
    /\ task = Idle
    /\ rows' = [rows EXCEPT ![s] = @ \cup {p}]
    /\ UNCHANGED <<disk, record, task, ghosts, killed>>

\* enable and disable change the configuration alone.
Enable(s, p) ==
    /\ task = Idle /\ p \in Recorded
    /\ rows' = [rows EXCEPT ![s] = @ \cup {p}]
    /\ UNCHANGED <<disk, record, task, ghosts, killed>>

Disable(s, p) ==
    /\ task = Idle /\ p \in rows[s]
    /\ rows' = [rows EXCEPT ![s] = @ \ {p}]
    /\ UNCHANGED <<disk, record, task, ghosts, killed>>

-----------------------------------------------------------------------------
\* Nothing is tidied up after a command that is killed.  Of a file it was writing there is as
\* much as was written.
Kill ==
    /\ task # Idle /\ killed < MaxKills
    /\ task' = Idle /\ killed' = killed + 1
    /\ \E lost \in SUBSET Offered :
          /\ cut' = cut \cup {task.plugin} \cup lost
          /\ \/ lost = {} /\ UNCHANGED <<record, rows>>
             \/ /\ task.do \in {"record", "rerecord", "unrecord"} /\ UNCHANGED rows
                /\ record' = [p \in Offered |-> IF p \in lost THEN Gone ELSE Rewritten[p]]
             \/ /\ task.do \in {"activate", "deactivate"} /\ UNCHANGED record
                /\ \E s \in Servers : rows' = [rows EXCEPT ![s] = @ \ lost]
    /\ UNCHANGED <<disk, fetched, moved, dropped>>

Next ==
    \/ \E s \in Servers, p \in Offered : Enable(s, p) \/ Disable(s, p)
    \/ \E p \in Offered :
           BeginRemove(p) \/ \E t \in Tags[p] : BeginInstall(p, t) \/ BeginUpdate(p, t)
    \/ Clone \/ Look \/ ClearTarget \/ Place \/ Record \/ Activate
    \/ Checkout \/ Rerecord
    \/ Unrecord \/ Delete \/ Deactivate
    \/ Kill

Spec == Init /\ [][Next]_inVars

-----------------------------------------------------------------------------
Busy == IF task = Idle THEN {} ELSE {task.plugin}

TypeOK ==
    /\ \A p \in Offered : {disk[p], record[p]} \subseteq Tags[p] \cup {Gone}
    /\ rows \in [Servers -> SUBSET Offered] /\ dropped \subseteq Offered \X Servers
    /\ cut \cup fetched \cup moved \cup Busy \subseteq Offered
    /\ killed \in 0..MaxKills

\* What is recorded is what is on disk, except for a plugin whose command is running or was
\* killed, or whose update was refused.
\* (plugininstall.py:455-471, 504-518, 579-582)
RecordIsTrue ==
    \A p \in Recorded \ (Busy \cup cut \cup fetched) : record[p] = disk[p]

\* A server can import what its configuration names: a row comes after the record and the files
\* and goes with them.  The exceptions are what a killed command was at, and what another server
\* has removed from the directory they share. (plugininstall.py:470-481, 572-584)
RowsHaveFiles ==
    \A s \in Servers : \A p \in rows[s] \ (Busy \cup cut) :
        p \in Recorded \cap OnDisk \/ \E r \in Servers \ {s} : <<p, r>> \in dropped

\* Whatever is required is recorded too, unless it was removed or lost since: of all that was
\* installed, and not of what was updated. (plugininstall.py:444-453)
NeedsAreRecorded ==
    \A p \in Recorded \ (Busy \cup cut \cup moved) : \A q \in Demands[<<p, record[p]>>] :
        q \in Recorded \cup Busy \cup cut \/ \E r \in Servers : <<q, r>> \in dropped
=============================================================================
