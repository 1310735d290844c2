----------------------------- MODULE SourceRcon -----------------------------
(****************************************************************************)
(* The Source RCON client (net/source.py).  A command waits for the packets   *)
(* that carry its number, and for an empty one sent behind it whose answer     *)
(* says that they are all there; one that fails is tried once more on a new     *)
(* connection.  A password that was refused is never sent again.               *)
(*                                                                          *)
(* The cache of get_status is the one of Rcon and is left out, and so are the   *)
(* servers that do not answer an empty command.                                *)
(****************************************************************************)
EXTENDS Integers, Sequences, FiniteSets

CONSTANTS
    MaxCommands,  \* how many commands and lines are sent: the bound
    MaxFaults     \* how often the server hangs up or changes: the bound

VARIABLES
    up,      \* the server accepts connections
    right,   \* the password is the server's
    open,    \* the server has not hung up
    wire,    \* what it has sent and the client has not read, <<what, number>>
    owed,    \* what it has still to send, by request
    authed,  \* the client: connected and authed
    refused, \* _password_refused
    id,      \* _request_id
    mine,    \* the request whose reply is awaited, 0 for none
    tries,   \* which attempt at the command this is
    parts,   \* the packets of the reply so far
    sent,    \* the commands and lines there have been
    done,    \* history: how often the server carried out the last command
    answer,  \* history: the last reply returned, and the request it was for
    denials, \* history: how many logins the server has refused
    faults

srServer == <<up, right, open, wire, owed, faults>>
srClient == <<authed, refused, id, mine, tries, parts>>
srVars == <<srServer, srClient, sent, done, answer, denials>>

Idle == mine = 0

Init ==
    /\ up = TRUE /\ right = TRUE /\ open = FALSE /\ wire = <<>> /\ owed = <<>>
    /\ authed = FALSE /\ refused = FALSE /\ id = 0 /\ mine = 0 /\ tries = 0 /\ parts = <<>>
    /\ sent = 0 /\ done = 0 /\ answer = [for |-> 0, got |-> <<>>] /\ denials = 0 /\ faults = 0

-----------------------------------------------------------------------------
(* The server.                                                              *)

Fault == faults < MaxFaults /\ faults' = faults + 1

\* It works through what it was sent, a packet at a time.
Answers ==
    /\ open /\ owed # <<>>
    /\ wire' = Append(wire, Head(owed)) /\ owed' = Tail(owed)
    /\ UNCHANGED <<up, right, open, faults, srClient, sent, done, answer, denials>>

HangsUp ==
    /\ open /\ Fault
    /\ open' = FALSE /\ owed' = <<>> /\ wire' \in {wire, <<>>}
    /\ UNCHANGED <<up, right, srClient, sent, done, answer, denials>>

Changes ==
    /\ Fault
    /\ \/ up' = ~up /\ UNCHANGED right
       \/ right' = ~right /\ UNCHANGED up
    /\ open' = (open /\ up') /\ owed' = IF open' THEN owed ELSE <<>>
    /\ UNCHANGED <<wire, srClient, sent, done, answer, denials>>

-----------------------------------------------------------------------------
(* The connection.                                                          *)

\* Mutant: a refused password is not remembered.
OpensForgetful(ok) ==
    /\ wire' = <<>>
    /\ open' = (up /\ right) /\ authed' = open' /\ ok = open'
    /\ denials' = IF up /\ ~right THEN denials + 1 ELSE denials
    /\ refused' = refused

\* open, and whether it succeeds.
Opens(ok) ==
    /\ wire' = <<>>
    /\ open' = (up /\ right /\ ~refused) /\ authed' = open' /\ ok = open'
    /\ denials' = IF up /\ ~right /\ ~refused THEN denials + 1 ELSE denials
    /\ refused' = (refused \/ (up /\ ~right))

\* What the server makes of request n: it is answered in two packets, and then the empty
\* command behind it is; or it says that the password is wrong.
Reply(n) ==
    IF right THEN <<<<"part", n>>, <<"rest", n>>, <<"end", n>>>> ELSE <<<<"refused", 0>>>>

\* The request is on its way over a connection that is open, or is lost.
Sends(pending, carriedOut) ==
    /\ id' = id + 1 /\ mine' = id + 1 /\ parts' = <<>>
    /\ owed' = IF open' THEN pending \o Reply(id + 1) ELSE <<>>
    /\ done' = IF open' /\ right THEN carriedOut + 1 ELSE carriedOut

Raises == mine' = 0 /\ parts' = <<>> /\ tries' = 0

\* command
Command ==
    /\ Idle /\ sent < MaxCommands
    /\ sent' = sent + 1
    /\ IF authed
       THEN UNCHANGED <<open, wire, authed, refused, denials>> /\ Sends(owed, 0) /\ tries' = 1
       ELSE \/ Opens(TRUE) /\ Sends(<<>>, 0) /\ tries' = 1
            \/ Opens(FALSE) /\ Raises /\ owed' = <<>> /\ done' = 0 /\ UNCHANGED id
    /\ UNCHANGED <<up, right, faults, answer>>

\* write: nobody waits for what the server says to it.
Write ==
    /\ Idle /\ sent < MaxCommands
    /\ sent' = sent + 1
    /\ IF authed
       THEN UNCHANGED <<open, wire, authed, refused, denials>> /\ id' = id + 1
       ELSE \E ok \in BOOLEAN : Opens(ok) /\ id' = IF ok THEN id + 1 ELSE id
    /\ owed' = IF ~open' THEN <<>>
               ELSE (IF authed THEN owed ELSE <<>>) \o
                    IF right THEN <<<<"part", id'>>>> ELSE <<<<"refused", 0>>>>
    /\ UNCHANGED <<up, right, faults, mine, tries, parts, done, answer>>

-----------------------------------------------------------------------------
(* Waiting for the reply.                                                   *)

\* Mutant: the number of a packet is not looked at.
IsMineAny(m) == m[1] \in {"part", "rest"}

IsMine(m) == m[2] = mine /\ m[1] \in {"part", "rest"}

Returns == Raises /\ answer' = [for |-> mine, got |-> parts]

\* The next packet: part of the reply, the end of it, a refusal, or stale.
Receive ==
    /\ ~Idle /\ wire # <<>>
    /\ LET m == Head(wire)
       IN  CASE m[1] = "refused" ->
                    /\ Raises /\ refused' = TRUE /\ authed' = FALSE
                    /\ open' = FALSE /\ wire' = <<>> /\ owed' = <<>>
                    /\ denials' = denials + 1
                    /\ UNCHANGED answer
             [] IsMine(m) ->
                    /\ parts' = Append(parts, m) /\ wire' = Tail(wire)
                    /\ UNCHANGED <<open, owed, authed, refused, mine, tries, answer, denials>>
             [] m = <<"end", mine>> ->
                    /\ Returns /\ wire' = Tail(wire)
                    /\ UNCHANGED <<open, owed, authed, refused, denials>>
             [] OTHER ->
                    /\ wire' = Tail(wire)
                    /\ UNCHANGED <<open, owed, authed, refused, mine, tries, parts, answer,
                                   denials>>
    /\ UNCHANGED <<up, right, faults, id, sent, done>>

\* Nothing more comes: what there is of the reply is the reply.
EndsEarly ==
    /\ ~Idle /\ wire = <<>> /\ parts # <<>>
    /\ Returns
    /\ authed' = open
    /\ UNCHANGED <<srServer, refused, id, sent, done, denials>>

\* No reply at all: once more on a new connection, whether the server has carried it out or not.
TriesAgain ==
    /\ ~Idle /\ wire = <<>> /\ parts = <<>> /\ tries = 1
    /\ \/ Opens(TRUE) /\ Sends(<<>>, done) /\ tries' = 2
       \/ Opens(FALSE) /\ Raises /\ owed' = <<>> /\ UNCHANGED <<id, done>>
    /\ UNCHANGED <<up, right, faults, sent, answer>>

GivesUp ==
    /\ ~Idle /\ wire = <<>> /\ parts = <<>> /\ tries = 2
    /\ Raises
    /\ authed' = open
    /\ UNCHANGED <<srServer, refused, id, sent, done, answer, denials>>

Next ==
    \/ Answers \/ HangsUp \/ Changes
    \/ Command \/ Write \/ Receive \/ EndsEarly \/ TriesAgain \/ GivesUp

-----------------------------------------------------------------------------
TypeOK ==
    /\ id \in Nat /\ mine \in 0..id /\ tries \in 0..2 /\ (mine = 0) = (tries = 0)
    /\ sent \in 0..MaxCommands /\ faults \in 0..MaxFaults /\ done \in 0..2
    /\ open => up
    /\ authed => ~refused

\* A reply is made of the packets of its own request, in the order the server sent them, though
\* those of commands given up and of lines nobody waited for come in between.
\* (net/source.py:281-317)
OwnReply ==
    answer.got \in {<<>>, <<<<"part", answer.for>>>>,
                    <<<<"part", answer.for>>, <<"rest", answer.for>>>>}

\* However many commands are sent, retried and given up, the server refuses the password once.
\* (net/source.py:166-183, 205-210, 252-257, 301-304)
RefusedOnce == denials <= 1
=============================================================================
