------------------------------ MODULE AdminTool ------------------------------
(***************************************************************************)
(* Administrators behind one address, each with the tool: it asks for a    *)
(* challenge, waits for the answer, reads the password and sends one       *)
(* command.  The master server keeps one pair of challenges for the        *)
(* address, the last one it gave, and for some time only.  Datagrams get   *)
(* lost, and come late and twice.                                          *)
(***************************************************************************)
EXTENDS Naturals, Sequences, SequencesExt, FiniteSets

CONSTANTS
    Tools,
    Characters,      \* the characters that are typed
    RightPassword,   \* the administrator's
    MaxTyped,        \* bound of what is typed
    MaxPairs         \* bound of the pairs of challenges that are given

VARIABLES
    toolStage,       \* "start", "waiting", "typing", then how it ended
    typed,           \* the password so far
    pair,            \* the challenges received, 0 before; pair n is the n-th given
    answers,         \* datagrams to a tool: a pair, or 0 for anything else
    commands,        \* commands sent: by, challenge and hash
    issued,          \* how many pairs were given
    adminEntry,      \* the pair the master server has for the address, 0 for none
    locked,          \* the address is in admin_limit
    ran              \* how often each command was run

toolVars == <<toolStage, typed, pair>>
masterVars == <<issued, adminEntry, locked, ran>>
adminToolVars == <<toolVars, answers, commands, masterVars>>

AdminToolInit ==
    /\ toolStage = [t \in Tools |-> "start"]
    /\ typed = [t \in Tools |-> <<>>]
    /\ pair = [t \in Tools |-> 0]
    /\ answers = [t \in Tools |-> {}]
    /\ commands = {}
    /\ issued = 0 /\ adminEntry = 0 /\ locked = FALSE
    /\ ran = [t \in Tools |-> 0]

Hash(password, challenge) == [password |-> password, challenge |-> challenge]

-----------------------------------------------------------------------------
(* The tool                                                                *)

AskChallenge(t) ==
    /\ toolStage[t] = "start"
    /\ toolStage' = [toolStage EXCEPT ![t] = "waiting"]
    /\ UNCHANGED <<typed, pair, answers, commands, masterVars>>

\* One datagram is read, and nothing else ends the wait for it.
ReceiveChallenge(t) ==
    /\ toolStage[t] = "waiting"
    /\ \E a \in answers[t] :
          /\ toolStage' = [toolStage EXCEPT ![t] = IF a = 0 THEN "error" ELSE "typing"]
          /\ pair' = [pair EXCEPT ![t] = a]
    /\ UNCHANGED <<typed, answers, commands, masterVars>>

\* A character, a paste, Backspace, Ctrl-W.
Key(t) ==
    /\ toolStage[t] = "typing"
    /\ \E s \in {<<c>> : c \in Characters} \cup {<<c, d>> : c, d \in Characters} :
          \/ Len(typed[t] \o s) <= MaxTyped /\ typed' = [typed EXCEPT ![t] = @ \o s]
          \/ typed[t] # <<>> /\ typed' = [typed EXCEPT ![t] = Front(@)]
          \/ typed' = [typed EXCEPT ![t] = <<>>]
    /\ UNCHANGED <<toolStage, pair, answers, commands, masterVars>>

\* Mutant: nothing typed is a password too.
HasPassword_Any(t) == TRUE

HasPassword(t) == typed[t] # <<>>

\* Enter, Esc, Ctrl-C and Ctrl-D are all the same: they end the password.
EndPassword(t) ==
    /\ toolStage[t] = "typing"
    /\ IF HasPassword(t)
         THEN /\ toolStage' = [toolStage EXCEPT ![t] = "sent"]
              /\ commands' = commands \cup
                    {[by |-> t, challenge |-> pair[t], hash |-> Hash(typed[t], pair[t])]}
         ELSE toolStage' = [toolStage EXCEPT ![t] = "no_password"] /\ UNCHANGED commands
    /\ UNCHANGED <<typed, pair, answers, masterVars>>

-----------------------------------------------------------------------------
(* The master server, of which MasterAdmin says more                       *)

\* Each request that comes, a repeated one too, is given a pair of its own.
GiveChallenge(t) ==
    /\ toolStage[t] # "start" /\ ~locked
    /\ issued < MaxPairs
    /\ issued' = issued + 1
    /\ adminEntry' = issued'
    /\ answers' = [answers EXCEPT ![t] = @ \cup {issued'}]
    /\ UNCHANGED <<toolVars, commands, locked, ran>>

\* Mutant: the challenge is kept for another command.
Used_Keeps(entry) == entry

Used(entry) == 0

RunCommand(c) ==
    /\ ~locked
    /\ adminEntry # 0 /\ c.challenge = adminEntry
    /\ IF c.hash = Hash(RightPassword, adminEntry)
         THEN /\ ran' = [ran EXCEPT ![c.by] = @ + 1]
              /\ adminEntry' = Used(adminEntry)
              /\ UNCHANGED locked
         ELSE locked' = TRUE /\ UNCHANGED <<ran, adminEntry>>
    /\ UNCHANGED <<toolVars, answers, commands, issued>>

\* The challenge gets too old, or the lock does.
TimePasses ==
    /\ \/ adminEntry # 0 /\ adminEntry' = 0 /\ UNCHANGED locked
       \/ locked /\ locked' = FALSE /\ UNCHANGED adminEntry
    /\ UNCHANGED <<toolVars, answers, commands, issued, ran>>

\* Something else comes to the tool's socket.
Stray(t) ==
    /\ answers' = [answers EXCEPT ![t] = @ \cup {0}]
    /\ UNCHANGED <<toolVars, commands, masterVars>>

AdminToolNext ==
    \/ \E t \in Tools : \/ AskChallenge(t) \/ ReceiveChallenge(t) \/ Key(t) \/ EndPassword(t)
                        \/ GiveChallenge(t) \/ Stray(t)
    \/ \E c \in commands : RunCommand(c)
    \/ TimePasses

AdminToolSpec == AdminToolInit /\ [][AdminToolNext]_adminToolVars

-----------------------------------------------------------------------------
\* However often datagrams are repeated and tools disturb one another, a command runs
\* once at most, and only if the right password was typed for it; and the address is
\* locked, for everybody behind it, only after somebody has typed a password that is
\* wrong: who types nothing disturbs nobody.
PasswordDecides ==
    /\ \A t \in Tools : ran[t] <= 1 /\ (ran[t] = 1 => typed[t] = RightPassword)
    /\ locked => \E t \in Tools :
                    toolStage[t] = "sent" /\ typed[t] \notin {<<>>, RightPassword}

=============================================================================
