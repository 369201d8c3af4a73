----------------------------- MODULE ProgramProofs -----------------------------
(***************************************************************************)
(* Proofs about what surrounds the master server, four parts that share no *)
(* state: the main loop under signals, where the settings come from, the   *)
(* administrators' tool, and the statistics (no request is lost or printed *)
(* twice between the two threads, no line starts while the statistics are  *)
(* off, and none with requests of the time before they were switched off). *)
(***************************************************************************)
EXTENDS Statistics, SignalLoop, Configuration, AdminTool, TLAPS

-----------------------------------------------------------------------------
(* The main loop, for every size of the socket buffer and number of edits   *)

\* Where the loop may still be after the exit signal: at most the datagram it was
\* about to receive is handled.
LateBound ==
    /\ "exit" \notin flags => late = 0
    /\ late \in {0, 1}
    /\ late = 1 => pc \notin {"recv", "waiting", "handle"}

\* Signals that come before their handlers are registered end the process.
NothingAtStart == pc = "start" => wanted <= read

LoopIInv == LoopTypeOK /\ ReloadNotLost /\ LateBound /\ NothingAtStart

\* The loop starts without signals.
LEMMA LoopInitInv == LoopInit => LoopIInv
BY SignalLoopAssumption
   DEF LoopInit, LoopIInv, LoopTypeOK, ReloadNotLost, LateBound, NothingAtStart, Running

\* The main thread takes the reload flag only to load the file, and receives nothing
\* once a flag is set and the datagram at hand is handled.
LEMMA MainStepInv ==
    ASSUME LoopIInv, MainStep
    PROVE  LoopIInv'
<1> USE DEF LoopIInv, LoopTypeOK, ReloadNotLost, LateBound, NothingAtStart, Running, Goto, environment
<1>1. CASE Start
    BY <1>1 DEF Start
<1>2. CASE WhileNotExit
    BY <1>2 DEF WhileNotExit
<1>3. CASE WhileFlagsEmpty
    BY <1>3 DEF WhileFlagsEmpty
<1>4. CASE CallRecv
    BY <1>4 DEF CallRecv
<1>5. CASE Received
    BY <1>5, SignalLoopAssumption DEF Received
<1>6. CASE HandlePacket
    BY <1>6 DEF HandlePacket
<1>7. CASE RemoveReload
    BY <1>7 DEF RemoveReload
<1>8. CASE LoadConfig
    BY <1>8 DEF LoadConfig
<1>9. CASE MasterUpdateConfig
    BY <1>9, SignalLoopAssumption DEF MasterUpdateConfig
<1> QED
    BY <1>1, <1>2, <1>3, <1>4, <1>5, <1>6, <1>7, <1>8, <1>9 DEF MainStep

\* A signal is remembered wherever the main thread is.
LEMMA EnvironmentInv ==
    ASSUME LoopIInv, \/ WaitTimeout \/ RecvError \/ SignalExit \/ SignalReload
                 \/ EditConfig \/ Arrive
    PROVE  LoopIInv'
<1> USE DEF LoopIInv, LoopTypeOK, ReloadNotLost, LateBound, NothingAtStart, Running, Goto, environment
<1>1. CASE WaitTimeout
    BY <1>1 DEF WaitTimeout
<1>2. CASE RecvError
    BY <1>2 DEF RecvError
<1>3. CASE SignalExit
    <2>1. pc' \in {pc, "stopped", "flags"} /\ pc # "stopped"
        BY <1>3 DEF SignalExit, Signal
    <2>2. flags' \in {flags, flags \cup {"exit"}}
        BY <1>3 DEF SignalExit, Signal
    <2>3. UNCHANGED <<queue, hasConfig, disk, wanted, read, late>>
        BY <1>3 DEF SignalExit
    <2>4. /\ pc = "start" => pc' = "stopped" /\ flags' = flags
          /\ pc # "start" => pc' # "stopped" /\ "exit" \in flags'
          /\ pc = "load" => pc' = "load"
          /\ pc' \in {"start", "recv", "waiting", "handle"} => pc' = pc
        BY <1>3 DEF SignalExit, Signal
    <2>5. LoopTypeOK'
        BY <2>1, <2>2, <2>3
    <2>6. ReloadNotLost'
        BY <2>1, <2>2, <2>3, <2>4
    <2>7. LateBound' /\ NothingAtStart'
        BY <2>1, <2>2, <2>3, <2>4
    <2> QED
        BY <2>5, <2>6, <2>7
<1>4. CASE SignalReload
    <2>1. /\ flags' \in {flags, flags \cup {"reload"}}
          /\ pc = "start" => pc' = "stopped"
          /\ pc # "start" => pc' \in {pc, "flags"} /\ "reload" \in flags'
          /\ pc' \in {"start", "recv", "waiting", "handle"} => pc' = pc
        BY <1>4 DEF SignalReload, Signal
    <2>2. /\ wanted' = disk
          /\ UNCHANGED <<queue, hasConfig, disk, read, late>>
        BY <1>4 DEF SignalReload
    <2>3. LoopTypeOK'
        BY <2>1, <2>2, SignalLoopAssumption
    <2>4. ReloadNotLost'
        BY <2>1, <2>2
    <2>5. LateBound' /\ NothingAtStart'
        BY <2>1, <2>2
    <2> QED
        BY <2>3, <2>4, <2>5
<1>5. CASE EditConfig
    <2>1. /\ disk' = disk + 1 /\ disk < MaxEdits
          /\ UNCHANGED <<pc, flags, queue, hasConfig, wanted, read, late>>
        BY <1>5 DEF EditConfig
    <2>2. LoopTypeOK'
        BY <2>1, SignalLoopAssumption
    <2>3. ReloadNotLost' /\ LateBound' /\ NothingAtStart'
        BY <2>1
    <2> QED
        BY <2>2, <2>3
<1>6. CASE Arrive
    BY <1>6, SignalLoopAssumption DEF Arrive
<1> QED
    BY <1>1, <1>2, <1>3, <1>4, <1>5, <1>6

\* The invariant is inductive.
LEMMA LoopNextInv == LoopIInv /\ [LoopNext]_loopVars => LoopIInv'
<1> SUFFICES ASSUME LoopIInv, [LoopNext]_loopVars PROVE LoopIInv'
    OBVIOUS
<1>1. CASE LoopNext
    BY <1>1, MainStepInv, EnvironmentInv DEF LoopNext
<1>2. CASE UNCHANGED loopVars
    BY <1>2 DEF loopVars, LoopIInv, LoopTypeOK, ReloadNotLost, LateBound, NothingAtStart, Running
<1> QED
    BY <1>1, <1>2

\* No order of signals and main-thread steps loses a reload (remove_reload, run).
THEOREM ReloadsAreNotLost == LoopSpec => []ReloadNotLost
<1>1. LoopIInv => ReloadNotLost
    BY DEF LoopIInv
<1> QED
    BY <1>1, LoopInitInv, LoopNextInv, PTL DEF LoopSpec

\* After the exit signal at most one datagram is handled (MasterServer::run).
THEOREM ExitStopsTheLoop == LoopSpec => []ExitStopsHandling
<1>1. LoopIInv => ExitStopsHandling
    BY DEF LoopIInv, LateBound, ExitStopsHandling
<1> QED
    BY <1>1, LoopInitInv, LoopNextInv, PTL DEF LoopSpec

-----------------------------------------------------------------------------
(* The configuration, for every file and command line                       *)

\* What is loaded is a file with all the settings, or the defaults.
WholeFiles ==
    /\ options \in CommandLines
    /\ file \in Files \cup {Broken}
    /\ loaded \subseteq Files \cup {DefaultFile}

\* What is in effect is f with the options over it.
Effective(f) ==
    /\ listen = [ip |-> InEffect("ip", f.ip), port |-> InEffect("port", f.port)]
    /\ stats = [format |-> InEffect("format", f.format),
                interval |-> InEffect("interval", f.interval)]
    /\ rest = f.rest

ConfigInv == WholeFiles /\ OneConfiguration

\* The options replace what they name, and nothing else.
LEMMA OverlayFacts ==
    ASSUME options \in CommandLines, NEW f \in Files \cup {DefaultFile}
    PROVE  /\ Overlay(f).level = InEffect("level", f.level)
           /\ Overlay(f).rest = f.rest
           /\ ListenOf(Overlay(f)) = [ip |-> InEffect("ip", f.ip),
                                      port |-> InEffect("port", f.port)]
           /\ StatsOf(Overlay(f)) = [format |-> InEffect("format", f.format),
                                     interval |-> InEffect("interval", f.interval)]
<1>1. \A s \in Overlaid \cup {"rest"} : Overlay(f)[s] = InEffect(s, f[s])
    BY NamesAssumption DEF Overlay, InEffect
<1>2. InEffect("rest", f.rest) = f.rest
    BY NamesAssumption DEF InEffect, Overlaid
<1> QED
    BY <1>1, <1>2 DEF ListenOf, StatsOf, Overlaid

\* A file is loaded, and perhaps applied.
LEMMA LoadFacts ==
    ASSUME WholeFiles, Load, UNCHANGED options
    PROVE  \E f \in Files \cup {DefaultFile} :
              /\ loaded' = loaded \cup {f}
              /\ level' = InEffect("level", f.level)'
              /\ Apply(Overlay(Source)) => Effective(f)'
<1>1. PICK f \in Files \cup {DefaultFile} : f = Source
    BY DEF WholeFiles, Load, Source
<1>2. loaded' = loaded \cup {f} /\ level' = Overlay(f).level
    BY <1>1 DEF Load
<1>3. \A s, value : InEffect(s, value)' = InEffect(s, value)
    BY DEF InEffect
<1>4. level' = InEffect("level", f.level)'
    BY <1>2, <1>3, OverlayFacts DEF WholeFiles
<1>5. ASSUME Apply(Overlay(Source))
      PROVE  Effective(f)'
    <2>1. listen' = ListenOf(Overlay(f)) /\ stats' = StatsOf(Overlay(f)) /\ rest' = Overlay(f).rest
        BY <1>1, <1>5 DEF Apply
    <2> QED
        BY <1>3, <2>1, OverlayFacts DEF Effective, WholeFiles
<1> QED
    BY <1>2, <1>4, <1>5

\* A load whose settings are then applied, or stay.
LEMMA LoadKeeps ==
    ASSUME ConfigInv, Load, UNCHANGED <<options, hasFile, file>>,
           \/ Apply(Overlay(Source))
           \/ life = "running" /\ UNCHANGED <<listen, stats, rest>>
    PROVE  ConfigInv'
<1>1. PICK f \in Files \cup {DefaultFile} :
              /\ loaded' = loaded \cup {f}
              /\ level' = InEffect("level", f.level)'
              /\ Apply(Overlay(Source)) => Effective(f)'
    BY LoadFacts DEF ConfigInv
<1>2. WholeFiles'
    BY <1>1 DEF ConfigInv, WholeFiles
<1>3. \E g \in loaded' : level' = InEffect("level", g.level)'
    BY <1>1
<1>4. \E g \in loaded' : Effective(g)'
    <2>1. CASE Apply(Overlay(Source))
        BY <1>1, <2>1
    <2>2. CASE life = "running" /\ UNCHANGED <<listen, stats, rest>>
        <3>1. PICK g \in loaded : Effective(g)
            BY <2>2 DEF ConfigInv, OneConfiguration, Effective
        <3>2. Effective(g)'
            BY <2>2, <3>1 DEF Effective, InEffect
        <3> QED
            BY <1>1, <3>2
    <2> QED
        BY <2>1, <2>2
<1> QED
    BY <1>2, <1>3, <1>4 DEF ConfigInv, OneConfiguration, Effective

\* A step that loads nothing and leaves the settings alone.
LEMMA ConfigStays ==
    ASSUME ConfigInv, UNCHANGED <<options, settings, loaded>>,
           life' = "running" => life = "running",
           file' \in Files \cup {Broken}
    PROVE  ConfigInv'
BY DEF ConfigInv, WholeFiles, OneConfiguration, InEffect, settings

\* The invariant is inductive.
LEMMA ConfigNextInv == ConfigInv /\ [ConfigNext]_configVars => ConfigInv'
<1> SUFFICES ASSUME ConfigInv, [ConfigNext]_configVars PROVE ConfigInv'
    OBVIOUS
<1>1. CASE Edit
    BY <1>1, ConfigStays DEF Edit
<1>2. CASE StartUp
    <2>1. CASE Load /\ Apply(Overlay(Source))
        BY <1>2, <2>1, LoadKeeps DEF StartUp
    <2>2. CASE Load /\ life' = "exited"
        <3>1. PICK f \in Files \cup {DefaultFile} : loaded' = loaded \cup {f}
            BY <1>2, <2>2, LoadFacts DEF StartUp, ConfigInv
        <3> QED
            BY <1>2, <2>2, <3>1 DEF StartUp, ConfigInv, WholeFiles, OneConfiguration
    <2>3. CASE life' = "exited" /\ UNCHANGED <<settings, loaded>>
        <3>1. file' \in Files \cup {Broken} /\ options' = options
            BY <1>2 DEF StartUp, ConfigInv, WholeFiles
        <3> QED
            BY <2>3, <3>1, ConfigStays
    <2> QED
        BY <1>2, <2>1, <2>2, <2>3 DEF StartUp
<1>3. CASE ReloadFile
    <2>1. CASE Load /\ (Apply(Overlay(Source)) \/ BindFails(Overlay(Source)))
        BY <1>3, <2>1, LoadKeeps DEF ReloadFile, BindFails
    <2>2. CASE UNCHANGED <<settings, loaded>>
        <3>1. file' \in Files \cup {Broken} /\ options' = options /\ life' = life
            BY <1>3 DEF ReloadFile, ConfigInv, WholeFiles
        <3> QED
            BY <2>2, <3>1, ConfigStays
    <2> QED
        BY <1>3, <2>1, <2>2 DEF ReloadFile
<1>4. CASE UNCHANGED configVars
    BY <1>4, ConfigStays DEF configVars, ConfigInv, WholeFiles
<1> QED
    BY <1>1, <1>2, <1>3, <1>4 DEF ConfigNext

\* After any edits, reloads and failures of either, what is in effect is one file with
\* the options over it (load_config, MasterServer::update_config).
THEOREM OneFileInEffect == ConfigSpec => []OneConfiguration
<1>1. ConfigInit => ConfigInv
    BY DEF ConfigInit, ConfigInv, WholeFiles, OneConfiguration
<1>2. ConfigInv => OneConfiguration
    BY DEF ConfigInv
<1> QED
    BY <1>1, <1>2, ConfigNextInv, PTL DEF ConfigSpec

-----------------------------------------------------------------------------
(* The administrators' tool, for every number of tools and every password   *)

\* A tool types only with a challenge, and a challenge was given before.
Challenged ==
    /\ issued \in Nat /\ adminEntry \in 0 .. issued
    /\ \A t \in Tools : answers[t] \subseteq 0 .. issued /\ pair[t] \in 0 .. issued
    /\ \A t \in Tools : toolStage[t] \in {"typing", "sent"} => pair[t] # 0

\* A command is what its tool typed, with the challenge it was given.
Honest(c) ==
    /\ c.by \in Tools /\ toolStage[c.by] = "sent"
    /\ c.challenge = pair[c.by]
    /\ c.hash = Hash(typed[c.by], pair[c.by])
    /\ typed[c.by] # <<>>

Stages == {"start", "waiting", "error", "typing", "no_password", "sent"}

AdminTypes ==
    /\ toolStage \in [Tools -> Stages]
    /\ DOMAIN typed = Tools /\ DOMAIN pair = Tools /\ DOMAIN answers = Tools
    /\ ran \in [Tools -> Nat]

\* A command that ran took its challenge with it.
Spent == \A t \in Tools : ran[t] # 0 => toolStage[t] = "sent" /\ adminEntry # pair[t]

AdminInv ==
    /\ AdminTypes /\ Challenged /\ Spent /\ PasswordDecides
    /\ \A c \in commands : Honest(c)

\* What a step of one tool may do to the tools.
OtherTools(t) ==
    \A u \in Tools \ {t} : /\ toolStage'[u] = toolStage[u]
                           /\ typed'[u] = typed[u] /\ pair'[u] = pair[u]

\* A step before the password is sent disturbs no command.
LEMMA ToolKeeps ==
    ASSUME AdminInv, NEW t \in Tools, OtherTools(t), toolStage[t] # "sent",
           UNCHANGED <<answers, masterVars>>,
           DOMAIN typed' = Tools, DOMAIN pair' = Tools,
           toolStage' \in [Tools -> Stages],
           pair'[t] \in 0 .. issued,
           toolStage'[t] \in {"typing", "sent"} => pair'[t] # 0,
           \A c \in commands' : c \in commands \/ (c.by = t /\ Honest(c)')
    PROVE  AdminInv'
<1>1. AdminTypes'
    BY DEF AdminInv, AdminTypes, masterVars
<1>2. Challenged'
    BY DEF AdminInv, Challenged, OtherTools, masterVars
<1>3. Spent'
    BY DEF AdminInv, Spent, OtherTools, masterVars
<1>4. \A c \in commands' : Honest(c)'
    BY DEF AdminInv, Honest, OtherTools
<1>5. \A u \in Tools : ran'[u] <= 1 /\ (ran'[u] = 1 => typed'[u] = RightPassword)
    BY DEF AdminInv, Spent, PasswordDecides, OtherTools, masterVars
<1>6. locked' => \E u \in Tools :
            toolStage'[u] = "sent" /\ typed'[u] \notin {<<>>, RightPassword}
    BY DEF AdminInv, PasswordDecides, OtherTools, masterVars
<1> QED
    BY <1>1, <1>2, <1>3, <1>4, <1>5, <1>6 DEF AdminInv, PasswordDecides

\* A step of the master server or of the network leaves the tools and the commands.
LEMMA MasterKeeps ==
    ASSUME AdminInv, UNCHANGED <<toolVars, commands>>,
           AdminTypes', Challenged', Spent', PasswordDecides'
    PROVE  AdminInv'
BY DEF AdminInv, Honest, toolVars

LEMMA RunCommandKeeps ==
    ASSUME AdminInv, NEW c \in commands, RunCommand(c)
    PROVE  AdminInv'
<1> DEFINE t == c.by
<1>1. /\ t \in Tools /\ toolStage[t] = "sent" /\ typed[t] # <<>>
      /\ pair[t] = adminEntry /\ c.hash = Hash(typed[t], pair[t]) /\ adminEntry # 0
    BY DEF AdminInv, Honest, RunCommand
<1>2. UNCHANGED <<toolStage, typed, pair, answers, commands, issued>>
    BY DEF RunCommand, toolVars
<1> HIDE DEF t
<1>3. CASE c.hash = Hash(RightPassword, adminEntry)
    <2>1. /\ ran' = [ran EXCEPT ![t] = @ + 1] /\ adminEntry' = 0 /\ locked' = locked
        BY <1>3 DEF RunCommand, Used, t
    <2>2. ran[t] = 0 /\ typed[t] = RightPassword
        <3>1. Hash(typed[t], pair[t]).password = typed[t] /\
              Hash(RightPassword, adminEntry).password = RightPassword
            BY DEF Hash
        <3>2. ran[t] = 0
            BY <1>1 DEF AdminInv, Spent
        <3> QED
            BY <1>1, <1>3, <3>1, <3>2
    <2>3. ran' \in [Tools -> Nat] /\ ran'[t] = 1 /\ \A u \in Tools \ {t} : ran'[u] = ran[u]
        BY <1>1, <2>1, <2>2 DEF AdminInv, AdminTypes
    <2>4. AdminTypes'
        BY <1>2, <2>3 DEF AdminInv, AdminTypes
    <2>5. Challenged'
        BY <1>2, <2>1 DEF AdminInv, Challenged
    <2>6. Spent'
        BY <1>1, <1>2, <2>1, <2>3 DEF AdminInv, Spent, Challenged
    <2>7. PasswordDecides'
        BY <1>2, <2>1, <2>2, <2>3 DEF AdminInv, PasswordDecides
    <2> QED
        BY <1>2, <2>4, <2>5, <2>6, <2>7, MasterKeeps DEF toolVars
<1>4. CASE c.hash # Hash(RightPassword, adminEntry)
    <2>1. locked' /\ UNCHANGED <<ran, adminEntry>>
        BY <1>4 DEF RunCommand
    <2>2. typed[t] \notin {<<>>, RightPassword}
        BY <1>1, <1>4
    <2>3. PasswordDecides'
        BY <1>1, <1>2, <2>1, <2>2 DEF AdminInv, PasswordDecides
    <2>4. AdminTypes' /\ Challenged' /\ Spent'
        BY <1>2, <2>1 DEF AdminInv, AdminTypes, Challenged, Spent
    <2> QED
        BY <1>2, <2>3, <2>4, MasterKeeps DEF toolVars
<1> QED
    BY <1>3, <1>4

LEMMA ToolStepKeeps ==
    ASSUME AdminInv, NEW t \in Tools,
           AskChallenge(t) \/ ReceiveChallenge(t) \/ Key(t) \/ EndPassword(t)
    PROVE  AdminInv'
<1> USE DEF masterVars, Stages
<1>0. /\ toolStage \in [Tools -> Stages]
      /\ DOMAIN typed = Tools /\ DOMAIN pair = Tools
      /\ pair[t] \in 0 .. issued /\ answers[t] \subseteq 0 .. issued
    BY DEF AdminInv, AdminTypes, Challenged
<1>1. CASE AskChallenge(t)
    <2>1. /\ toolStage' = [toolStage EXCEPT ![t] = "waiting"] /\ toolStage[t] = "start"
          /\ UNCHANGED <<typed, pair, answers, commands, masterVars>>
        BY <1>1 DEF AskChallenge
    <2>2. /\ toolStage' \in [Tools -> Stages] /\ OtherTools(t)
          /\ toolStage'[t] \notin {"typing", "sent"} /\ toolStage[t] # "sent"
        BY <1>0, <2>1 DEF OtherTools
    <2> QED
        BY <1>0, <2>1, <2>2, ToolKeeps
<1>2. CASE ReceiveChallenge(t)
    <2>1. PICK a \in answers[t] :
              /\ toolStage' = [toolStage EXCEPT ![t] = IF a = 0 THEN "error" ELSE "typing"]
              /\ pair' = [pair EXCEPT ![t] = a]
        BY <1>2 DEF ReceiveChallenge
    <2>2. toolStage[t] = "waiting" /\ UNCHANGED <<typed, answers, commands, masterVars>>
        BY <1>2 DEF ReceiveChallenge
    <2>3. /\ toolStage' \in [Tools -> Stages] /\ DOMAIN pair' = Tools
          /\ pair'[t] = a /\ a \in 0 .. issued
          /\ toolStage'[t] \in {"typing", "sent"} => a # 0
        <3>1. a \in 0 .. issued /\ pair'[t] = a /\ DOMAIN pair' = Tools
            BY <1>0, <2>1
        <3>2. CASE a = 0
            BY <1>0, <2>1, <3>1, <3>2
        <3>3. CASE a # 0
            BY <1>0, <2>1, <3>1, <3>3
        <3> QED
            BY <3>2, <3>3
    <2>4. OtherTools(t)
        BY <1>0, <2>1, <2>2 DEF OtherTools
    <2> QED
        BY <1>0, <2>2, <2>3, <2>4, ToolKeeps
<1>3. CASE Key(t)
    <2>1. /\ toolStage[t] = "typing"
          /\ UNCHANGED <<toolStage, pair, answers, commands, masterVars>>
        BY <1>3 DEF Key
    <2>2. DOMAIN typed' = Tools /\ \A u \in Tools \ {t} : typed'[u] = typed[u]
        <3>1. \E new : typed' = [typed EXCEPT ![t] = new]
            BY <1>3 DEF Key
        <3> QED
            BY <1>0, <3>1
    <2>3. pair[t] # 0
        BY <2>1 DEF AdminInv, Challenged
    <2> QED
        BY <1>0, <2>1, <2>2, <2>3, ToolKeeps DEF OtherTools
<1>4. CASE EndPassword(t)
    <2>1. /\ toolStage[t] = "typing" /\ UNCHANGED <<typed, pair, answers, masterVars>>
        BY <1>4 DEF EndPassword
    <2>2. pair[t] # 0
        BY <2>1 DEF AdminInv, Challenged
    <2>3. \/ toolStage' = [toolStage EXCEPT ![t] = "sent"]
          \/ toolStage' = [toolStage EXCEPT ![t] = "no_password"]
        BY <1>4 DEF EndPassword
    <2>4. toolStage' \in [Tools -> Stages] /\ OtherTools(t)
        BY <1>0, <2>1, <2>3 DEF OtherTools
    <2>5. ASSUME NEW c \in commands', c \notin commands
          PROVE  c.by = t /\ Honest(c)'
        <3>1. /\ typed[t] # <<>> /\ toolStage'[t] = "sent"
              /\ c = [by |-> t, challenge |-> pair[t], hash |-> Hash(typed[t], pair[t])]
            BY <1>0, <1>4, <2>5 DEF EndPassword, HasPassword
        <3>2. c.by = t /\ c.challenge = pair[t] /\ c.hash = Hash(typed[t], pair[t])
            BY <3>1
        <3> QED
            BY <2>1, <3>1, <3>2 DEF Honest, Hash
    <2> QED
        BY <1>0, <2>1, <2>2, <2>4, <2>5, ToolKeeps
<1> QED
    BY <1>1, <1>2, <1>3, <1>4

LEMMA NetworkStepKeeps ==
    ASSUME AdminInv, (\E t \in Tools : GiveChallenge(t) \/ Stray(t)) \/ TimePasses
    PROVE  AdminInv'
<1>1. ASSUME NEW t \in Tools, GiveChallenge(t)
      PROVE  AdminInv'
    <2>1. /\ issued' = issued + 1 /\ adminEntry' = issued + 1
          /\ answers' = [answers EXCEPT ![t] = @ \cup {issued + 1}]
          /\ UNCHANGED <<toolStage, typed, pair, commands, locked, ran>>
        BY <1>1 DEF GiveChallenge, toolVars
    <2>2. AdminTypes'
        BY <2>1 DEF AdminInv, AdminTypes
    <2>3. Challenged'
        BY <2>1 DEF AdminInv, Challenged, AdminTypes
    <2>4. Spent'
        BY <2>1 DEF AdminInv, Challenged, Spent
    <2>5. PasswordDecides'
        BY <2>1 DEF AdminInv, PasswordDecides
    <2> QED
        BY <2>1, <2>2, <2>3, <2>4, <2>5, MasterKeeps DEF toolVars
<1>2. ASSUME NEW t \in Tools, Stray(t)
      PROVE  AdminInv'
    <2>1. /\ answers' = [answers EXCEPT ![t] = @ \cup {0}]
          /\ UNCHANGED <<toolStage, typed, pair, commands, issued, adminEntry, locked, ran>>
        BY <1>2 DEF Stray, toolVars, masterVars
    <2>2. AdminTypes' /\ Spent' /\ PasswordDecides'
        BY <2>1 DEF AdminInv, AdminTypes, Spent, PasswordDecides
    <2>3. Challenged'
        BY <2>1 DEF AdminInv, Challenged, AdminTypes
    <2> QED
        BY <2>1, <2>2, <2>3, MasterKeeps DEF toolVars
<1>3. CASE TimePasses
    <2>1. /\ UNCHANGED <<toolStage, typed, pair, answers, commands, issued, ran>>
          /\ adminEntry' \in {0, adminEntry} /\ (locked' => locked)
        BY <1>3 DEF TimePasses, toolVars
    <2>2. AdminTypes' /\ Challenged' /\ PasswordDecides'
        BY <2>1 DEF AdminInv, AdminTypes, Challenged, PasswordDecides
    <2>3. Spent'
        BY <2>1 DEF AdminInv, Challenged, Spent
    <2> QED
        BY <2>1, <2>2, <2>3, MasterKeeps DEF toolVars
<1> QED
    BY <1>1, <1>2, <1>3

\* The invariant is inductive.
LEMMA AdminNextInv == AdminInv /\ [AdminToolNext]_adminToolVars => AdminInv'
<1> SUFFICES ASSUME AdminInv, [AdminToolNext]_adminToolVars PROVE AdminInv'
    OBVIOUS
<1>1. CASE AdminToolNext
    BY <1>1, ToolStepKeeps, NetworkStepKeeps, RunCommandKeeps DEF AdminToolNext
<1>2. CASE UNCHANGED adminToolVars
    BY <1>2 DEF adminToolVars, toolVars, masterVars, AdminInv, AdminTypes, Challenged,
                Spent, PasswordDecides, Honest
<1> QED
    BY <1>1, <1>2

\* A command runs once at most, for the right password, and only a wrong one locks the
\* address (send_command, MasterServer::handle_admin_command).
THEOREM PasswordDecidesAlways == AdminToolSpec => []PasswordDecides
<1>1. ASSUME AdminToolInit PROVE AdminInv
    <2>1. AdminTypes
        BY <1>1 DEF AdminToolInit, AdminTypes, Stages
    <2>2. Challenged /\ Spent /\ PasswordDecides
        BY <1>1 DEF AdminToolInit, Challenged, Spent, PasswordDecides
    <2>3. commands = {}
        BY <1>1 DEF AdminToolInit
    <2> QED
        BY <2>1, <2>2, <2>3 DEF AdminInv
<1>2. AdminInv => PasswordDecides
    BY DEF AdminInv
<1> QED
    BY <1>1, <1>2, AdminNextInv, PTL DEF AdminToolSpec

-----------------------------------------------------------------------------
(* The statistics: the main thread counts, the statistics thread prints     *)

\* What clear() and print() go through.
LEMMA CellsFacts ==
    /\ Len(Cells) = 5
    /\ \A at \in 1 .. 5 : Cells[at] \in Requests \cup {"servers"}
    /\ \A k \in Requests : \E at \in 1 .. 5 : Cells[at] = k
    /\ \A at \in 1 .. 5 : \A i \in 1 .. 5 : Cells[at] = Cells[i] => at = i
    /\ "servers" \notin Requests
<1>1. Len(Cells) = 5 /\ "servers" \notin Requests
    BY DEF Cells, Requests
<1>2. /\ Cells[1] = "servers" /\ Cells[2] = "server_add" /\ Cells[3] = "server_del"
      /\ Cells[4] = "query_servers" /\ Cells[5] = "errors"
    BY DEF Cells
<1>3. \A at \in 1 .. 5 : at = 1 \/ at = 2 \/ at = 3 \/ at = 4 \/ at = 5
    OBVIOUS
<1>4. \A at \in 1 .. 5 : Cells[at] \in Requests \cup {"servers"}
    BY <1>2, <1>3 DEF Requests
<1>5. \A k \in Requests : \E at \in 1 .. 5 : Cells[at] = k
    BY <1>2 DEF Requests
<1>6. \A at \in 1 .. 5 : \A i \in 1 .. 5 : Cells[at] = Cells[i] => at = i
    BY <1>2, <1>3
<1> QED
    BY <1>1, <1>4, <1>5, <1>6

-----------------------------------------------------------------------------
(* The inductive invariant                                                 *)

\* A loop over the counters is at one of them.
LoopsInRange ==
    /\ main.pc = "clear" => main.at \in 1 .. 5
    /\ main.pc \in {"clear", "update"} => main.interval \in Intervals
    /\ thread.pc \in {"clear", "print"} => thread.at \in 1 .. 5

\* print() has taken nothing before it runs, and nothing yet from the counters that
\* are left.
TakenSoFar ==
    /\ thread.pc \notin {"print", "log"} => \A k \in Requests : taken[k] = 0
    /\ thread.pc = "print" =>
          \A i \in thread.at .. 5 : Cells[i] \in Requests => taken[Cells[i]] = 0

\* The interval the thread will know when it has received everything.
LastSent == IF channel = <<>> THEN config ELSE channel[Len(channel)]

\* The main thread and the thread agree on it, and the thread waits for an interval
\* only when it has one.
Agreement ==
    /\ enabled = (LastSent # 0)
    /\ thread.pc = "wait" => config # 0

\* A request of the time before a switch off waits for a clear() that must come.
StaleIsCleared ==
    \A k \in Requests : stale[k] # 0 =>
        \/ \E i \in 1 .. Len(channel) : channel[i] = 0
        \/ config = 0
        \/ thread.pc = "clear" /\ \E i \in thread.at .. 5 : Cells[i] = k

IInv ==
    /\ TypeOK /\ LoopsInRange /\ TakenSoFar
    /\ RequestsPrintedOnce /\ Agreement /\ StaleIsCleared

-----------------------------------------------------------------------------

LEMMA InitIInv == Init => IInv
<1> SUFFICES ASSUME Init PROVE IInv
    OBVIOUS
<1> USE StatisticsAssumption DEF Init
<1>1. TypeOK
    BY CellsFacts DEF TypeOK, Idle, NothingTaken
<1>2. LoopsInRange
    BY DEF LoopsInRange, Idle
<1>3. TakenSoFar /\ RequestsPrintedOnce /\ StaleIsCleared
    BY DEF TakenSoFar, RequestsPrintedOnce, StaleIsCleared, NothingTaken
<1>4. Agreement
    BY DEF Agreement, LastSent
<1> QED
    BY <1>1, <1>2, <1>3, <1>4 DEF IInv

-----------------------------------------------------------------------------
(* The two operations on the counters that both threads have a share in    *)

\* A request that is counted is in its counter, and not stale.
LEMMA FetchAddKeeps ==
    ASSUME TypeOK, RequestsPrintedOnce, NEW k \in Requests, FetchAdd(k), UNCHANGED taken
    PROVE  /\ counters' \in [Requests \cup {"servers"} -> Nat]
           /\ balance' \in [Requests -> Nat]
           /\ RequestsPrintedOnce'
<1>1. /\ counters' = [counters EXCEPT ![k] = @ + 1]
      /\ balance' = [balance EXCEPT ![k] = @ + 1]
      /\ taken' = taken
    BY DEF FetchAdd
<1>2. /\ counters \in [Requests \cup {"servers"} -> Nat]
      /\ taken \in [Requests \cup {"servers"} -> Nat]
      /\ balance \in [Requests -> Nat]
    BY DEF TypeOK
<1>3. /\ counters' \in [Requests \cup {"servers"} -> Nat]
      /\ balance' \in [Requests -> Nat]
    BY <1>1, <1>2
<1>4. ASSUME NEW j \in Requests
      PROVE  balance'[j] = counters'[j] + taken'[j]
    BY <1>1, <1>2 DEF RequestsPrintedOnce
<1> QED
    BY <1>3, <1>4 DEF RequestsPrintedOnce

\* Storing a zero drops what was counted, the stale requests with it.
LEMMA StoreZeroKeeps ==
    ASSUME TypeOK, RequestsPrintedOnce, NEW at \in 1 .. 5, StoreZero(at), UNCHANGED taken
    PROVE  /\ counters' \in [Requests \cup {"servers"} -> Nat]
           /\ balance' \in [Requests -> Nat]
           /\ stale' \in [Requests -> Nat]
           /\ RequestsPrintedOnce'
           /\ \A k \in Requests : stale'[k] # 0 => stale[k] # 0 /\ Cells[at] # k
<1> DEFINE c == Cells[at]
<1>1. c \in Requests \cup {"servers"}
    BY CellsFacts
<1>2. CASE c \in Requests
    <2>1. /\ counters' = [counters EXCEPT ![c] = 0]
          /\ balance' = [balance EXCEPT ![c] = @ - counters[c]]
          /\ stale' = [stale EXCEPT ![c] = 0]
        BY <1>2 DEF StoreZero
    <2>2. balance[c] - counters[c] = taken[c] /\ taken[c] \in Nat
        BY <1>2 DEF TypeOK, RequestsPrintedOnce
    <2>3. /\ counters \in [Requests \cup {"servers"} -> Nat]
          /\ balance \in [Requests -> Nat] /\ stale \in [Requests -> Nat]
          /\ \A k \in Requests : balance[k] = counters[k] + taken[k]
        BY DEF TypeOK, RequestsPrintedOnce
    <2> HIDE DEF c
    <2>4. /\ counters' \in [Requests \cup {"servers"} -> Nat]
          /\ balance' \in [Requests -> Nat] /\ stale' \in [Requests -> Nat]
        BY <1>2, <2>1, <2>2, <2>3
    <2>5. \A k \in Requests : balance'[k] = counters'[k] + taken[k]
        BY <1>2, <2>1, <2>2, <2>3
    <2>6. \A k \in Requests : stale'[k] # 0 => stale[k] # 0 /\ c # k
        BY <1>2, <2>1, <2>3
    <2> QED
        BY <2>4, <2>5, <2>6 DEF RequestsPrintedOnce, c
<1>3. CASE c = "servers"
    <2>1. /\ counters' = [counters EXCEPT !["servers"] = 0]
          /\ UNCHANGED <<balance, stale>>
        BY <1>3, CellsFacts DEF StoreZero
    <2>2. /\ counters' \in [Requests \cup {"servers"} -> Nat]
          /\ balance' \in [Requests -> Nat] /\ stale' \in [Requests -> Nat]
        BY <2>1 DEF TypeOK
    <2>3. \A k \in Requests : k # "servers" /\ k # c /\ counters'[k] = counters[k]
        BY <1>3, <2>1, CellsFacts DEF TypeOK
    <2>4. RequestsPrintedOnce'
        BY <2>1, <2>3 DEF RequestsPrintedOnce
    <2> HIDE DEF c
    <2>5. \A k \in Requests : stale'[k] # 0 => stale[k] # 0 /\ c # k
        BY <2>1, <2>3
    <2> QED
        BY <2>2, <2>4, <2>5 DEF c
<1> QED
    BY <1>1, <1>2, <1>3

-----------------------------------------------------------------------------
(* The steps of the main thread                                            *)

\* A step that leaves the channel and the thread alone keeps what they agree on.
LEMMA AgreementKept ==
    ASSUME Agreement, UNCHANGED <<enabled, channel, config>>, thread'.pc = "wait" => thread.pc = "wait"
    PROVE  Agreement'
BY DEF Agreement, LastSent

\* Counting, and everything else that leaves stale and the clearing alone.
LEMMA StaleKept ==
    ASSUME StaleIsCleared, UNCHANGED <<channel, config, thread, stale>>
    PROVE  StaleIsCleared'
BY DEF StaleIsCleared

LEMMA OnRequestInv ==
    ASSUME IInv, NEW k \in Requests, OnRequest(k)
    PROVE  IInv'
<1>1. TypeOK' /\ RequestsPrintedOnce'
    BY FetchAddKeeps DEF IInv, OnRequest, mainVars, threadVars, TypeOK
<1>2. LoopsInRange' /\ TakenSoFar'
    BY DEF IInv, OnRequest, mainVars, threadVars, LoopsInRange, TakenSoFar
<1>3. Agreement' /\ StaleIsCleared'
    BY AgreementKept, StaleKept DEF IInv, OnRequest, mainVars, threadVars
<1> QED
    BY <1>1, <1>2, <1>3 DEF IInv

LEMMA OnServerAddInv ==
    ASSUME IInv, OnServerAdd
    PROVE  IInv'
<1>1. /\ len' \in Nat /\ main'.pc = "count"
      /\ main' \in [pc : {"idle", "count", "clear", "update"},
                    at : 0 .. Len(Cells), interval : Intervals \cup {0}]
    <2>1. len' \in Nat
        BY DEF IInv, OnServerAdd, TypeOK
    <2>2. /\ main \in [pc : {"idle", "count", "clear", "update"},
                       at : 0 .. Len(Cells), interval : Intervals \cup {0}]
          /\ main' = [main EXCEPT !.pc = "count"]
        BY DEF IInv, OnServerAdd, TypeOK
    <2> QED
        BY <2>1, <2>2
<1>2. /\ counters' \in [Requests \cup {"servers"} -> Nat] /\ balance' \in [Requests -> Nat]
      /\ RequestsPrintedOnce'
    <2>1. CASE enabled
        <3>1. "server_add" \in Requests
            BY DEF Requests
        <3> QED
            BY <2>1, <3>1, FetchAddKeeps DEF IInv, OnServerAdd, threadVars
    <2>2. CASE ~enabled
        BY <2>2 DEF IInv, OnServerAdd, threadVars, TypeOK, RequestsPrintedOnce
    <2> QED
        BY <2>1, <2>2
<1>3. TypeOK'
    BY <1>1, <1>2 DEF IInv, OnServerAdd, threadVars, TypeOK
<1>4. LoopsInRange' /\ TakenSoFar'
    BY <1>1 DEF IInv, OnServerAdd, threadVars, LoopsInRange, TakenSoFar
<1>5. Agreement' /\ StaleIsCleared'
    BY AgreementKept, StaleKept DEF IInv, OnServerAdd, threadVars
<1> QED
    BY <1>2, <1>3, <1>4, <1>5 DEF IInv

\* The gauge, the list and the call that is under way are not what the rest is about.
LEMMA ServersCountInv ==
    ASSUME IInv, ServersCount \/ Ban \/ Drop \/ \E i \in Intervals : Reload(i)
    PROVE  IInv'
<1> USE DEF IInv, threadVars, history
<1>1. CASE ServersCount
    <2>1. counters' \in [Requests \cup {"servers"} -> Nat] /\ \A k \in Requests : counters'[k] = counters[k]
        BY <1>1, CellsFacts DEF ServersCount, TypeOK
    <2>2. TypeOK' /\ LoopsInRange'
        <3>1. main' = Idle /\ thread' = thread
            BY <1>1 DEF ServersCount
        <3>2. LoopsInRange'
            BY <3>1 DEF LoopsInRange, Idle
        <3>3. main' \in [pc : {"idle", "count", "clear", "update"},
                          at : 0 .. Len(Cells), interval : Intervals \cup {0}]
            BY <3>1, CellsFacts DEF Idle
        <3>4. TypeOK'
            BY <1>1, <2>1, <3>3 DEF ServersCount, TypeOK
        <3> QED
            BY <3>2, <3>4
    <2>3. TakenSoFar' /\ RequestsPrintedOnce'
        BY <1>1, <2>1 DEF ServersCount, TakenSoFar, RequestsPrintedOnce
    <2>4. Agreement' /\ StaleIsCleared'
        BY <1>1, AgreementKept, StaleKept DEF ServersCount
    <2> QED
        BY <2>2, <2>3, <2>4
<1>2. CASE Ban
    <2>1. TypeOK' /\ LoopsInRange' /\ TakenSoFar' /\ RequestsPrintedOnce'
        BY <1>2 DEF Ban, TypeOK, LoopsInRange, TakenSoFar, RequestsPrintedOnce
    <2>2. Agreement' /\ StaleIsCleared'
        BY <1>2, AgreementKept, StaleKept DEF Ban
    <2> QED
        BY <2>1, <2>2
<1>3. CASE Drop
    <2>1. TypeOK' /\ LoopsInRange' /\ TakenSoFar' /\ RequestsPrintedOnce'
        BY <1>3 DEF Drop, TypeOK, LoopsInRange, TakenSoFar, RequestsPrintedOnce
    <2>2. Agreement' /\ StaleIsCleared'
        BY <1>3, AgreementKept, StaleKept DEF Drop
    <2> QED
        BY <2>1, <2>2
<1>4. ASSUME NEW i \in Intervals, Reload(i)
      PROVE  IInv'
    <2>1. TypeOK'
        <3>1. updates' \in Nat /\ len' \in Nat
            BY <1>4 DEF Reload, TypeOK
        <3>2. main' \in [pc : {"idle", "count", "clear", "update"},
                         at : 0 .. Len(Cells), interval : Intervals \cup {0}]
            BY <1>4, CellsFacts DEF Reload
        <3> QED
            BY <1>4, <3>1, <3>2 DEF Reload, TypeOK
    <2>2. LoopsInRange' /\ TakenSoFar' /\ RequestsPrintedOnce'
        BY <1>4 DEF Reload, LoopsInRange, TakenSoFar, RequestsPrintedOnce
    <2>3. Agreement' /\ StaleIsCleared'
        BY <1>4, AgreementKept, StaleKept DEF Reload
    <2> QED
        BY <2>1, <2>2, <2>3
<1> QED
    BY <1>1, <1>2, <1>3, <1>4

LEMMA MainClearInv ==
    ASSUME IInv, MainClear
    PROVE  IInv'
<1>1. main.at \in 1 .. 5
    BY DEF IInv, MainClear, LoopsInRange
<1>2. /\ counters' \in [Requests \cup {"servers"} -> Nat]
      /\ balance' \in [Requests -> Nat] /\ stale' \in [Requests -> Nat]
      /\ RequestsPrintedOnce'
      /\ \A k \in Requests : stale'[k] # 0 => stale[k] # 0
    BY <1>1, StoreZeroKeeps DEF IInv, MainClear, threadVars
<1>3. /\ main' \in [pc : {"idle", "count", "clear", "update"},
                    at : 0 .. Len(Cells), interval : Intervals \cup {0}]
      /\ main'.pc = "clear" => main'.at \in 1 .. 5
      /\ main'.pc \in {"clear", "update"} => main'.interval \in Intervals
    <2>1. /\ main \in [pc : {"idle", "count", "clear", "update"},
                       at : 0 .. 5, interval : Intervals \cup {0}]
          /\ main.pc = "clear" /\ main.interval \in Intervals
        BY CellsFacts DEF IInv, MainClear, TypeOK, LoopsInRange
    <2>2. CASE main.at < 5
        <3>1. main' = [main EXCEPT !.at = @ + 1] /\ main.at + 1 \in 1 .. 5
            BY <1>1, <2>2, CellsFacts DEF MainClear
        <3> QED
            BY <2>1, <3>1, CellsFacts
    <2>3. CASE ~(main.at < 5)
        <3>1. main' = [main EXCEPT !.pc = "update"]
            BY <2>3, CellsFacts DEF MainClear
        <3> QED
            BY <2>1, <3>1, CellsFacts
    <2> QED
        BY <2>2, <2>3
<1>4. TypeOK'
    BY <1>2, <1>3 DEF IInv, MainClear, threadVars, TypeOK
<1>5. LoopsInRange' /\ TakenSoFar'
    BY <1>3 DEF IInv, MainClear, threadVars, LoopsInRange, TakenSoFar
<1>6. Agreement'
    BY AgreementKept DEF IInv, MainClear, threadVars
<1>7. StaleIsCleared'
    <2>1. UNCHANGED <<channel, config, thread>> /\ StaleIsCleared
        BY DEF IInv, MainClear, threadVars
    <2> QED
        BY <1>2, <2>1 DEF StaleIsCleared
<1> QED
    BY <1>2, <1>4, <1>5, <1>6, <1>7 DEF IInv

\* What is stale after a switch off is followed by a zero in the channel.
LEMMA UpdateConfigInv ==
    ASSUME IInv, UpdateConfig
    PROVE  IInv'
<1>1. main.interval \in Intervals /\ channel \in Seq(Intervals)
    BY DEF IInv, UpdateConfig, LoopsInRange, TypeOK
<1>2. /\ channel' = Append(channel, main.interval) /\ channel' \in Seq(Intervals)
      /\ Len(channel') = Len(channel) + 1 /\ Len(channel) \in Nat
      /\ channel'[Len(channel')] = main.interval
      /\ \A i \in 1 .. Len(channel) : channel'[i] = channel[i]
    BY <1>1 DEF UpdateConfig
<1>3. stale' \in [Requests -> Nat]
    BY DEF IInv, UpdateConfig, TypeOK
<1>4. TypeOK' /\ LoopsInRange'
    <2>1. /\ enabled' \in BOOLEAN /\ main' = Idle
          /\ UNCHANGED <<connected, updates, len, counters, thread, config, elapsed, taken, balance>>
        BY DEF UpdateConfig, threadVars
    <2>2. main' \in [pc : {"idle", "count", "clear", "update"},
                     at : 0 .. Len(Cells), interval : Intervals \cup {0}]
        BY <2>1, CellsFacts DEF Idle
    <2>3. TypeOK'
        BY <1>2, <1>3, <2>1, <2>2 DEF IInv, TypeOK
    <2> QED
        BY <2>1, <2>3 DEF IInv, LoopsInRange, Idle
<1>5. TakenSoFar' /\ RequestsPrintedOnce'
    BY DEF IInv, UpdateConfig, threadVars, TakenSoFar, RequestsPrintedOnce
<1>6. Agreement'
    <2>1. channel' # <<>>
        BY <1>2
    <2> QED
        BY <1>2, <2>1 DEF IInv, UpdateConfig, threadVars, Agreement, LastSent
<1>7. StaleIsCleared'
    <2>1. UNCHANGED <<config, thread>> /\ StaleIsCleared
        BY DEF IInv, UpdateConfig, threadVars
    <2>2. CASE main.interval = 0
        <3>1. \E i \in 1 .. Len(channel') : channel'[i] = 0
            BY <1>2, <2>2
        <3> QED
            BY <3>1 DEF StaleIsCleared
    <2>3. CASE main.interval # 0
        <3>1. stale' = stale
            BY <2>3 DEF UpdateConfig
        <3>2. (\E i \in 1 .. Len(channel) : channel[i] = 0)
                => \E i \in 1 .. Len(channel') : channel'[i] = 0
            BY <1>2
        <3> QED
            BY <2>1, <3>1, <3>2 DEF StaleIsCleared
    <2> QED
        BY <2>2, <2>3
<1> QED
    BY <1>4, <1>5, <1>6, <1>7 DEF IInv

-----------------------------------------------------------------------------
(* The steps of the printing thread                                        *)

\* Taking a message off the channel does not change what was sent last, and a zero
\* among the messages is then the one the thread knows, or still among them.
LEMMA NextConfigKeeps ==
    ASSUME TypeOK, NextConfig
    PROVE  /\ config' \in Intervals /\ channel' \in Seq(Intervals)
           /\ LastSent' = LastSent
           /\ (\E i \in 1 .. Len(channel) : channel[i] = 0)
                => config' = 0 \/ \E i \in 1 .. Len(channel') : channel'[i] = 0
<1>1. channel \in Seq(Intervals) /\ channel # <<>>
    BY DEF TypeOK, NextConfig
<1>2. Len(channel) \in Nat /\ Len(channel) >= 1
    BY <1>1
<1>3. /\ config' = channel[1] /\ config' \in Intervals
      /\ channel' \in Seq(Intervals) /\ Len(channel') = Len(channel) - 1
      /\ \A i \in 1 .. Len(channel) - 1 : channel'[i] = channel[i + 1]
    BY <1>1, <1>2 DEF NextConfig
<1>4. LastSent' = LastSent
    <2>1. CASE Len(channel) = 1
        <3>1. channel' = <<>>
            BY <1>3, <2>1
        <3> QED
            BY <1>1, <1>3, <2>1, <3>1 DEF LastSent
    <2>2. CASE Len(channel) > 1
        <3>1. channel' # <<>> /\ channel'[Len(channel')] = channel[Len(channel)]
            BY <1>2, <1>3, <2>2
        <3> QED
            BY <1>1, <3>1 DEF LastSent
    <2> QED
        BY <1>2, <2>1, <2>2
<1>5. ASSUME NEW i \in 1 .. Len(channel), channel[i] = 0
      PROVE  config' = 0 \/ \E j \in 1 .. Len(channel') : channel'[j] = 0
    <2>1. CASE i = 1
        BY <1>3, <1>5, <2>1
    <2>2. CASE i # 1
        <3>1. i - 1 \in 1 .. Len(channel') /\ channel'[i - 1] = 0
            BY <1>2, <1>3, <1>5, <2>2
        <3> QED
            BY <3>1
    <2> QED
        BY <2>1, <2>2
<1> QED
    BY <1>3, <1>4, <1>5

\* At(place) leaves the thread well-formed.
LEMMA AtKeeps ==
    ASSUME NEW place \in {"loop", "recv", "clear", "wait", "print", "log", "panicked"}, At(place)
    PROVE  /\ thread' \in [pc : {"loop", "recv", "clear", "wait", "print", "log", "panicked"},
                           at : 0 .. Len(Cells)]
           /\ thread'.pc = place /\ thread'.at = 1
BY CellsFacts DEF At

\* The thread learns of a configuration: what was stale is about to be cleared.
LEMMA RecvInv ==
    ASSUME IInv, Recv \/ RecvConfig
    PROVE  IInv'
<1>1. /\ NextConfig
      /\ UNCHANGED <<mainVars, counters, elapsed, taken, history>>
      /\ \/ thread.pc = "recv" /\ At("clear")
         \/ thread.pc = "wait" /\ At("loop") /\ config # 0
    BY DEF Recv, RecvConfig, IInv, Agreement
<1>2. /\ thread' \in [pc : {"loop", "recv", "clear", "wait", "print", "log", "panicked"},
                      at : 0 .. Len(Cells)]
      /\ thread'.pc \in {"loop", "clear"} /\ thread'.at = 1
      /\ thread.pc = "recv" => thread'.pc = "clear"
      /\ thread.pc \in {"recv", "wait"}
    BY <1>1, AtKeeps
<1>3. TypeOK'
    BY <1>1, <1>2, NextConfigKeeps DEF IInv, TypeOK, mainVars, history
<1>4. LoopsInRange'
    BY <1>1, <1>2 DEF IInv, LoopsInRange, mainVars
<1>5. TakenSoFar' /\ RequestsPrintedOnce'
    BY <1>1, <1>2 DEF IInv, TakenSoFar, RequestsPrintedOnce, history
<1>6. Agreement'
    BY <1>1, <1>2, NextConfigKeeps DEF IInv, Agreement, mainVars
<1>7. StaleIsCleared'
    <2>1. stale' = stale /\ StaleIsCleared /\ TypeOK
        BY <1>1 DEF IInv, history
    <2>2. CASE thread.pc = "recv"
        <3>1. thread'.pc = "clear" /\ \A k \in Requests : \E i \in thread'.at .. 5 : Cells[i] = k
            BY <1>2, <2>2, CellsFacts
        <3> QED
            BY <3>1 DEF StaleIsCleared
    <2>3. CASE thread.pc = "wait"
        <3>1. config # 0
            BY <2>3 DEF IInv, Agreement
        <3>2. \A k \in Requests : stale[k] # 0 => \E i \in 1 .. Len(channel) : channel[i] = 0
            BY <2>1, <2>3, <3>1 DEF StaleIsCleared
        <3> QED
            BY <1>1, <2>1, <3>2, NextConfigKeeps DEF StaleIsCleared
    <2> QED
        BY <1>2, <2>2, <2>3
<1> QED
    BY <1>3, <1>4, <1>5, <1>6, <1>7 DEF IInv

LEMMA LoopInv ==
    ASSUME IInv, Loop
    PROVE  IInv'
<1>1. /\ thread.pc = "loop" /\ thread'.pc \in {"recv", "wait"}
      /\ thread' \in [pc : {"loop", "recv", "clear", "wait", "print", "log", "panicked"},
                      at : 0 .. Len(Cells)]
      /\ thread'.pc = "wait" => config # 0
      /\ elapsed' \in {elapsed, 0}
    BY AtKeeps DEF Loop
<1>2. UNCHANGED <<mainVars, channel, counters, config, taken, history>>
    BY DEF Loop
<1>3. TypeOK'
    BY <1>1, <1>2 DEF IInv, TypeOK, mainVars, history
<1>4. LoopsInRange' /\ TakenSoFar' /\ RequestsPrintedOnce'
    BY <1>1, <1>2 DEF IInv, LoopsInRange, TakenSoFar, RequestsPrintedOnce, mainVars, history
<1>5. Agreement' /\ StaleIsCleared'
    BY <1>1, <1>2 DEF IInv, Agreement, LastSent, StaleIsCleared, mainVars, history
<1> QED
    BY <1>3, <1>4, <1>5 DEF IInv

LEMMA PanicOrTimeoutInv ==
    ASSUME IInv, RecvPanics \/ RecvTimeout
    PROVE  IInv'
<1>1. /\ thread.pc \in {"recv", "wait"} /\ thread'.pc \in {"panicked", "print"}
      /\ thread' \in [pc : {"loop", "recv", "clear", "wait", "print", "log", "panicked"},
                      at : 0 .. Len(Cells)]
      /\ thread'.at = 1
    BY AtKeeps DEF RecvPanics, RecvTimeout
<1>2. UNCHANGED <<mainVars, channel, counters, config, elapsed, taken, history>>
    BY DEF RecvPanics, RecvTimeout
<1>3. TypeOK'
    BY <1>1, <1>2 DEF IInv, TypeOK, mainVars, history
<1>4. LoopsInRange' /\ RequestsPrintedOnce'
    BY <1>1, <1>2 DEF IInv, LoopsInRange, RequestsPrintedOnce, mainVars, history
<1>5. TakenSoFar'
    BY <1>1, <1>2 DEF IInv, TakenSoFar
<1>6. Agreement' /\ StaleIsCleared'
    BY <1>1, <1>2 DEF IInv, Agreement, LastSent, StaleIsCleared, mainVars, history
<1> QED
    BY <1>3, <1>4, <1>5, <1>6 DEF IInv

\* Where a loop over the counters goes next.
LEMMA NextCell ==
    ASSUME TypeOK, NEW place \in {"loop", "log"}, thread.at \in 1 .. 5,
           IF thread.at < Len(Cells) THEN thread' = [thread EXCEPT !.at = @ + 1] ELSE At(place)
    PROVE  /\ thread' \in [pc : {"loop", "recv", "clear", "wait", "print", "log", "panicked"},
                           at : 0 .. Len(Cells)]
           /\ \/ thread'.pc = thread.pc /\ thread'.at = thread.at + 1 /\ thread'.at \in 1 .. 5
              \/ thread'.pc = place /\ thread.at = 5
<1>1. thread \in [pc : {"loop", "recv", "clear", "wait", "print", "log", "panicked"}, at : 0 .. 5]
    BY CellsFacts DEF TypeOK
<1>2. CASE thread.at < 5
    <2>1. thread' = [thread EXCEPT !.at = @ + 1] /\ thread.at + 1 \in 1 .. 5
        BY <1>2, CellsFacts
    <2> QED
        BY <1>1, <2>1, CellsFacts
<1>3. CASE ~(thread.at < 5)
    <2>1. At(place) /\ thread.at = 5
        BY <1>3, CellsFacts
    <2> QED
        BY <2>1, AtKeeps
<1> QED
    BY <1>2, <1>3

LEMMA ThreadClearInv ==
    ASSUME IInv, ThreadClear
    PROVE  IInv'
<1>1. thread.pc = "clear" /\ thread.at \in 1 .. 5 /\ StoreZero(thread.at)
    BY DEF IInv, ThreadClear, LoopsInRange
<1>2. UNCHANGED <<mainVars, channel, config, elapsed, taken>>
    BY DEF ThreadClear
<1>3. /\ thread' \in [pc : {"loop", "recv", "clear", "wait", "print", "log", "panicked"},
                      at : 0 .. Len(Cells)]
      /\ \/ thread'.pc = "clear" /\ thread'.at = thread.at + 1 /\ thread'.at \in 1 .. 5
         \/ thread'.pc = "loop" /\ thread.at = 5
    BY <1>1, NextCell DEF IInv, ThreadClear
<1>4. /\ counters' \in [Requests \cup {"servers"} -> Nat]
      /\ balance' \in [Requests -> Nat] /\ stale' \in [Requests -> Nat]
      /\ RequestsPrintedOnce'
      /\ \A k \in Requests : stale'[k] # 0 => stale[k] # 0 /\ Cells[thread.at] # k
    BY <1>1, <1>2, StoreZeroKeeps DEF IInv
<1>5. TypeOK'
    BY <1>2, <1>3, <1>4 DEF IInv, TypeOK, mainVars
<1>6. LoopsInRange' /\ TakenSoFar' /\ Agreement'
    BY <1>1, <1>2, <1>3 DEF IInv, LoopsInRange, TakenSoFar, Agreement, LastSent, mainVars
<1>7. StaleIsCleared'
    <2> SUFFICES ASSUME NEW k \in Requests, stale'[k] # 0
                 PROVE  \/ \E i \in 1 .. Len(channel') : channel'[i] = 0
                        \/ config' = 0
                        \/ thread'.pc = "clear" /\ \E i \in thread'.at .. 5 : Cells[i] = k
        BY DEF StaleIsCleared
    <2>1. stale[k] # 0 /\ Cells[thread.at] # k
        BY <1>4
    <2>2. CASE \E i \in thread.at .. 5 : Cells[i] = k
        <3>1. PICK i \in thread.at .. 5 : Cells[i] = k
            BY <2>2
        <3>2. i # thread.at /\ i \in thread.at + 1 .. 5
            BY <1>1, <2>1, <3>1
        <3>3. thread'.pc = "clear" /\ thread'.at = thread.at + 1
            BY <1>1, <1>3, <3>2
        <3> QED
            BY <3>1, <3>2, <3>3
    <2>3. CASE ~ \E i \in thread.at .. 5 : Cells[i] = k
        BY <1>2, <2>1, <2>3 DEF IInv, StaleIsCleared
    <2> QED
        BY <2>2, <2>3
<1> QED
    BY <1>4, <1>5, <1>6, <1>7 DEF IInv

\* A swap moves what is in the counter to the line.
LEMMA TakeCounterInv ==
    ASSUME IInv, TakeCounter
    PROVE  IInv'
<1> DEFINE c == Cells[thread.at]
<1>1. thread.pc = "print" /\ thread.at \in 1 .. 5 /\ c \in Requests \cup {"servers"}
    BY CellsFacts DEF IInv, TakeCounter, LoopsInRange
<1>2. UNCHANGED <<mainVars, channel, config, elapsed, balance>>
    BY DEF TakeCounter
<1>3. /\ thread' \in [pc : {"loop", "recv", "clear", "wait", "print", "log", "panicked"},
                      at : 0 .. Len(Cells)]
      /\ \/ thread'.pc = "print" /\ thread'.at = thread.at + 1 /\ thread'.at \in 1 .. 5
         \/ thread'.pc = "log" /\ thread.at = 5
    BY <1>1, NextCell DEF IInv, TakeCounter
<1>4. taken' = [taken EXCEPT ![c] = counters[c]]
    BY DEF TakeCounter
<1>5. /\ c = "servers" => UNCHANGED <<counters, stale>>
      /\ c # "servers" => /\ counters' = [counters EXCEPT ![c] = 0]
                          /\ stale' = [stale EXCEPT ![c] = 0]
    BY DEF TakeCounter
<1>6. c \in Requests => taken[c] = 0
    BY <1>1 DEF IInv, TakenSoFar
<1>7. \A i \in 1 .. 5 : Cells[i] = c => i = thread.at
    BY <1>1, CellsFacts
<1> HIDE DEF c
<1>8. /\ counters \in [Requests \cup {"servers"} -> Nat]
      /\ taken \in [Requests \cup {"servers"} -> Nat]
      /\ stale \in [Requests -> Nat] /\ "servers" \notin Requests
    BY CellsFacts DEF IInv, TypeOK
<1>9. /\ counters' \in [Requests \cup {"servers"} -> Nat]
      /\ taken' \in [Requests \cup {"servers"} -> Nat]
      /\ stale' \in [Requests -> Nat]
    BY <1>1, <1>4, <1>5, <1>8
<1>10. TypeOK' /\ LoopsInRange' /\ Agreement'
    BY <1>1, <1>2, <1>3, <1>9 DEF IInv, TypeOK, LoopsInRange, Agreement, LastSent, mainVars
<1>11. TakenSoFar'
    <2>1. ASSUME thread'.pc = "print", NEW i \in thread'.at .. 5, Cells[i] \in Requests
          PROVE  taken'[Cells[i]] = 0
        <3>1. i \in thread.at .. 5 /\ i # thread.at
            BY <1>1, <1>3, <2>1
        <3>2. Cells[i] # c /\ taken[Cells[i]] = 0
            BY <1>1, <1>7, <2>1, <3>1 DEF IInv, TakenSoFar
        <3> QED
            BY <1>4, <1>8, <2>1, <3>2
    <2> QED
        BY <1>3, <2>1 DEF TakenSoFar
<1>12. RequestsPrintedOnce'
    <2> SUFFICES ASSUME NEW k \in Requests
                 PROVE  balance'[k] = counters'[k] + taken'[k]
        BY DEF RequestsPrintedOnce
    <2>1. balance'[k] = counters[k] + taken[k]
        BY <1>2 DEF IInv, RequestsPrintedOnce
    <2>2. CASE k = c
        BY <1>4, <1>5, <1>6, <1>8, <2>1, <2>2
    <2>3. CASE k # c
        <3>1. counters'[k] = counters[k] /\ taken'[k] = taken[k]
            BY <1>4, <1>5, <1>8, <2>3
        <3> QED
            BY <2>1, <3>1
    <2> QED
        BY <2>2, <2>3
<1>13. StaleIsCleared'
    <2>1. \A k \in Requests : stale'[k] # 0 => stale[k] # 0
        BY <1>5, <1>8
    <2>2. UNCHANGED <<channel, config>> /\ thread.pc # "clear" /\ StaleIsCleared
        BY <1>1, <1>2 DEF IInv
    <2> QED
        BY <2>1, <2>2 DEF StaleIsCleared
<1> QED
    BY <1>10, <1>11, <1>12, <1>13 DEF IInv

\* Writing the line settles the account.
LEMMA LogInv ==
    ASSUME IInv, Log
    PROVE  IInv'
<1>1. /\ thread.pc = "log" /\ thread'.pc = "loop"
      /\ thread' \in [pc : {"loop", "recv", "clear", "wait", "print", "log", "panicked"},
                      at : 0 .. Len(Cells)]
    BY AtKeeps DEF Log
<1>2. UNCHANGED <<mainVars, channel, counters, config, elapsed, stale>>
    BY DEF Log
<1>3. /\ taken' = NothingTaken /\ taken' \in [Requests \cup {"servers"} -> Nat]
      /\ \A k \in Requests : taken'[k] = 0
    BY DEF Log, NothingTaken
<1>4. \A k \in Requests : balance'[k] = counters'[k] /\ counters'[k] \in Nat
    BY <1>2 DEF IInv, Log, TypeOK, RequestsPrintedOnce
<1>5. balance' \in [Requests -> Nat]
    BY <1>4 DEF Log
<1>6. TypeOK'
    BY <1>1, <1>2, <1>3, <1>5 DEF IInv, TypeOK, mainVars
<1>7. LoopsInRange' /\ TakenSoFar' /\ RequestsPrintedOnce'
    BY <1>1, <1>2, <1>3, <1>4 DEF IInv, LoopsInRange, TakenSoFar, RequestsPrintedOnce, mainVars
<1>8. Agreement' /\ StaleIsCleared'
    BY <1>1, <1>2 DEF IInv, Agreement, LastSent, StaleIsCleared, mainVars
<1> QED
    BY <1>6, <1>7, <1>8 DEF IInv

LEMMA TickInv ==
    ASSUME IInv, Tick \/ UNCHANGED vars
    PROVE  IInv'
<1>1. elapsed' \in Nat
    BY DEF IInv, TypeOK, Tick, vars, threadVars
<1>2. UNCHANGED <<mainVars, channel, counters, thread, config, taken, history>>
    BY DEF Tick, vars, threadVars
<1>3. TypeOK'
    BY <1>1, <1>2 DEF IInv, TypeOK, mainVars, history
<1>4. /\ LoopsInRange' /\ TakenSoFar' /\ RequestsPrintedOnce'
      /\ Agreement' /\ StaleIsCleared'
    BY <1>2 DEF IInv, LoopsInRange, TakenSoFar, RequestsPrintedOnce, Agreement, LastSent,
                StaleIsCleared, mainVars, history
<1> QED
    BY <1>3, <1>4 DEF IInv

LEMMA NextIInv == IInv /\ [Next]_vars => IInv'
<1> SUFFICES ASSUME IInv, [Next]_vars PROVE IInv'
    OBVIOUS
<1>1. CASE MainNext
    BY <1>1, OnRequestInv, OnServerAddInv, ServersCountInv, MainClearInv, UpdateConfigInv
       DEF MainNext
<1>2. CASE ThreadNext
    BY <1>2, LoopInv, RecvInv, PanicOrTimeoutInv, ThreadClearInv, TakeCounterInv, LogInv
       DEF ThreadNext
<1>3. CASE Tick \/ UNCHANGED vars
    BY <1>3, TickInv
<1> QED
    BY <1>1, <1>2, <1>3 DEF Next

LEMMA Invariance == Spec => []IInv
BY InitIInv, NextIInv, PTL DEF Spec

-----------------------------------------------------------------------------
(* The theorems                                                            *)

\* The state of Stats and of its thread is well-formed; no account is overdrawn.
THEOREM TypeCorrectness == Spec => []TypeOK
<1>1. IInv => TypeOK
    BY DEF IInv
<1> QED
    BY <1>1, Invariance, PTL

\* No request is lost or printed twice between counting, printing and clearing.
THEOREM EveryRequestPrintedOnce == Spec => []RequestsPrintedOnce
<1>1. IInv => RequestsPrintedOnce
    BY DEF IInv
<1> QED
    BY <1>1, Invariance, PTL

\* The thread starts a line with nothing left to receive, so it knows what the main
\* thread sent last, and all requests of the time before have been cleared.
LEMMA LineStarts ==
    ASSUME IInv, [Next]_vars, thread.pc = "wait", thread'.pc = "print"
    PROVE  enabled /\ \A k \in Requests : stale[k] = 0
<1>1. RecvTimeout
    <2>1. CASE MainNext \/ Tick \/ UNCHANGED vars
        BY <2>1 DEF MainNext, Tick, vars, threadVars, OnRequest, OnServerAdd, ServersCount, Ban,
                    Reload, MainClear, UpdateConfig, Drop
    <2>2. CASE ThreadNext
        BY <2>2, AtKeeps DEF ThreadNext, Loop, Recv, RecvPanics, ThreadClear, RecvConfig,
                             TakeCounter, Log
    <2> QED
        BY <2>1, <2>2 DEF Next
<1>2. channel = <<>> /\ config # 0
    BY <1>1 DEF IInv, Agreement, RecvTimeout
<1>3. enabled
    BY <1>2 DEF IInv, Agreement, LastSent
<1>4. \A k \in Requests : stale[k] = 0
    BY <1>2 DEF IInv, StaleIsCleared
<1> QED
    BY <1>3, <1>4

\* The thread is quiet while the main thread has the statistics switched off.
THEOREM QuietWhileOff == Spec => QuietWhenOff
<1>1. IInv /\ [Next]_vars => [thread.pc = "wait" /\ thread'.pc = "print" => enabled]_vars
    BY LineStarts
<1> QED
    BY <1>1, Invariance, PTL DEF Spec, QuietWhenOff

\* A line never starts with requests of the time before a switch off.
THEOREM LinesAreOfTheirTime == Spec => NoStaleRequests
<1>1. IInv /\ [Next]_vars =>
          [thread.pc = "wait" /\ thread'.pc = "print" => \A k \in Requests : stale[k] = 0]_vars
    BY LineStarts
<1> QED
    BY <1>1, Invariance, PTL DEF Spec, NoStaleRequests

=============================================================================
