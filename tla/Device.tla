------------------------------- MODULE Device -------------------------------
(* What pageup keeps on a device, and the commands that write it: the        *)
(* configuration with its key (runInit of cmd/pageup/main.go, SaveConfig of  *)
(* client/config.go) and the two files of the skill (Install and writeAtomic *)
(* of pageskill/install.go).  Nothing keeps two commands apart; each may     *)
(* fail at any access to the disk, and be killed at any time.                *)
EXTENDS Naturals, Sequences, FiniteSets

CONSTANTS
    Command,
    Starts,     \* what each command is asked to do, on which device
    NoKey, OldKey, Absent,
    SkillFiles, \* embeddedFiles, in their order
    Version,    \* of the embedded files
    MaxFaults, MaxKills  \* bounds: failing accesses and answers, killed commands

ASSUME DeviceAssumption ==
    /\ SkillFiles \in Seq(STRING) /\ Len(SkillFiles) > 0
    /\ \A i, j \in DOMAIN SkillFiles : SkillFiles[i] = SkillFiles[j] => i = j
    /\ Absent \notin Version
ASSUME FaultAssumption == MaxFaults \in Nat /\ MaxKills \in Nat

SkillFile == {SkillFiles[i] : i \in DOMAIN SkillFiles}

(* The key that `pageup init` makes is named by the command that makes it.   *)
Key == Command \cup {OldKey}

VARIABLES
    call,     \* what each command does
    pc,       \* the step it is at, or was at when it ended
    at,       \* the file or the argument it is at
    status,
    config,   \* the key in the configuration file
    skillDir, \* whether the directory of the skill exists
    skill,    \* the version of each of its files
    rivals,   \* history: who has changed what a command goes by, since it looked
    faults, kills

device == <<config, skillDir, skill, rivals>>
process == <<pc, at, status>>
deviceVars == <<call, process, device, faults, kills>>

Running(c, step) == status[c] = "running" /\ pc[c] = step
Step(c, step) == pc' = [pc EXCEPT ![c] = step] /\ UNCHANGED <<at, status>>
Ends(c, how) == status' = [status EXCEPT ![c] = how] /\ UNCHANGED <<pc, at>>
Fault == faults < MaxFaults /\ faults' = faults + 1

InitDevice ==
    /\ \E s \in Starts : call = s.call /\ config = s.config /\ skill = s.skill
    /\ skillDir = (\E f \in SkillFile : skill[f] # Absent)
    /\ at = [c \in Command |-> 1] /\ status = [c \in Command |-> "running"]
    /\ rivals = [c \in Command |-> {}]
    /\ faults = 0 /\ kills = 0

(* A command that goes by what it has seen does not see c's write.           *)
WriteBeside(c, steps) ==
    rivals' = [d \in Command |-> IF pc[d] \in steps /\ d # c THEN rivals[d] \cup {c} ELSE rivals[d]]

-----------------------------------------------------------------------------
(* The operators Bad... are mistakes that this code could contain in place of *)
(* the definition that follows them; README.md names what each would break.  *)

(* pageup init: without --force it stops if there is a configuration.        *)
BadMayInit(c) == TRUE
MayInit(c) == call[c].force \/ config = NoKey

CheckConfig(c) ==
    /\ Running(c, "check")
    /\ \/ MayInit(c) /\ Step(c, "save") /\ UNCHANGED faults
       \/ ~MayInit(c) /\ Ends(c, "failed") /\ UNCHANGED faults
       \/ Ends(c, "failed") /\ Fault
    /\ UNCHANGED <<call, device, kills>>

(* The rename is the write: what fails before it changes nothing, and the    *)
(* chmod after it can fail when the new key is already in place.             *)
Save(c) ==
    /\ Running(c, "save")
    /\ \/ /\ config' = c /\ WriteBeside(c, {"save"})
          /\ \/ Ends(c, "ok") /\ UNCHANGED faults
             \/ Ends(c, "failed") /\ Fault
       \/ Ends(c, "failed") /\ Fault /\ UNCHANGED <<config, rivals>>
    /\ UNCHANGED <<call, skillDir, skill, kills>>

-----------------------------------------------------------------------------
(* pageup skill install: Install, with writeAtomic for one file after the    *)
(* other.  The directory is made with the first file.                        *)
CheckSkill(c) ==
    /\ Running(c, "stat")
    /\ \/ skillDir /\ ~call[c].force /\ Ends(c, "failed") /\ UNCHANGED faults
       \/ (~skillDir \/ call[c].force) /\ Step(c, "prepare") /\ UNCHANGED faults
       \/ Ends(c, "failed") /\ Fault
    /\ UNCHANGED <<call, device, kills>>

File(c) == SkillFiles[at[c]]

Prepare(c) ==
    /\ Running(c, "prepare")
    /\ \/ skillDir' = TRUE /\ Step(c, "rename") /\ UNCHANGED faults
       \/ skillDir' \in {skillDir, TRUE} /\ Ends(c, "failed") /\ Fault
    /\ UNCHANGED <<call, config, skill, rivals, kills>>

BadLastFile(c) == at[c] + 1 >= Len(SkillFiles)
LastFile(c) == at[c] >= Len(SkillFiles)

Installing == {"prepare", "rename", "remove", "rename again"}

Put(c) ==
    /\ skill' = [skill EXCEPT ![File(c)] = call[c].version] /\ WriteBeside(c, Installing)
    /\ \/ LastFile(c) /\ Ends(c, "ok") /\ UNCHANGED faults
       \/ /\ ~LastFile(c) /\ UNCHANGED <<status, faults>>
          /\ pc' = [pc EXCEPT ![c] = "prepare"] /\ at' = [at EXCEPT ![c] = @ + 1]
       \/ Ends(c, "failed") /\ Fault

Rename(c) ==
    /\ Running(c, "rename")
    /\ \/ Put(c)
       \/ Step(c, "remove") /\ Fault /\ UNCHANGED <<skill, rivals>>
    /\ UNCHANGED <<call, config, skillDir, kills>>

(* A rename that cannot replace a file is tried again without the file.      *)
Remove(c) ==
    /\ Running(c, "remove")
    /\ \/ /\ skill' = [skill EXCEPT ![File(c)] = Absent] /\ WriteBeside(c, Installing)
          /\ Step(c, "rename again") /\ UNCHANGED faults
       \/ Ends(c, "failed") /\ Fault /\ UNCHANGED <<skill, rivals>>
    /\ UNCHANGED <<call, config, skillDir, kills>>

RenameAgain(c) ==
    /\ Running(c, "rename again")
    /\ \/ Put(c)
       \/ Ends(c, "failed") /\ Fault /\ UNCHANGED <<skill, rivals>>
    /\ UNCHANGED <<call, config, skillDir, kills>>

DeviceStep(c) == \/ CheckConfig(c) \/ Save(c)
                 \/ CheckSkill(c) \/ Prepare(c) \/ Rename(c) \/ Remove(c) \/ RenameAgain(c)

-----------------------------------------------------------------------------
Steps == {"check", "save", "stat", "prepare", "rename", "remove", "rename again",
          "load", "classify", "read", "send", "wait"}

DeviceOK ==
    /\ call \in {s.call : s \in Starts}
    /\ pc \in [Command -> Steps] /\ at \in [Command -> Nat]
    /\ status \in [Command -> {"running", "ok", "failed", "killed"}]
    /\ config \in Key \cup {NoKey}
    /\ skillDir \in BOOLEAN /\ skill \in [SkillFile -> Version \cup {Absent}]
    /\ rivals \in [Command -> SUBSET Command]
    /\ faults \in 0 .. MaxFaults /\ kills \in 0 .. MaxKills

(* An init without --force replaces no key but one that another init has     *)
(* written between its check and its own write; README.md, "Two inits", says *)
(* what becomes of the other device's key.                                   *)
CredentialsKept ==
    [][\A c \in Command : config' # config /\ config # NoKey /\ config' = c
                          => call[c].force \/ config \in rivals[c]]_deviceVars

(* Once an install has succeeded no file of the skill is missing, whatever   *)
(* other installs do, except where one of them has removed a file and could  *)
(* not, or not yet, rename its own into place.                               *)
Torn(f) == \E c \in Command : pc[c] = "rename again" /\ File(c) = f
SkillComplete ==
    (\E c \in Command : call[c].op = "install" /\ status[c] = "ok")
    => skillDir /\ \A f \in SkillFile : skill[f] = Absent => Torn(f)

(* An install that nobody interferes with leaves its own version of every    *)
(* file, also where a failed or killed install has left files of another.    *)
InstalledVersion ==
    [][\A c \in Command : /\ call[c].op = "install" /\ rivals'[c] = {}
                          /\ status[c] = "running" /\ status'[c] = "ok"
                          => skill' = [f \in SkillFile |-> call[c].version]]_deviceVars
=============================================================================
