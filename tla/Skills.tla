------------------------------- MODULE Skills -------------------------------
(***************************************************************************)
(* Skills: directories with a SKILL.md and perhaps a SKILL.toml, which the *)
(* command line installs and removes (cli/skill.rs) while turns of the     *)
(* daemon read them into the prompt (skills/loader.rs).  These are         *)
(* processes of their own without a lock.                                  *)
(*                                                                         *)
(* A name is a number, so that names have an order.  What a source offers  *)
(* stays the same, and has passed the checks of its name and content.      *)
(* Links are left out.  A file that is being written is empty, then holds  *)
(* a part, then the whole.                                                 *)
(***************************************************************************)
EXTENDS Workspace, Journal

CONSTANTS
  SkillNames,   \* names of directories
  Title,        \* the name in the SKILL.toml of each, or 0 if it has none
  Length,       \* of the instructions of each
  PromptRoom,   \* MAX_SKILLS_PROMPT_BYTES
  Terminals,    \* running command lines
  MaxCommands, MaxFailures   \* bounds

ASSUME SkillsAssumption ==
  /\ SkillNames \subseteq Nat \ {0} /\ PromptRoom \in Nat
  /\ Title \in [SkillNames -> Nat] /\ Length \in [SkillNames -> Nat \ {0}]

VARIABLES
  skillDirs,    \* directories that exist
  skillFiles,   \* skill -> file -> "absent", "empty", "part" or "whole"
  command,      \* terminal -> what it does, to which skill, and files to go
  toLoad,       \* directories that a turn has still to read
  loadedSkills, \* what it has read
  skillPrompt,  \* the list in the prompt, once it is made
  turnLoads,    \* "none", "reads" or "has read"
  installed,    \* history: skills whose install or copy said it was done
  sureOf,       \* history: of those, untouched since the turn began to read
  commands, brokenOff

skillVars == <<skillDirs, skillFiles, command, toLoad, loadedSkills, skillPrompt,
               turnLoads, installed, sureOf, commands, brokenOff>>

FilesOf(s) == IF Title[s] = 0 THEN {"md"} ELSE {"md", "toml"}
NoCommand == [step |-> "none", skill |-> 0, left |-> {}, alone |-> TRUE]

SkillsInit ==
  /\ skillDirs = {} /\ skillFiles = [s \in SkillNames |-> [f \in {"md", "toml"} |-> "absent"]]
  /\ command = [t \in Terminals |-> NoCommand]
  /\ toLoad = {} /\ loadedSkills = {} /\ skillPrompt = <<>> /\ turnLoads = "none"
  /\ installed = {} /\ sureOf = {} /\ commands = 0 /\ brokenOff = 0

-----------------------------------------------------------------------------
readerVars == <<toLoad, loadedSkills, skillPrompt, turnLoads>>

Doing(t, step) == command[t].step = step
Goes(t, step, left) == command' = [command EXCEPT ![t].step = step, ![t].left = left]
Finishes(t) == command' = [command EXCEPT ![t] = NoCommand]
Touched(s) == installed' = installed \ {s} /\ sureOf' = sureOf \ {s}

(* cmd_install and cmd_remove: a skill that is there is not installed, one *)
(* that is not there is not removed.                                       *)
Command(t, s, step) ==
  /\ Doing(t, "none") /\ commands < MaxCommands
  /\ commands' = commands + 1
  /\ IF (step = "remove") = (s \in skillDirs)
     THEN LET others == {u \in Terminals \ {t} : command[u].skill = s} IN
          /\ command' = [u \in Terminals |->
               IF u = t THEN [step |-> step, skill |-> s, left |-> {}, alone |-> others = {}]
               ELSE [command[u] EXCEPT !.alone = @ /\ u \notin others]]
          /\ Touched(s)
     ELSE UNCHANGED <<command, installed, sureOf>>
  /\ UNCHANGED <<skillDirs, skillFiles, readerVars, brokenOff>>

(* The download is there, or copy_dir begins: a local directory is copied  *)
(* with all its files, a download is a SKILL.md.                           *)
MakeDirectory(t) ==
  \E step \in {"fetch", "copy"} :
    /\ Doing(t, step)
    /\ skillDirs' = skillDirs \cup {command[t].skill}
    /\ Goes(t, "write", IF step = "copy" THEN FilesOf(command[t].skill) ELSE {"md"})
    /\ UNCHANGED <<skillFiles, readerVars, installed, sureOf, commands, brokenOff>>

(* fs::write and fs::copy empty the file, and fill it. *)
Content(s, f, how) == skillFiles' = [skillFiles EXCEPT ![s][f] = how]

OpenSkillFile(t) ==
  \E f \in command[t].left :
    /\ Doing(t, "write") /\ command[t].skill \in skillDirs
    /\ Content(command[t].skill, f, "empty")
    /\ command' = [command EXCEPT ![t].step = f]
    /\ UNCHANGED <<skillDirs, readerVars, installed, sureOf, commands, brokenOff>>

WritePart(t) ==
  /\ command[t].step \in {"md", "toml"}
  /\ skillFiles[command[t].skill][command[t].step] = "empty"
  /\ Content(command[t].skill, command[t].step, "part")
  /\ UNCHANGED <<skillDirs, command, readerVars, installed, sureOf, commands, brokenOff>>

(* A file that was removed meanwhile is written without a name. *)
WriteWhole(t) ==
  /\ command[t].step \in {"md", "toml"}
  /\ LET s == command[t].skill  f == command[t].step IN
     IF skillFiles[s][f] = "absent" THEN UNCHANGED skillFiles ELSE Content(s, f, "whole")
  /\ Goes(t, "write", command[t].left \ {command[t].step})
  /\ UNCHANGED <<skillDirs, readerVars, installed, sureOf, commands, brokenOff>>

(* It says that the skill is installed, and so it is if nobody else worked *)
(* on it at the same time.                                                 *)
Installed(t) ==
  /\ Doing(t, "write") /\ command[t].left = {}
  /\ installed' = IF command[t].alone THEN installed \cup {command[t].skill} ELSE installed
  /\ Finishes(t)
  /\ UNCHANGED <<skillDirs, skillFiles, readerVars, sureOf, commands, brokenOff>>

(* remove_dir_all: the files one by one, then the directory. *)
RemoveFile(t) ==
  /\ Doing(t, "remove")
  /\ \E f \in {"md", "toml"} :
       skillFiles[command[t].skill][f] # "absent" /\ Content(command[t].skill, f, "absent")
  /\ UNCHANGED <<skillDirs, command, readerVars, installed, sureOf, commands, brokenOff>>

RemoveDirectory(t) ==
  /\ Doing(t, "remove")
  /\ \A f \in {"md", "toml"} : skillFiles[command[t].skill][f] = "absent"
  /\ skillDirs' = skillDirs \ {command[t].skill}
  /\ Finishes(t)
  /\ UNCHANGED <<skillFiles, readerVars, installed, sureOf, commands, brokenOff>>

(* A download, a write or the whole program fails, or is called off: what  *)
(* is there stays.                                                         *)
CommandFails(t) ==
  /\ ~Doing(t, "none")
  /\ \/ brokenOff < MaxFailures /\ brokenOff' = brokenOff + 1
     \/ command[t].step \in {"write", "remove"} /\ command[t].skill \notin skillDirs /\ UNCHANGED brokenOff
  /\ Finishes(t)
  /\ UNCHANGED <<skillDirs, skillFiles, readerVars, installed, sureOf, commands>>

-----------------------------------------------------------------------------
(* load_skills *)
BeginLoad ==
  /\ turnLoads # "reads"
  /\ turnLoads' = "reads" /\ toLoad' = skillDirs
  /\ loadedSkills' = {} /\ skillPrompt' = <<>> /\ sureOf' = installed
  /\ UNCHANGED <<skillDirs, skillFiles, command, installed, commands, brokenOff>>

(* load_skill_from_dir.  A part of a SKILL.toml may parse or not; a part   *)
(* of a file may end within a character, and a file may go while it is     *)
(* looked for: then the directory is passed over.                          *)
SkillEntry(s, name, text) == [dir |-> s, name |-> name, text |-> text]
Loads(s, parses, legible) ==
  LET files == skillFiles[s]
      text == IF files.md = "absent" THEN "empty" ELSE files.md
      manifest == files.toml = "whole" \/ (files.toml = "part" /\ parses)
      atRisk == "part" \in {files.md, files.toml} \/ \E t \in Terminals : command[t].skill = s
  IN IF atRisk /\ ~legible THEN {}
     ELSE IF manifest THEN {SkillEntry(s, Title[s], text)}
     ELSE IF text = "empty" THEN {} ELSE {SkillEntry(s, s, text)}

(* Mutant: a directory without a skill ends the list. *)
LoadUpTo(s) ==
  /\ s \in toLoad
  /\ \E parses, legible \in BOOLEAN :
       LET found == Loads(s, parses, legible) IN
       /\ loadedSkills' = loadedSkills \cup found
       /\ toLoad' = IF found = {} THEN {} ELSE toLoad \ {s}
  /\ UNCHANGED <<skillDirs, skillFiles, command, skillPrompt, turnLoads, installed, sureOf, commands, brokenOff>>

LoadSkill(s) ==
  /\ s \in toLoad
  /\ \E parses, legible \in BOOLEAN : loadedSkills' = loadedSkills \cup Loads(s, parses, legible)
  /\ toLoad' = toLoad \ {s}
  /\ UNCHANGED <<skillDirs, skillFiles, command, skillPrompt, turnLoads, installed, sureOf, commands, brokenOff>>

(* Room that an entry takes in the prompt: one for its name. *)
Room(e) == 1 + (CASE e.text = "empty" -> 0 [] e.text = "part" -> 1 [] OTHER -> Length[e.dir])
RoomFor(list) ==
  LET upTo[i \in 0..Len(list)] == IF i = 0 THEN 0 ELSE upTo[i - 1] + Room(list[i])
  IN upTo[Len(list)]

(* By name; of equal names in any order. *)
InOrderOfNames(entries) ==
  {list \in [1..Cardinality(entries) -> entries] :
     \A i, j \in DOMAIN list : i < j => list[i] # list[j] /\ list[i].name <= list[j].name}

(* Mutant: an entry for which there is no room is left out alone. *)
AllThatFit(list) ==
  LET fits[i \in 0..Len(list)] ==
        IF i = 0 THEN <<>>
        ELSE IF RoomFor(fits[i - 1]) + Room(list[i]) > PromptRoom THEN fits[i - 1]
        ELSE Append(fits[i - 1], list[i])
  IN fits[Len(list)]

(* skills_to_prompt: from the first one for which there is no room on, all *)
(* are left out.                                                           *)
FirstThatFit(list) ==
  LET full == {i \in DOMAIN list : RoomFor(SubSeq(list, 1, i)) > PromptRoom}
  IN IF full = {} THEN list
     ELSE SubSeq(list, 1, (CHOOSE i \in full : \A j \in full : i <= j) - 1)

MakePrompt ==
  /\ turnLoads = "reads" /\ toLoad = {}
  /\ \E list \in InOrderOfNames(loadedSkills) : skillPrompt' = FirstThatFit(list)
  /\ turnLoads' = "has read"
  /\ UNCHANGED <<skillDirs, skillFiles, command, toLoad, loadedSkills, installed, sureOf, commands, brokenOff>>

SkillsNext ==
  \/ \E t \in Terminals :
       \/ \E s \in SkillNames, step \in {"fetch", "copy", "remove"} : Command(t, s, step)
       \/ MakeDirectory(t) \/ OpenSkillFile(t) \/ WritePart(t) \/ WriteWhole(t) \/ Installed(t)
       \/ RemoveFile(t) \/ RemoveDirectory(t) \/ CommandFails(t)
  \/ BeginLoad \/ (\E s \in SkillNames : LoadSkill(s)) \/ MakePrompt

SkillsSpec == SkillsInit /\ [][SkillsNext]_skillVars

-----------------------------------------------------------------------------
(* A skill that was installed is read whole by every turn until somebody   *)
(* touches it, whatever broken or half-installed skills lie beside it.     *)
InstalledIsRead ==
  turnLoads = "has read" =>
    \A s \in sureOf : \E e \in loadedSkills : e.dir = s /\ e.text = "whole"

(* The prompt holds no more than there is room for, and leaves a skill out *)
(* only if it and those before it by name have no room together.           *)
PromptIsAStart ==
  turnLoads = "has read" =>
    /\ RoomFor(skillPrompt) <= PromptRoom
    /\ \A e \in loadedSkills :
         \/ \E i \in DOMAIN skillPrompt : skillPrompt[i] = e
         \/ /\ \A i \in DOMAIN skillPrompt : skillPrompt[i].name <= e.name
            /\ \E before \in SUBSET {d \in loadedSkills : d.name <= e.name} :
                 \E list \in InOrderOfNames(before) : RoomFor(list) > PromptRoom

(* What was written and acknowledged is what a reader finds, whoever writes*)
(* and reads meanwhile: journals, files of the workspace, skills.          *)
FilesHold ==
  /\ LatestAreRead /\ MishapsCostLittle
  /\ PiecesInOrder /\ SaidIsDone /\ WrittenIsRead
  /\ InstalledIsRead /\ PromptIsAStart
=============================================================================
