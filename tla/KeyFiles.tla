------------------------------ MODULE KeyFiles ------------------------------
(***************************************************************************)
(* What a user of XBR keeps in files: a pair of key files                  *)
(* (autobahn/xbr/_userkey.py) and a configuration with profiles            *)
(* (autobahn/xbr/_config.py).  A step is one operation on the file system: *)
(* opening a file to write empties it, closing it fills it.  The program   *)
(* may end at any of them, and be started again.                           *)
(***************************************************************************)
EXTENDS Naturals, FiniteSets

CONSTANTS
    Users,       \* the users considered: records, see UserType
    MaxStarts,   \* bound: times that the keys are loaded
    MaxEdits,    \* bound: times that the configuration is changed
    Nil          \* None: what is not there

UserType ==
    [programs : SUBSET Nat,          \* programs that load the keys at a time
     crashes : {"never", "between", "anywhere"},  \* between two files, or with one half written
     meddles : BOOLEAN,              \* the user removes or replaces the public file, changes modes
     profiles : SUBSET [{"username", "cskey", "member_oid", "vaction_verified"} -> {Nil, "value"}],
     passwords : SUBSET STRING]

VARIABLES
    user,
    disk,      \* the two key files: Nil, or what is in them and their modes
    program,   \* the programs that load the keys
    config     \* the configuration: the file, the object, what was last saved

fileVars == <<user, disk, program, config>>

-----------------------------------------------------------------------------
(* UserKey(): the keys are read, or made when there are none.              *)

\* A key stands for both key pairs; Torn for a file without tags, Foreign for
\* another user's keys.
file(key, mode) == [key |-> key, mode |-> mode]
Torn == 0
Foreign == 99
pubMode == "644"
privMode == "600"

disk0 == [pub |-> Nil, priv |-> Nil, made |-> 0, other |-> Nil]
program0 == [at |-> "idle", key |-> Nil, starts |-> 0, returned |-> {}, raised |-> FALSE]

\* open(.., 'w'): a new file has the usual mode, one that is there keeps its own.
emptied(f) == file(Torn, IF f = Nil THEN pubMode ELSE f.mode)

\* Mutant: new keys are made when either of the files is missing.
missing_either(d) == d.priv = Nil \/ d.pub = Nil

missing(d) == d.priv = Nil

goes(p, at) == program' = [program EXCEPT ![p].at = at]
raises(p) == program' = [program EXCEPT ![p].at = "idle", ![p].key = Nil, ![p].raised = TRUE]
same == UNCHANGED <<user, config>>

Start(p) ==
    /\ program[p].at = "idle" /\ program[p].starts < MaxStarts
    /\ IF missing(disk)
       THEN /\ disk' = [disk EXCEPT !.made = @ + 1]
            /\ program' = [program EXCEPT ![p].at = "new_pub", ![p].starts = @ + 1,
                                          ![p].key = disk.made + 1]
       ELSE /\ disk' = disk
            /\ program' = [program EXCEPT ![p].at = "read_priv", ![p].starts = @ + 1]
    /\ same

ReadPrivate(p) ==
    /\ program[p].at = "read_priv"
    /\ IF disk.priv.key = Torn THEN raises(p)
       ELSE program' = [program EXCEPT ![p].at = "read_pub", ![p].key = disk.priv.key]
    /\ disk' = disk /\ same

agrees(f, key) == f.key # Torn /\ f.key = key

\* A public file that is missing is made again.
ReadPublic(p) ==
    /\ program[p].at = "read_pub"
    /\ IF disk.pub = Nil THEN goes(p, "redo_pub")
       ELSE IF agrees(disk.pub, program[p].key) THEN goes(p, "modes") ELSE raises(p)
    /\ disk' = disk /\ same

Empties(p) ==
    LET at == program[p].at IN
    /\ \/ at = "new_pub" /\ disk' = [disk EXCEPT !.pub = emptied(@)] /\ goes(p, "fill_pub")
       \/ at = "redo_pub" /\ disk' = [disk EXCEPT !.pub = emptied(@)] /\ goes(p, "refill_pub")
       \/ at = "new_priv" /\ disk' = [disk EXCEPT !.priv = emptied(@)] /\ goes(p, "fill_priv")
    /\ same

\* The file is closed; new files are given their modes.
Fills(p) ==
    LET at == program[p].at  key == program[p].key IN
    /\ \/ /\ at = "fill_pub"
          /\ disk' = [disk EXCEPT !.pub = file(key, pubMode)] /\ goes(p, "new_priv")
       \/ /\ at = "refill_pub"
          /\ disk' = [disk EXCEPT !.pub.key = key] /\ goes(p, "modes")
       \/ /\ at = "fill_priv"
          /\ disk' = [disk EXCEPT !.priv = file(key, privMode)] /\ goes(p, "modes")
    /\ same

\* The modes are set right, the object has its key.
Returns(p) ==
    /\ program[p].at = "modes" /\ disk.pub # Nil
    /\ disk' = [disk EXCEPT !.pub.mode = pubMode, !.priv.mode = privMode]
    /\ program' = [program EXCEPT ![p].at = "idle", ![p].key = Nil,
                                  ![p].returned = @ \cup {program[p].key}]
    /\ same

Crash(p) ==
    /\ user.crashes # "never"
    /\ program[p].at # "idle"
    /\ user.crashes = "between" => program[p].at \notin {"fill_pub", "refill_pub", "fill_priv"}
    /\ program' = [program EXCEPT ![p].at = "idle", ![p].key = Nil]
    /\ disk' = disk /\ same

\* The user removes the public file, puts one of other keys there, changes modes.
UserMeddles ==
    /\ user.meddles
    /\ \A p \in user.programs : program[p].at = "idle"
    /\ disk.pub # Nil /\ disk.priv # Nil
    /\ \/ disk' = [disk EXCEPT !.pub = Nil]
       \/ disk' = [disk EXCEPT !.pub = file(Foreign, pubMode)]
       \/ disk' = [disk EXCEPT !.priv.mode = pubMode]
    /\ program' = program /\ same

-----------------------------------------------------------------------------
(* UserConfig: profiles by name, each of attributes: a text (username, email, *)
(* network_url and so on), a key (cskey, ethkey), an address or an oid     *)
(* (member_adr, member_oid, vaction_oid), a time (vaction_requested,       *)
(* vaction_verified); one of each kind here.  The file is in plain text, or *)
(* locked with a password.                                                 *)

Attributes == {"username", "cskey", "member_oid", "vaction_verified"}

\* file: the sections; profiles: those of the object; fresh: they are as they were
\* loaded; saved: the sections that were last written.
config0 ==
    [file |-> Nil, lock |-> "", at |-> "idle", profiles |-> <<>>, fresh |-> FALSE, saved |-> <<>>,
     edits |-> 0]

\* What is Nil is written as an empty text.
marshal(profile) == [a \in Attributes |-> IF profile[a] = Nil THEN "" ELSE profile[a]]

\* What is not in the section is Nil.  An empty oid is Nil, an empty text stays
\* empty, and so does an empty key; a time stays text.
parse(items) ==
    [a \in Attributes |->
        IF a \notin DOMAIN items THEN Nil
        ELSE IF a = "member_oid" /\ items[a] = "" THEN Nil
        ELSE items[a]]

parseAll(sections) == [name \in DOMAIN sections |-> parse(sections[name])]

keeps == UNCHANGED <<user, disk, program>>

\* load_or_create_profile(): the file is opened before the user is asked for the
\* keys and the texts that are to be in it; then it is closed and loaded.
CreateConfig ==
    /\ config.at = "idle" /\ config.file = Nil
    /\ config' = [config EXCEPT !.file = <<>>, !.lock = "", !.at = "asking"]
    /\ keeps

Answered ==
    /\ config.at = "asking"
    /\ LET sections == [name \in {"default"} |-> [a \in {"username", "cskey"} |-> "value"]] IN
       config' = [config EXCEPT !.file = sections, !.saved = sections, !.at = "idle",
                                !.profiles = parseAll(sections), !.fresh = TRUE]
    /\ keeps

\* The user breaks off: the file is there, and empty.
GivesUp ==
    /\ config.at = "asking"
    /\ config' = [config EXCEPT !.at = "idle", !.saved = <<>>]
    /\ keeps

\* load(): a wrong password is a CryptoError, and the object as it was.
Load ==
    /\ config.at = "idle" /\ config.file # Nil
    /\ \E password \in user.passwords \cup {""} :
          IF config.lock \in {"", password}
          THEN config' = [config EXCEPT !.profiles = parseAll(config.file), !.fresh = TRUE]
          ELSE config' = config
    /\ keeps

Edit ==
    /\ config.at = "idle" /\ config.edits < MaxEdits
    /\ \E name \in {"default", "other"}, p \in user.profiles :
          config' = [config EXCEPT !.profiles = [n \in DOMAIN @ \cup {name} |->
                                                    IF n = name THEN p ELSE @[n]],
                                   !.edits = @ + 1, !.fresh = FALSE]
    /\ keeps

\* save(), of an object that was loaded or not: the file is emptied, then filled.
Save ==
    /\ config.at = "idle"
    /\ config' = [config EXCEPT !.file = <<>>, !.lock = "", !.saved = <<>>, !.at = "saving"]
    /\ keeps

Saved ==
    /\ config.at = "saving"
    /\ LET sections == [name \in DOMAIN config.profiles |-> marshal(config.profiles[name])] IN
       \E password \in user.passwords \cup {""} :
          config' = [config EXCEPT !.file = sections, !.lock = password, !.saved = sections,
                                   !.at = "idle"]
    /\ keeps

\* The program ends, and what it has in memory is lost.
CrashConfig ==
    /\ config.profiles # <<>> \/ config.at = "saving"
    /\ user.crashes = "anywhere" \/ (user.crashes = "between" /\ config.at = "idle")
    /\ config' = [config EXCEPT !.at = "idle", !.profiles = <<>>, !.fresh = FALSE]
    /\ keeps

-----------------------------------------------------------------------------
FilesInit ==
    /\ user \in Users
    /\ disk = disk0
    /\ program = [p \in user.programs |-> program0]
    /\ config = config0

FilesNext ==
    \/ \E p \in user.programs :
          \/ Start(p) \/ ReadPrivate(p) \/ ReadPublic(p) \/ Empties(p) \/ Fills(p) \/ Returns(p)
          \/ Crash(p)
    \/ UserMeddles
    \/ CreateConfig \/ Answered \/ GivesUp \/ Load \/ Edit \/ Save \/ Saved \/ CrashConfig

FilesSpec == FilesInit /\ [][FilesNext]_fileVars

-----------------------------------------------------------------------------
(* Properties.                                                             *)

\* Once a key was handed out it is the user's key for good, wherever the program
\* ends and however the public file is meddled with (_userkey.py:118, 191).
KeyIsKept == Cardinality(UNION {program[p].returned : p \in user.programs}) <= 1

\* When the keys are there both files are, with the same key; and a start only
\* fails over what the user did, or over a file half written (_userkey.py:139-189).
KeysAgree ==
    /\ \A p \in user.programs :
          program[p].at = "modes" => disk.priv.key = program[p].key /\ disk.pub.key = program[p].key
    /\ ~user.meddles /\ user.crashes # "anywhere" => \A p \in user.programs : ~program[p].raised

\* What was last written is what is loaded: the same profiles, with the attributes
\* that were written and no others, after any number of rounds and with any
\* password (_config.py:157-260, 297-411).
ProfilesSurvive ==
    config.fresh /\ config.at = "idle" =>
        /\ DOMAIN config.profiles = DOMAIN config.saved
        /\ \A name \in DOMAIN config.saved :
              LET written == config.saved[name] IN
              marshal(config.profiles[name]) =
                  [a \in Attributes |-> IF a \in DOMAIN written THEN written[a] ELSE ""]

\* Keys and profiles come out of their files as they were put there.
FilesSurvive == KeyIsKept /\ KeysAgree /\ ProfilesSurvive

-----------------------------------------------------------------------------
(* What the theorems take for granted.                                     *)

\* One program at a time loads the keys; nothing in the code sees to that.
Alone == \A o \in Users : \A p, q \in o.programs : p = q

\* It ends as UserType says.
Ending == \A o \in Users : o.crashes \in {"never", "between", "anywhere"}
=============================================================================
