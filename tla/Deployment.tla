----------------------------- MODULE Deployment -----------------------------
(***************************************************************************)
(* The two cards of a robot and what makes them meet: the master's private *)
(* key against the public key the slave trusts, and one hotspot, name and  *)
(* password, on both.  The window (ui/wizard_state.py, _build_flash_job of *)
(* ui/flash_view_model.py) keeps the key pair in two files from run to run *)
(* (core/keygen.py) and the hotspot's name in memory for one deployment;   *)
(* the command line (cli/main.py) keeps neither.                           *)
(*                                                                         *)
(* The program may end between any two steps, the disk may be full, and    *)
(* another program may hold a file open so that it can neither be read nor *)
(* written.  The window is the only one of its kind (module SessionGuard). *)
(***************************************************************************)
EXTENDS Naturals, FiniteSets

CONSTANTS Key, Ssid, Psk,  \* what can be generated or typed
          DefaultPsk       \* DEFAULT_HOTSPOT_PASSWORD

None == "none"
ASSUME DeploymentAssumption == DefaultPsk \in Psk /\ None \notin (Key \cup Ssid \cup Psk)

Role    == {"master", "slave"}
Halves  == {"priv", "pub"}           \* id_ed25519 and id_ed25519.pub
File    == Halves \cup {"hotspot"}   \* hotspot.json
Content == Key \cup {"absent", "empty"}
ASSUME ContentAssumption == {"absent", "empty"} \cap Key = {}

VARIABLES
  file,     \* the two files of the key pair
  held,     \* files another program holds open
  minted,   \* keys generated so far
  pc,       \* the window: "closed", "idle", or a step of the flash in hand
  ssid, psk, role, done,  \* of WizardState; psk None is the blank field
  pair,     \* the key pair in hand
  robot,    \* the cards of the robot on the bench
  carried,  \* history: keys some card of the window has, private or trusted
  unread,   \* history: a build could not read a file that is there
  retyped   \* history: the password was changed between the robot's cards

wizard == <<ssid, psk, role, done>>
store  == <<file, held, minted>>
seen   == <<carried, unread, retyped>>
vars   == <<store, pc, wizard, pair, robot, seen>>

NoPair == [half \in Halves |-> None]
Blank  == [by |-> None, key |-> None, ssid |-> None, psk |-> None]

Init ==
  /\ file = [half \in Halves |-> "absent"] /\ held = {} /\ minted = {}
  /\ pc = "closed" /\ ssid = None /\ psk = None /\ role = None /\ done = {}
  /\ pair = NoPair /\ robot = [r \in Role |-> Blank]
  /\ carried = {} /\ unread = FALSE /\ retyped = FALSE

-----------------------------------------------------------------------------
(* The operator at the window.                                             *)

\* The hotspot's name is drawn as the wizard's state is made.
Open ==
  /\ pc = "closed" /\ pc' = "idle"
  /\ ssid' \in Ssid /\ psk' = None /\ role' = None /\ done' = {}
  /\ retyped' = FALSE
  /\ UNCHANGED <<store, pair, robot, carried, unread>>

\* Step 2 of the wizard, which BACK reaches from the next card's Step 4 too.
SetHotspotPassword(p) ==
  /\ pc = "idle" /\ psk' = p /\ p # psk
  /\ retyped' = (retyped \/ done # {})
  /\ UNCHANGED <<store, pc, ssid, role, done, pair, robot, carried, unread>>

SetCurrentRole(r) ==
  /\ pc = "idle" /\ role' = r
  /\ UNCHANGED <<store, pc, ssid, psk, done, pair, robot, seen>>

\* Deviation: every card gets a name of its own.
ResetMints ==
  /\ pc = "idle" /\ done # {} /\ done # Role
  /\ role' = None /\ ssid' \in Ssid
  /\ UNCHANGED <<store, pc, psk, done, pair, robot, seen>>

\* "Insert next card", offered until both roles are done.
ResetForNextCycle ==
  /\ pc = "idle" /\ done # {} /\ done # Role
  /\ role' = None
  /\ UNCHANGED <<store, pc, ssid, psk, done, pair, robot, seen>>

\* "Flash another", offered once they are: the next robot.
EndSession ==
  /\ pc = "idle" /\ done = Role
  /\ ssid' \in Ssid /\ role' = None /\ done' = {}
  /\ robot' = [r \in Role |-> Blank] /\ retyped' = FALSE
  /\ UNCHANGED <<store, pc, psk, pair, carried, unread>>

-----------------------------------------------------------------------------
(* The flash job is built in one go on the window's thread.                *)

\* Deviation: that the files are there is enough.
LoadablePresent == \A half \in Halves : half \notin held /\ file[half] # "absent"

\* load_persisted_pair: both files are there, readable, and begin as they
\* should; whether they belong together is not looked at.
Loadable == \A half \in Halves : half \notin held /\ file[half] \in Key

LoadPair ==
  /\ pc = "idle" /\ role # None
  /\ IF Loadable
     THEN pair' = file /\ pc' = "hotspot" /\ UNCHANGED <<minted, unread>>
     ELSE /\ \E k \in Key \ minted :
               minted' = minted \cup {k} /\ pair' = [half \in Halves |-> k]
          /\ pc' = "priv"
          /\ unread' = (unread \/ \E half \in Halves \cap held : file[half] \in Key)
  /\ UNCHANGED <<file, held, wizard, robot, carried, retyped>>

\* Deviation: the private file is all there is to save.
AfterPrivOnly(half) == "hotspot"

\* save_persisted_pair: one file, then the other.
After(half) == IF half = "priv" THEN "pub" ELSE "hotspot"

SaveHalf(half) ==
  /\ pc = half /\ half \notin held
  /\ file' = [file EXCEPT ![half] = pair[half]]
  /\ pc' = After(half)
  /\ UNCHANGED <<held, minted, wizard, pair, robot, seen>>

\* What is raised ends the build; the screen shows it and offers RETRY.
GiveUp == pc' = "idle" /\ pair' = NoPair

\* The file is open elsewhere and stays as it is, or it was emptied and there
\* is no room to write it.
SaveHalfFails(half) ==
  /\ pc = half
  /\ \/ half \in held /\ UNCHANGED file
     \/ half \notin held /\ file' = [file EXCEPT ![half] = "empty"]
  /\ GiveUp
  /\ UNCHANGED <<held, minted, wizard, robot, seen>>

\* save_persisted_hotspot, and the checks of the Wi-Fi, the role and the target
\* (module CardArming) that come after it.
JobReady ==
  /\ pc = "hotspot" /\ "hotspot" \notin held
  /\ pc' = "flashing"
  /\ UNCHANGED <<store, wizard, pair, robot, seen>>

JobRefused ==
  /\ pc = "hotspot" /\ GiveUp
  /\ UNCHANGED <<store, wizard, robot, seen>>

\* Of the pair, what the role's card gets; the password falls back on the default.
KeyOn(r, p)  == IF r = "master" THEN p["priv"] ELSE p["pub"]
PskOf(typed) == IF typed = None THEN DefaultPsk ELSE typed

FlashDone ==
  /\ pc = "flashing" /\ pc' = "idle" /\ pair' = NoPair
  /\ robot' = [robot EXCEPT ![role] =
                 [by |-> "window", key |-> KeyOn(role, pair), ssid |-> ssid, psk |-> PskOf(psk)]]
  /\ done' = done \cup {role}
  /\ carried' = carried \cup {KeyOn(role, pair)}
  /\ UNCHANGED <<store, ssid, psk, role, unread, retyped>>

\* Before anything was written, or with the card left blank (module FlashJob).
FlashFails ==
  /\ pc = "flashing" /\ GiveUp
  /\ robot' \in {robot, [robot EXCEPT ![role] = Blank]}
  /\ UNCHANGED <<store, wizard, seen>>

\* The window ends, in whatever it is doing; a file just opened for writing may
\* be left empty.
End ==
  /\ pc # "closed" /\ pc' = "closed" /\ pair' = NoPair
  /\ \/ UNCHANGED file
     \/ \E half \in Halves \ held : pc = half /\ file' = [file EXCEPT ![half] = "empty"]
  /\ \/ UNCHANGED robot
     \/ pc = "flashing" /\ robot' = [robot EXCEPT ![role] = Blank]
  /\ UNCHANGED <<held, minted, wizard, seen>>

-----------------------------------------------------------------------------
\* One card to a call of the command line, with a key pair and a hotspot's name
\* of its own.
CommandLine(r) ==
  /\ \E k \in Key \ minted, s \in Ssid, p \in Psk :
       /\ minted' = minted \cup {k}
       /\ robot' = [robot EXCEPT ![r] = [by |-> "cli", key |-> k, ssid |-> s, psk |-> p]]
  /\ UNCHANGED <<file, held, pc, wizard, pair, seen>>

Hold(f) ==
  /\ f \notin held /\ (f \in Halves => file[f] # "absent")
  /\ held' = held \cup {f}
  /\ UNCHANGED <<file, minted, pc, wizard, pair, robot, seen>>

Release(f) ==
  /\ f \in held /\ held' = held \ {f}
  /\ UNCHANGED <<file, minted, pc, wizard, pair, robot, seen>>

Operator ==
  \/ Open \/ ResetForNextCycle \/ EndSession
  \/ \E p \in Psk \cup {None} : SetHotspotPassword(p)
  \/ \E r \in Role : SetCurrentRole(r)
Build ==
  \/ LoadPair \/ JobReady \/ JobRefused \/ FlashDone \/ FlashFails
  \/ \E half \in Halves : SaveHalf(half) \/ SaveHalfFails(half)
Outside ==
  \/ End
  \/ \E f \in File : Hold(f) \/ Release(f)
  \/ \E r \in Role : CommandLine(r)

Next == Operator \/ Build \/ Outside

Spec == Init /\ [][Next]_vars

-----------------------------------------------------------------------------
CardType == [by : {None, "window", "cli"}, key : Key \cup {None},
             ssid : Ssid \cup {None}, psk : Psk \cup {None}]

TypeOK ==
  /\ file \in [Halves -> Content] /\ held \subseteq File /\ minted \subseteq Key
  /\ pc \in {"closed", "idle", "priv", "pub", "hotspot", "flashing"}
  /\ ssid \in Ssid \cup {None} /\ psk \in Psk \cup {None}
  /\ role \in Role \cup {None} /\ done \subseteq Role
  /\ pair \in [Halves -> Key \cup {None}] /\ robot \in [Role -> CardType]
  /\ carried \subseteq Key /\ unread \in BOOLEAN /\ retyped \in BOOLEAN

\* No card gets a key that the store does not have, both halves of it, as the
\* flash begins and to its end: whatever fails in saving the pair, the next run
\* knows what the cards of this one were given.
JobKeysStored == pc = "flashing" => file = pair

\* Re-flashing one card in a later run does not shut out the other: the key a
\* card of the window has stays in the store whole, through ends at any moment
\* and a full disk, as long as every build could read the files that were there.
TrustKept == unread \/ \A k \in carried, half \in Halves : file[half] = k

\* A robot both of whose cards the window calls done in one deployment comes up:
\* one hotspot name on both cards, one password unless it was typed again in
\* between, and a master the slave trusts unless the stored key was unreadable.
PairMeets ==
  LET m == robot["master"]  s == robot["slave"]
  IN  done = Role /\ m.by = "window" /\ s.by = "window"
        => /\ m.ssid = s.ssid
           /\ retyped \/ m.psk = s.psk
           /\ unread \/ m.key = s.key
=============================================================================
