----------------------------- MODULE ConfigFile -----------------------------
(***************************************************************************)
(* How the server reads its configuration file, internal/config/config.go, *)
(* Load and parseYAML.  The parser goes through the file line by line and  *)
(* carries two things along: the section the last heading opened and, in   *)
(* special-permission, the user the last bare "user:" line named.          *)
(*                                                                         *)
(* A line is represented by what is left of it when comments, blanks and   *)
(* one pair of quotes are removed:                                         *)
(*   header   [key]                        pair    key: values             *)
(*   item     - value                      other   a line without a colon  *)
(* values are the parts of a value between its commas, without the empty   *)
(* ones, which the end of parseYAML removes; user is what stands before a  *)
(* second colon, "" when there is none.  Lists are sets: the policy, their *)
(* only reader, asks for membership.                                       *)
(*                                                                         *)
(* A document is what somebody meant to write: a sequence of declarations, *)
(* each in one of the forms the parser knows.                              *)
(***************************************************************************)
EXTENDS Sequences, SequencesExt, FiniteSets

CONSTANTS
    Documents,  \* the sequences of declarations that may be in the file
    Given,      \* the configurations the command line may leave
    Users,      \* the users whose permissions are looked at
    Numerals    \* the values Sscanf reads a number from

VARIABLES
    doc,        \* the document, <<>> before Load is called
    conf,       \* the configuration
    file,       \* the lines that are still to be read
    section,    \* currentSection
    mapKey,     \* currentMapKey
    given       \* conf when Load was called

configVars == <<doc, conf, file, section, mapKey, given>>

(* The keys that set one field, and the fields of the lists.               *)
SettingKeys ==
    {"conf-mode", "conf_mode", "config-mode", "listen", "retention", "cfm_path", "cfm_dir",
     "cfm_max_mb", "cfm_interval", "verbose", "whitelist-enabled", "blacklist-enabled"}

Field ==
    [key \in SettingKeys |->
        CASE key \in {"conf-mode", "conf_mode", "config-mode"} -> "ConfMode"
          [] key \in {"cfm_path", "cfm_dir"} -> "CFMPath"
          [] key = "listen" -> "Listen"
          [] key = "retention" -> "Retention"
          [] key = "cfm_max_mb" -> "CFMMaxMB"
          [] key = "cfm_interval" -> "CFMIntv"
          [] key = "verbose" -> "Verbose"
          [] key = "whitelist-enabled" -> "WhitelistEnabled"
          [] key = "blacklist-enabled" -> "BlacklistEnabled"]

ListField ==
    [key \in {"base-permission", "blacklist", "whitelist"} |->
        CASE key = "base-permission" -> "BasePermission"
          [] key = "blacklist" -> "Blacklist"
          [] key = "whitelist" -> "Whitelist"]

Numbers  == {"Retention", "CFMMaxMB", "CFMIntv"}
Switches == {"Verbose", "WhitelistEnabled", "BlacklistEnabled"}

Default ==
    [Listen |-> "0.0.0.0:9932", Retention |-> "10", CFMPath |-> "./cfm-storage",
     CFMMaxMB |-> "100", CFMIntv |-> "10", Verbose |-> FALSE, ConfMode |-> "blacklist",
     BasePermission |-> {}, SpecialPermission |-> [u \in {} |-> {}],
     Blacklist |-> {}, Whitelist |-> {},
     WhitelistEnabled |-> FALSE, BlacklistEnabled |-> FALSE]

Keys == DOMAIN Field \union DOMAIN ListField \union {"special-permission"}

(* main has flags for some of the settings only.                           *)
Flags == {"Listen", "Retention", "CFMPath", "CFMMaxMB", "CFMIntv", "Verbose"}

ASSUME FlagsAssumption ==
    \A c \in Given :
        /\ DOMAIN c = DOMAIN Default
        /\ \A field \in DOMAIN Default \ Flags : c[field] = Default[field]

(* c with a field set to value; a value without a number changes nothing.  *)
Set(c, field, value) ==
    IF field \in Switches THEN [c EXCEPT ![field] = (value = "true")]
    ELSE IF field \in Numbers /\ value \notin Numerals THEN c
    ELSE [c EXCEPT ![field] = value]

Permissions(c, user) ==
    IF user \in DOMAIN c.SpecialPermission THEN c.SpecialPermission[user] ELSE {}

Grant(c, user, perms) ==
    [c EXCEPT !.SpecialPermission =
        [u \in DOMAIN @ \union {user} |-> IF u = user THEN perms ELSE @[u]]]

-----------------------------------------------------------------------------
(* What a declaration is written as.                                       *)

Line(kind, key, user, values) ==
    [kind |-> kind, key |-> key, user |-> user, values |-> values]

Items(values) == [i \in 1 .. Len(SetToSeq(values)) |-> Line("item", "", "", {SetToSeq(values)[i]})]

(* d.target is a key, or special-permission; d.form the way it is written: *)
(* a next user comes under the heading that is open.                       *)
Lines(d) ==
    CASE d.form = "pair"   -> <<Line("pair", d.target, "", d.values)>>
      [] d.form = "block"  -> <<Line("pair", d.target, "", {})>> \o Items(d.values)
      [] d.form = "header" -> <<Line("header", d.target, "", {})>> \o Items(d.values)
      [] d.form = "inline user" -> <<Line("pair", d.target, d.user, d.values)>>
      [] d.form = "user pair" ->
            <<Line("pair", d.target, "", {}), Line("pair", d.user, "", d.values)>>
      [] d.form = "user block" ->
            <<Line("pair", d.target, "", {}), Line("pair", d.user, "", {})>> \o Items(d.values)
      [] d.form = "user header" ->
            <<Line("header", d.target, "", {}), Line("pair", d.user, "", {})>> \o Items(d.values)
      [] d.form = "next user pair" -> <<Line("pair", d.user, "", d.values)>>
      [] d.form = "next user block" -> <<Line("pair", d.user, "", {})>> \o Items(d.values)
      [] d.form = "equals" -> <<Line("other", d.target, "", d.values)>>

(* What it means, whatever its form and its place: nothing, for a key that *)
(* is misspelt.                                                            *)
Declare(c, d) ==
    IF d.target \in DOMAIN Field
      THEN Set(c, Field[d.target], CHOOSE v \in d.values : TRUE)
    ELSE IF d.target \in DOMAIN ListField
      THEN [c EXCEPT ![ListField[d.target]] = d.values]
    ELSE IF d.target = "special-permission" THEN Grant(c, d.user, d.values)
    ELSE c

(* c after each of the document's declarations.                            *)
After(c, document) ==
    LET after[n \in 0 .. Len(document)] ==
          IF n = 0 THEN c ELSE Declare(after[n - 1], document[n])
    IN after

Meaning == After(given, doc)[Len(doc)]

AllLines(document) == FlattenSeq([i \in 1 .. Len(document) |-> Lines(document[i])])

(* What a document has to keep to.  Each target has its forms; a list, and *)
(* the permissions of a user, are declared once, and no user has the name  *)
(* of a key, misspelt or not.                                              *)
Opening   == {"user pair", "user block", "user header"}
Following == {"next user pair", "next user block"}

Forms(target) ==
    IF target \in DOMAIN Field THEN {"pair"}
    ELSE IF target \in DOMAIN ListField THEN {"pair", "block", "header"}
    ELSE IF target = "special-permission" THEN {"inline user"} \union Opening \union Following
    ELSE {"pair", "header", "equals"}

(* Settings, inline users and misspelt pairs leave the open section open,  *)
(* lists and headers do not.                                               *)
LeavesOpen(d) ==
    /\ d.target \notin DOMAIN ListField
    /\ d.target \notin Keys => d.form # "header"

(* After n declarations special-permission is the open section.            *)
OpenAfter(document, n) ==
    \E j \in 1 .. n :
        /\ document[j].form \in Opening
        /\ \A k \in j + 1 .. n : LeavesOpen(document[k])

WellFormed(document) ==
    /\ \A i \in 1 .. Len(document) :
          /\ document[i].form \in Forms(document[i].target)
          /\ IsFiniteSet(document[i].values)
          /\ document[i].target = "special-permission"
                => document[i].user \in Users \ (Keys \union {""})
          /\ document[i].target \notin Keys => document[i].target \notin Users
          /\ document[i].form \in Following => OpenAfter(document, i - 1)
    /\ \A i, j \in 1 .. Len(document) :
          i # j /\ document[i].target = document[j].target =>
            \/ document[i].target \notin DOMAIN ListField \union {"special-permission"}
            \/ document[i].target = "special-permission" /\ document[i].user # document[j].user

-----------------------------------------------------------------------------

ConfigInit ==
    /\ doc = <<>> /\ file = <<>>
    /\ conf = Default /\ given = Default
    /\ section = "" /\ mapKey = ""

(* main has parsed its flags into the configuration, then loads the file.  *)
Load ==
    /\ doc = <<>>
    /\ doc' \in Documents
    /\ given' \in Given
    /\ conf' = given'
    /\ file' = AllLines(doc')
    /\ UNCHANGED <<section, mapKey>>

line == Head(file)

Reads(kind) ==
    /\ file # <<>> /\ line.kind = kind
    /\ file' = Tail(file)
    /\ UNCHANGED <<doc, given>>

ReadHeader ==
    /\ Reads("header")
    /\ section' = line.key
    /\ mapKey' = ""
    /\ UNCHANGED conf

ReadItem ==
    /\ Reads("item")
    /\ conf' =
          IF section \in DOMAIN ListField
            THEN [conf EXCEPT ![ListField[section]] = @ \union line.values]
          ELSE IF section = "special-permission" /\ mapKey # ""
            THEN Grant(conf, mapKey, Permissions(conf, mapKey) \union line.values)
          ELSE conf
    /\ UNCHANGED <<section, mapKey>>

(* A setting may stand anywhere: it leaves the section open.               *)
ReadSetting ==
    /\ Reads("pair")
    /\ line.key \in DOMAIN Field
    /\ conf' = Set(conf, Field[line.key], CHOOSE v \in line.values : TRUE)
    /\ UNCHANGED <<section, mapKey>>

(* "blacklist: a,b" sets the list, "blacklist:" empties it; items may      *)
(* follow either.                                                          *)
ReadList ==
    /\ Reads("pair")
    /\ line.key \in DOMAIN ListField
    /\ conf' = [conf EXCEPT ![ListField[line.key]] = line.values]
    /\ section' = line.key
    /\ UNCHANGED mapKey

(* "special-permission: user: a,b" grants and leaves the section as it is; *)
(* "special-permission:" opens the section.                                *)
ReadSpecial ==
    /\ Reads("pair")
    /\ line.key = "special-permission"
    /\ IF line.values = {} /\ line.user = ""
         THEN /\ section' = "special-permission"
              /\ mapKey' = ""
              /\ UNCHANGED conf
         ELSE /\ conf' = IF line.user = "" THEN conf ELSE Grant(conf, line.user, line.values)
              /\ UNCHANGED <<section, mapKey>>

OtherKey == line.key \notin Keys

ReadSubKeyAsInline ==
    /\ Reads("pair") /\ OtherKey
    /\ conf' = IF section = "special-permission" THEN Grant(conf, line.key, line.values) ELSE conf
    /\ UNCHANGED <<section, mapKey>>

(* Any other key is a user inside special-permission, and is skipped       *)
(* outside of it.                                                          *)
ReadSubKey ==
    /\ Reads("pair") /\ OtherKey
    /\ IF section = "special-permission" /\ line.values = {}
         THEN mapKey' = line.key /\ UNCHANGED conf
         ELSE /\ conf' = IF section = "special-permission"
                           THEN Grant(conf, line.key, line.values) ELSE conf
              /\ UNCHANGED mapKey
    /\ UNCHANGED section

SkipLine ==
    /\ Reads("other")
    /\ UNCHANGED <<conf, section, mapKey>>

ConfigNext ==
    \/ Load
    \/ ReadHeader \/ ReadItem \/ ReadSetting \/ ReadList \/ ReadSpecial \/ ReadSubKey
    \/ SkipLine

ConfigSpec == ConfigInit /\ [][ConfigNext]_configVars

-----------------------------------------------------------------------------

ConfIs(meaning) ==
    /\ \A field \in DOMAIN conf \ {"SpecialPermission"} : conf[field] = meaning[field]
    /\ \A user \in Users : Permissions(conf, user) = Permissions(meaning, user)

(* The file was read and the configuration is the one declared: every      *)
(* declaration takes effect, in each form the parser knows ([header] lines *)
(* among them, against docs/server-docs.md:109) and in any order, for its  *)
(* own list or user and no other, over what the command line gave; a       *)
(* misspelt key changes nothing.                                           *)
FileMeansWhatItSays == file = <<>> => ConfIs(Meaning)

Unnamed(d) ==
    IF d.form \in {"header", "user header"} THEN [d EXCEPT !.target = ""] ELSE d

(* "[section] headers (section names ignored)", docs/server-docs.md:109:   *)
(* the configuration does not depend on what stands between the brackets.  *)
SectionNamesIgnored ==
    file = <<>> => ConfIs(After(given, [i \in DOMAIN doc |-> Unnamed(doc[i])])[Len(doc)])

=============================================================================
