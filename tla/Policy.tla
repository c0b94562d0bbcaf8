------------------------------- MODULE Policy -------------------------------
(***************************************************************************)
(* The access policy of the server's configuration, internal/config: which *)
(* users may have accounts and tokens, and which commands a user may run.  *)
(* A configuration is a record of the fields the policy reads.  Commands   *)
(* are named by their routes: routeCommand gives each route a name of its  *)
(* own.                                                                    *)
(***************************************************************************)
CONSTANT
    Covers          \* <<pattern, route>>: path.Match matches the route's command

IsBlacklisted(cfg, u) == cfg.BlacklistEnabled /\ u \in cfg.Blacklist

IsWhitelisted(cfg, u) == cfg.WhitelistEnabled /\ u \in cfg.Whitelist

(* The whitelist, when it is enabled, is all that counts.                  *)
HasAccess(cfg, u) ==
    IF cfg.WhitelistEnabled THEN IsWhitelisted(cfg, u) ELSE ~IsBlacklisted(cfg, u)

(* Special permissions add to the base ones.                               *)
GetPermissions(cfg, u) ==
    cfg.BasePermission
    \union (IF u \in DOMAIN cfg.SpecialPermission THEN cfg.SpecialPermission[u] ELSE {})

(* A mode that is not "whitelist", misspelt or missing, means blacklist.   *)
NormalizeConfMode(cfg) == IF cfg.ConfMode = "whitelist" THEN "whitelist" ELSE "blacklist"

CommandAllowedByBase(cfg, u, route) ==
    LET matched == \E p \in cfg.BasePermission : <<p, route>> \in Covers
    IN  matched <=> NormalizeConfMode(cfg) = "whitelist"

(* A matching pattern grants the command in one mode and denies it in the  *)
(* other.                                                                  *)
CommandAllowed(cfg, u, route) ==
    LET matched == \E p \in GetPermissions(cfg, u) : <<p, route>> \in Covers
    IN  matched <=> NormalizeConfMode(cfg) = "whitelist"

=============================================================================
