----------------------------- MODULE Configuration -----------------------------
(***************************************************************************)
(* loadConfigFrom (config.go): from the environment to the configuration   *)
(* that the rest of the program relies on, or to the error it ends with.   *)
(*                                                                         *)
(* Abstracted: lists and API keys are trimmed, and a list is the sequence  *)
(* of its items; a number is <<>> if the variable is blank, <<n>>          *)
(* otherwise, with n < 0 for what is no number.  Texts without rules of    *)
(* their own are all there or not.                                         *)
(***************************************************************************)
EXTENDS Integers, Sequences

CONSTANTS
  CwKeys,  \* the texts that begin with cw_
  MaxInt   \* the largest int: Atoi takes more for no number

ASSUME KeysAssumption == "" \notin CwKeys
ASSUME IntAssumption  == MaxInt \in Nat /\ MaxInt >= 2147483647

VARIABLES
  env,    \* the environment
  config  \* whether it has been read, and the result: a set, empty for an error

configVars == <<env, config>>

-----------------------------------------------------------------------------
\* Lists and keys

\* setValue.
SetValue(list) == {list[i] : i \in DOMAIN list} \ {""}

\* (Mutant: users without a key are not looked for.)
KnownUsers(keys, users) ==
  /\ DOMAIN keys \subseteq users
  /\ \A u \in DOMAIN keys : keys[u] \in CwKeys

\* WECOM_CUPS_API_KEYS names whitelisted users only, and all of them.
KeysMatch(keys, users) ==
  /\ DOMAIN keys \subseteq users
  /\ \A u \in DOMAIN keys : keys[u] \in CwKeys
  /\ users \subseteq DOMAIN keys

-----------------------------------------------------------------------------
\* Numbers

Positive(fallback)         == [least |-> 1, most |-> MaxInt, fallback |-> fallback]
NonNegative(fallback, max) == [least |-> 0, most |-> max, fallback |-> fallback]

\* The settings that are numbers, and what is taken where none is given.
Settings == [
  MAX_FILE_BYTES |-> Positive(20971520), MAX_PAGES |-> Positive(20),
  RATE_LIMIT_COUNT |-> Positive(10), RATE_LIMIT_WINDOW_MS |-> Positive(600000),
  PRINT_CONFIRMATION_TTL_MS |-> Positive(600000),
  WECOM_CONFIRMATION_MAX_AGE_MS |-> Positive(600000),
  WECOM_REPLY_MIN_INTERVAL_MS |-> NonNegative(1200, 60000),
  PRINT_STATUS_POLL_MS |-> Positive(5000), PRINT_STATUS_TIMEOUT_MS |-> Positive(600000),
  WECOM_API_MAX_RETRIES |-> NonNegative(2, 5), WECOM_API_RETRY_BASE_MS |-> Positive(500),
  CUPS_REQUEST_TIMEOUT_MS |-> Positive(30000), WECOM_API_REQUEST_TIMEOUT_MS |-> Positive(60000),
  WECOM_CALLBACK_PORT |-> Positive(3000)]

\* positiveInt and nonNegativeInt return an error.
OutOfRange(n) ==
  env.numbers[n] # <<>> /\ env.numbers[n][1] \notin Settings[n].least .. Settings[n].most

\* The default of a setting, for one of them another setting.
Fallback(n, ttl) == IF n = "WECOM_CONFIRMATION_MAX_AGE_MS" THEN ttl ELSE Settings[n].fallback

\* positiveInt and nonNegativeInt.
NumberOf(n, fallback) == IF env.numbers[n] = <<>> THEN fallback ELSE env.numbers[n][1]

-----------------------------------------------------------------------------
\* loadConfigFrom

Ttl == NumberOf("PRINT_CONFIRMATION_TTL_MS", Settings["PRINT_CONFIRMATION_TTL_MS"].fallback)

Configured == [
  OpenKfIDs            |-> SetValue(env.openKfIDs),
  AllowedExternalUsers |-> SetValue(env.users),
  CupsAPIKeys          |-> env.keys,
  numbers              |-> [n \in DOMAIN Settings |-> NumberOf(n, Fallback(n, Ttl))]]

\* The texts are there, the callback key is one, and the keys are JSON.
LoadConfig ==
  /\ ~config.read
  /\ config' = [read |-> TRUE, result |->
               IF /\ env.complete
                  /\ SetValue(env.openKfIDs) # {} /\ SetValue(env.users) # {}
                  /\ KeysMatch(env.keys, SetValue(env.users))
                  /\ \A n \in DOMAIN Settings : ~OutOfRange(n)
               THEN {Configured}
               ELSE {}]
  /\ UNCHANGED env

\* Any environment.
ConfigInit ==
  /\ env.complete \in BOOLEAN /\ env.openKfIDs \in Seq(STRING) /\ env.users \in Seq(STRING)
  /\ env.keys \in [DOMAIN env.keys -> STRING]
  /\ env.numbers \in [DOMAIN Settings -> {number \in Seq(Int) : Len(number) <= 1}]
  /\ config = [read |-> FALSE, result |-> {}]

ConfigSpec == ConfigInit /\ [][LoadConfig]_configVars

\* The lookup of CupsWebClient.request: "" for a user without a key.
KeyOf(c, user) == IF user \in DOMAIN c.CupsAPIKeys THEN c.CupsAPIKeys[user] ELSE ""

-----------------------------------------------------------------------------
\* Properties

\* Whoever may print has the key that is given for them, and nobody else has one.
KeysFit(c) ==
  /\ \A u \in c.AllowedExternalUsers \cup SetValue(env.users) \cup DOMAIN env.keys :
       (KeyOf(c, u) \in CwKeys) <=> u \in c.AllowedExternalUsers
  /\ \A u \in c.AllowedExternalUsers : KeyOf(c, u) = env.keys[u]

\* What counts, waits and listens is at least 1; retries and pauses may be 0, and have
\* a maximum.
NumberFits(n, x) ==
  /\ x \in Nat
  /\ x = 0 => n \in {"WECOM_API_MAX_RETRIES", "WECOM_REPLY_MIN_INTERVAL_MS"}
  /\ n = "WECOM_API_MAX_RETRIES" => x <= 5
  /\ n = "WECOM_REPLY_MIN_INTERVAL_MS" => x <= 60000

\* The rest of the program can rely on a configuration it is started with: there are
\* accounts and customers, each customer has a key, however lists repeat or leave out
\* items, and no number is negative, zero or too large where that is not allowed
\* (loadConfigFrom, request).
ConfigFits ==
  \A c \in config.result :
    /\ c.OpenKfIDs # {} /\ c.AllowedExternalUsers # {}
    /\ "" \notin c.OpenKfIDs \cup c.AllowedExternalUsers
    /\ KeysFit(c)
    /\ \A n \in DOMAIN Settings : NumberFits(n, c.numbers[n])

=============================================================================
