----------------------------- MODULE Authorization -----------------------------
(***************************************************************************)
(* Who may reach a component: the manifest parser's effective attributes,   *)
(* the matrix of effective authorization (one row per direction and path    *)
(* region), the verdict on a receiver registered by code, and, as the       *)
(* reference they are held against, what Android itself checks.             *)
(*                                                                          *)
(* Abstractions: a permission is a name, a protection level its bases and   *)
(* whether it holds a word the parser does not know, or a number; a         *)
(* path-permission guards one path.  A protection hint is named by the      *)
(* permission it was taken from.  No caller of the matrix knows the path    *)
(* of an access, so all regions count.                                      *)
(***************************************************************************)
EXTENDS Integers, Sequences, FiniteSets, SequencesExt

CONSTANTS
    None,           \* no permission
    Catalog,        \* PLATFORM_PERMISSION_CATALOG: permission -> level
    PlatformNames   \* names that begin with android.permission.

FirstOf(names) == LET given == {i \in DOMAIN names : names[i] # None}
                  IN  IF given = {} THEN None
                      ELSE names[CHOOSE i \in given : \A j \in given : i <= j]
-----------------------------------------------------------------------------
\* Levels and permissions.

StrongBases == {"signature", "signatureOrSystem", "knownSigner", "internal"}
BaseByNumber == <<"normal", "dangerous", "signature", "signatureOrSystem",
                  "knownSigner", "internal">>
FlagLimit == 2^25       \* the flags known are the bits from 4 to 24

\* A level written as a number is read by its bits.
Tokens(level) ==
    IF level.number = -1 THEN [bases |-> level.bases, odd |-> level.odd]
    ELSE LET base == level.number % 16
         IN  [bases |-> IF base < Len(BaseByNumber) THEN <<BaseByNumber[base + 1]>> ELSE << >>,
              odd   |-> level.number >= FlagLimit]

TokenStatus(t) == CASE t.odd \/ Len(t.bases) # 1 -> "unknown"
                    [] t.bases[1] \in StrongBases -> "strongly_protected"
                    [] OTHER -> "conditional"
LevelStatus(level) == TokenStatus(Tokens(level))

\* Of a permission and its hint.
PermissionPolicy(m, given) ==
    LET permission == given[1]
        hint == given[2]
    IN  CASE permission = None -> "unprotected"
          [] permission \in DOMAIN m.declared -> LevelStatus(m.declared[permission])
          [] permission \in DOMAIN Catalog \ DOMAIN m.declared -> LevelStatus(Catalog[permission])
          [] permission \in PlatformNames \ (DOMAIN Catalog \cup DOMAIN m.declared) -> "unknown"
          [] OTHER -> IF hint \in DOMAIN m.declared THEN LevelStatus(m.declared[hint])
                      ELSE "unknown"
-----------------------------------------------------------------------------
\* What parse_manifest makes of a component.

EffectiveExported(m, r) ==
    CASE r.exported # "absent" -> r.exported
      [] r.kind = "provider" /\ r.exported = "absent" ->
            IF m.targetSdk = 0 THEN "unknown" ELSE IF m.targetSdk < 17 THEN "true" ELSE "false"
      [] OTHER -> IF ~r.filtered THEN "false"
                  ELSE IF m.targetSdk >= 31 THEN "conditional" ELSE "true"

Inherited(m, r) == FirstOf(<<r.permission, m.appPermission>>)

Target(m, r) == {t \in m.activities : t.name = r.aliasOf}

ParsedPermission(m, r) ==
    LET above == UNION {{Inherited(m, t)} : t \in Target(m, r)} \ {None}
    IN  IF r.aliasOf # None /\ r.permission = None /\ above # {}
        THEN CHOOSE p \in above : TRUE ELSE Inherited(m, r)

Parsed(m, r) ==
    [r EXCEPT !.permission = ParsedPermission(m, r)]
    @@ [declares |-> r.permission, effective |-> EffectiveExported(m, r)]
-----------------------------------------------------------------------------
\* The matrix.

Directions(operation, mode) ==
    CASE operation = "query" -> {"read"}
      [] operation = "openFile" ->
            LET named == (IF mode \in {"r", "rw", "rwt"} THEN {"read"} ELSE {})
                         \cup (IF mode \in {"w", "wa", "rw", "rwt"} THEN {"write"} ELSE {})
            IN  IF named = {} THEN {"read", "write"} ELSE named
      [] operation \in {"insert", "update", "delete", "call", "applyBatch"} -> {"write"}
      [] operation = "provider_access" -> {"read", "write"}
      [] OTHER -> {"entry"}

OwnPermission(policy, direction) ==
    CASE direction = "read"  -> FirstOf(<<policy.read, policy.permission>>)
      [] direction = "write" -> FirstOf(<<policy.write, policy.permission>>)
      [] OTHER -> policy.permission

\* The hint of a path-permission is of its readPermission (writePermission) or
\* else of the component's permission, whichever permission it is used for.
PolicyHint(c, policy, direction) ==
    CASE direction = "read"  -> FirstOf(<<policy.read, c.permission>>)
      [] direction = "write" -> FirstOf(<<policy.write, c.permission>>)
      [] OTHER -> None

ComponentPermission(c, direction) ==
    CASE direction = "read"  -> FirstOf(<<c.read, c.permission>>)
      [] direction = "write" -> FirstOf(<<c.write, c.permission>>)
      [] OTHER -> c.permission

AliasPermission(m, c) ==
    IF c.declares # None THEN c.declares
    ELSE FirstOf(SetToSeq({Inherited(m, t) : t \in Target(m, c)}))

\* <<permission, hint>>
EffectivePermission(m, c, direction, policies) ==
    LET own == {p \in policies : OwnPermission(p, direction) # None}
        alias == IF c.aliasOf = None THEN None ELSE AliasPermission(m, c)
        hinted(p) == <<p, p>>
    IN  IF own # {}
        THEN LET p == CHOOSE p \in own : TRUE
             IN  <<OwnPermission(p, direction), PolicyHint(c, p, direction)>>
        ELSE hinted(FirstOf(<<alias, ComponentPermission(c, direction), m.appPermission>>))

UriGrant(c, policies) ==
    c.grant \in {"true", "unknown"} \/ \E p \in policies : p.path \in c.patterns

Reachability(c) == CASE c.effective = "true"  -> "reachable"
                     [] c.effective = "false" -> "not_reachable"
                     [] OTHER -> "conditional"

AuthorityGaps(c) ==
    (IF c.authority = "placeholder" THEN {"AUTHORITY_PLACEHOLDER_UNRESOLVED"} ELSE {})
    \cup (IF c.authority = "shared" THEN {"DUPLICATE_PROVIDER_AUTHORITY"} ELSE {})

\* The row of one direction and one region (no policy, or one) is that of the
\* status of the permission.
RowOf(c, status, grant) ==
    [status |-> CASE grant -> "conditional"
                  [] ~grant /\ Reachability(c) = "not_reachable" /\ status = "unprotected" ->
                        "protected"
                  [] OTHER -> status,
     gaps   |-> AuthorityGaps(c) \cup
                (IF status = "unknown" THEN {"AUTHORIZATION_PERMISSION_UNKNOWN"} ELSE {}),
     grant  |-> grant]
Row(m, c, direction, policies) ==
    RowOf(c, PermissionPolicy(m, EffectivePermission(m, c, direction, policies)),
          UriGrant(c, policies))

Regions(c) == {{}} \cup {{p} : p \in c.paths}
Matrix(m, c, operation, mode) ==
    {Row(m, c, d, region) : d \in Directions(operation, mode), region \in Regions(c)}

Ranked == <<"unprotected", "conditional", "unknown", "protected", "strongly_protected">>

\* The weakest row is the verdict.
Weakest_Strongest(statuses) ==
    Ranked[CHOOSE i \in DOMAIN Ranked :
        Ranked[i] \in statuses /\ \A j \in (i + 1)..Len(Ranked) : Ranked[j] \notin statuses]
Weakest(statuses) ==
    Ranked[CHOOSE i \in DOMAIN Ranked :
        Ranked[i] \in statuses /\ \A j \in 1..(i - 1) : Ranked[j] \notin statuses]
Verdict(rows) ==
    [status |-> Weakest({row.status : row \in rows}),
     gaps   |-> UNION {row.gaps : row \in rows},
     grant  |-> \E row \in rows : row.grant]
Evaluate(m, c, operation, mode) == Verdict(Matrix(m, c, operation, mode))

Closed(verdict) == verdict.status = "strongly_protected" /\ ~verdict.grant
-----------------------------------------------------------------------------
\* Receivers registered by code.

\* Where the permission and the flags stand among the arguments: << >> for an
\* overload that is not known, 0 for an argument the overload has not.
OverloadOf(family, args) ==
    CASE family = "local_broadcast" /\ args = 2 -> <<0, 0>>
      [] family = "context_compat" /\ args = 4 -> <<0, 3>>
      [] family = "context_compat" /\ args = 6 -> <<3, 5>>
      [] family = "platform_context" /\ args = 2 -> <<0, 0>>
      [] family = "platform_context" /\ args = 3 -> <<0, 2>>
      [] family = "platform_context" /\ args = 4 -> <<2, 0>>
      [] family = "platform_context" /\ args = 5 -> <<2, 4>>
      [] OTHER -> << >>
Overload(reg) == IF reg.fits THEN OverloadOf(reg.family, reg.args) ELSE << >>

\* Flags are the set of bits that are 1, or "opaque".
FlagStatus(reg) ==
    LET overload == Overload(reg)
    IN  CASE reg.family = "local_broadcast" -> "local"
          [] reg.family # "local_broadcast" /\ overload # << >> /\ overload[2] = 0 -> "legacy_unspecified"
          [] /\ reg.family # "local_broadcast"
             /\ overload = << >> \/ (overload[2] # 0 /\ reg.flags = {"opaque"}) -> "unknown"
          [] OTHER -> CASE {"EXPORTED", "NOT_EXPORTED"} \subseteq reg.flags -> "unknown"
                        [] reg.flags \cap {"EXPORTED", "NOT_EXPORTED"} = {"NOT_EXPORTED"} -> "not_exported"
                        [] reg.flags \cap {"EXPORTED", "NOT_EXPORTED"} = {"EXPORTED"} -> "exported"
                        [] OTHER -> "unknown"

PermissionStatus(m, reg) ==
    LET overload == Overload(reg)
    IN  CASE overload = << >> -> "unknown"
          [] overload # << >> /\ overload[1] # 0 /\ reg.permission = "opaque" -> "unknown"
          [] OTHER -> PermissionPolicy(m, <<IF overload[1] = 0 THEN None ELSE reg.permission, None>>)

ProtectedOnly(reg) == reg.actions # {} /\ reg.actions \subseteq {"protected"}

Reachable(reg, flags) ==
    CASE flags \in {"local", "not_exported"} \/ ProtectedOnly(reg) -> "no"
      [] flags = "exported" /\ ~ProtectedOnly(reg) -> "yes"
      [] OTHER -> "maybe"

\* Codes that say the same of a registration are one here, all critical: flags
\* that are unknown are so because they or their overload could not be read
\* (RECEIVER_FLAG_UNKNOWN), conflict (RECEIVER_FLAG_CONFLICT) or decide nothing
\* (RECEIVER_FLAG_EXPORT_STATE_UNKNOWN); a permission for its level, its
\* expression (DYNAMIC_RECEIVER_PERMISSION_UNRESOLVED) or its overload
\* (RECEIVER_REGISTRATION_OVERLOAD_UNKNOWN).
RegistrationVerdict(m, reg) ==
    LET verdict(flags, permission, reachable) ==
            [reported  |-> /\ reg.family # "application_method" /\ ~reg.sticky
                           /\ reachable # "no" /\ permission # "strongly_protected",
             reachable |-> reachable,
             status    |-> permission,
             gaps      |-> (IF flags = "unknown" THEN {"RECEIVER_FLAG_UNKNOWN"} ELSE {})
                           \cup (IF permission = "unknown"
                                 THEN {"RECEIVER_PERMISSION_PROTECTION_UNKNOWN"} ELSE {})
                           \cup (IF "opaque" \in reg.actions THEN {"RECEIVER_ACTION_UNRESOLVED"} ELSE {})]
    IN  verdict(FlagStatus(reg), PermissionStatus(m, reg), Reachable(reg, FlagStatus(reg)))
-----------------------------------------------------------------------------
\* What Android checks, when an app that holds the permissions of some levels asks.

\* One whose value is not known may be exported; without a target the oldest
\* platform's default holds.
ExportedByAndroid(m, r) ==
    CASE r.exported = "absent" /\ r.kind = "provider" -> m.targetSdk < 17
      [] r.exported = "absent" /\ r.kind # "provider" -> r.filtered
      [] OTHER -> r.exported # "false"

\* Levels of the permissions an app is taken to hold: none, those any app may
\* get, and those one cannot rule out that it gets.
Nothing == {}
Obtainable == {"conditional"}
MayObtain == {"conditional", "unknown"}

Has(m, levels, p) ==
    LET level == IF p \in DOMAIN m.declared THEN m.declared[p] ELSE Catalog[p]
    IN  CASE p = None -> TRUE
          [] p \in (DOMAIN m.declared \cup DOMAIN Catalog) \ {None} -> LevelStatus(level) \in levels
          [] OTHER -> levels # Nothing /\ (p \notin PlatformNames \/ "unknown" \in levels)

\* A guard of a path is one more way in, where the provider has a permission.
OpenAt(m, r, direction, path, levels) ==
    LET direct == FirstOf(<<IF direction = "read" THEN r.read ELSE r.write, Inherited(m, r)>>)
        guards == {OwnPermission(p, direction) : p \in {q \in r.paths : q.path = path}} \ {None}
    IN  \/ direct # None /\ Has(m, levels, direct)
        \/ \E g \in guards : Has(m, levels, g)
        \/ direct = None /\ guards = {}

Paths(r) == {p.path : p \in r.paths} \cup {"elsewhere"}

\* call() asks only for some way into the provider; a file opened for writing
\* asks for the write permission alone; an alias has its own permission or none.
Admits(m, r, operation, mode, levels) ==
    LET open(directions) == \E d \in directions, p \in Paths(r) : OpenAt(m, r, d, p, levels)
    IN  CASE operation \in {"call", "provider_access"} -> open({"read", "write"})
          [] operation \in {"insert", "update", "delete", "applyBatch"} -> open({"write"})
          [] operation = "query" -> open({"read"})
          [] operation = "openFile" ->
                open(CASE mode = "r" -> {"read"} [] mode = "any" -> {"read", "write"}
                       [] OTHER -> {"write"})
          [] OTHER -> Has(m, levels, IF r.aliasOf # None THEN r.permission ELSE Inherited(m, r))
===============================================================================
