----------------------------- MODULE UidMapping -----------------------------
(***************************************************************************)
(* From a signed vector of hotkeys to the UIDs an extrinsic names          *)
(* (validator_thin.py): the snapshot of the subnet at the finalized head,  *)
(* which hotkeys cannot lose their UID while the extrinsic may land, and   *)
(* the mapping of each signed policy.  An extrinsic names only UIDs, so a  *)
(* UID that changes hands in its mortal era pays a stranger.               *)
(*                                                                         *)
(* The subnet is external: registrations take a free UID or replace a      *)
(* hotkey that is neither owner-immortal nor immune, as long as more than  *)
(* MinNonImmuneUids of those are left, and an immune one otherwise.        *)
(***************************************************************************)
EXTENDS Naturals, FiniteSets, FiniteSetsExt, Absent

CONSTANTS
    SubnetUids,     \* the UIDs the subnet can give out (MaxAllowedUids)
    Newcomers,      \* hotkeys that may register
    Sellers,        \* hotkeys whose coldkey may change hands
    OwnedHotkeys, OwnerHotkey, ImmuneOwnerLimit,
    MaxRegs,        \* max_regs_per_block
    Immunity,       \* immunity_period
    MinNonImmune,
    MortalPeriod,   \* SN39_MORTAL_PERIOD_BLOCKS
    SwapDelay,      \* ColdkeySwapAnnouncementDelay
    Subnets,        \* the subnets explored: UID to hotkey and registration block
    Policies,       \* --require-policy: NONE or a pinned policy
    SignedVectors,  \* the signed vectors explored
    FirstBlock, LastBlock   \* bounds

ASSUME UidConstants ==
    /\ {ImmuneOwnerLimit, MaxRegs, Immunity, MinNonImmune, MortalPeriod, SwapDelay, FirstBlock, LastBlock} \subseteq Nat
    /\ MortalPeriod > 0
    /\ SubnetUids \subseteq Nat /\ IsFiniteSet(SubnetUids)
ASSUME SubnetsAreMaps ==
    \A s \in Subnets :
        /\ DOMAIN s \subseteq SubnetUids
        /\ s = [u \in DOMAIN s |-> [hk |-> s[u].hk, reg |-> s[u].reg]] /\ \A u \in DOMAIN s : s[u].reg \in Nat
        /\ \A u, w \in DOMAIN s : s[u].hk = s[w].hk => u = w
\* The owner of the subnet registers nothing more and keeps its coldkey.
ASSUME OwnerStays == (Newcomers \cup Sellers) \cap (OwnedHotkeys \cup {OwnerHotkey}) = {}

VARIABLES
    pinned,         \* the policy of this validator
    subnet,         \* UID to [hk, reg]
    chainBlock, regsInBlock,
    announced,      \* hotkeys whose coldkey has announced a swap, with the block
    observed,       \* ChainPreflight
    extrinsic       \* the weights that were signed, with the hotkeys they are for

uidVars == <<pinned, subnet, chainBlock, regsInBlock, announced, observed, extrinsic>>
chainSide == <<subnet, chainBlock, regsInBlock, announced>>

UidInit ==
    /\ pinned \in Policies
    /\ subnet \in Subnets
    /\ chainBlock = FirstBlock /\ regsInBlock = 0
    /\ announced \in {[h \in S |-> FirstBlock] : S \in {{}, Sellers}}
    /\ observed = NONE /\ extrinsic = NONE

----------------------------------------------------------------------------
(* The subnet                                                               *)

HotkeysOf(s) == {s[u].hk : u \in DOMAIN s}
UidOf(s, hk) == CHOOSE u \in DOMAIN s : s[u].hk = hk
RegOf(s, hk) == s[UidOf(s, hk)].reg

\* The owner's hotkeys by registration block and UID, the first of them and
\* always the subnet owner's own
Earlier(s, a, b) == RegOf(s, a) < RegOf(s, b) \/ (RegOf(s, a) = RegOf(s, b) /\ UidOf(s, a) < UidOf(s, b))
FirstOwned(s, n) ==
    LET here == OwnedHotkeys \cap HotkeysOf(s)
    IN  {h \in here : Cardinality({g \in here : Earlier(s, g, h)}) < n}
owner_immortal_hotkeys(s) ==
    LET first == FirstOwned(s, ImmuneOwnerLimit)
    IN  IF OwnerHotkey \in HotkeysOf(s) /\ OwnerHotkey \notin first /\ ImmuneOwnerLimit > 0
        THEN {OwnerHotkey} \cup FirstOwned(s, ImmuneOwnerLimit - 1)
        ELSE first

Prunable(s, block) ==
    {h \in HotkeysOf(s) \ owner_immortal_hotkeys(s) : RegOf(s, h) + Immunity <= block}

Replaces(uid, hk) == [u \in DOMAIN subnet \cup {uid} |-> IF u = uid THEN [hk |-> hk, reg |-> chainBlock] ELSE subnet[u]]

Register(hk) ==
    LET free == SubnetUids \ DOMAIN subnet
        prunable == Prunable(subnet, chainBlock)
        immune == HotkeysOf(subnet) \ (owner_immortal_hotkeys(subnet) \cup prunable)
    IN  /\ hk \notin HotkeysOf(subnet) /\ regsInBlock < MaxRegs
        /\ regsInBlock' = regsInBlock + 1
        /\ \/ free # {} /\ subnet' = Replaces(Min(free), hk)
           \/ /\ free = {}
              /\ \E out \in IF Cardinality(prunable) > MinNonImmune THEN prunable ELSE immune :
                    subnet' = Replaces(UidOf(subnet, out), hk)
        /\ UNCHANGED <<chainBlock, announced>>

NextBlock ==
    /\ chainBlock < LastBlock
    /\ chainBlock' = chainBlock + 1 /\ regsInBlock' = 0
    /\ UNCHANGED <<subnet, announced>>
AnnounceColdkeySwap(hk) ==
    /\ hk \in Sellers /\ hk \notin DOMAIN announced
    /\ announced' = [h \in DOMAIN announced \cup {hk} |-> IF h = hk THEN chainBlock ELSE announced[h]]
    /\ UNCHANGED <<subnet, chainBlock, regsInBlock>>
\* The new owner of a coldkey rotates the hotkey away from its UID.
ForeignRotation(hk, new) ==
    /\ hk \in DOMAIN announced \cap HotkeysOf(subnet)
    /\ chainBlock >= announced[hk] + SwapDelay
    /\ new \notin HotkeysOf(subnet)
    /\ subnet' = [subnet EXCEPT ![UidOf(subnet, hk)].hk = new]
    /\ UNCHANGED <<chainBlock, regsInBlock, announced>>

SubnetStep ==
    /\ \/ NextBlock
       \/ \E hk \in Newcomers : Register(hk)
       \/ \E hk \in HotkeysOf(subnet) : AnnounceColdkeySwap(hk) \/ \E new \in Newcomers : ForeignRotation(hk, new)
    /\ UNCHANGED <<pinned, observed, extrinsic>>

----------------------------------------------------------------------------
(* Which hotkeys keep their UID                                             *)

\* registered_at + immunity_period >= finalized_block + SN39_MORTAL_PERIOD_BLOCKS
\* Mutant: immune at the finalized head is enough.
temporally_immune_now(s, block) == {h \in HotkeysOf(s) : RegOf(s, h) + Immunity >= block}
temporally_immune_hotkeys(s, block) == {h \in HotkeysOf(s) : RegOf(s, h) + Immunity >= block + MortalPeriod}

replacement_safe_hotkeys(s, block) ==
    LET free == Cardinality(SubnetUids \ DOMAIN s)
        eraRegs == MaxRegs * MortalPeriod
        replacing == IF eraRegs > free THEN eraRegs - free ELSE 0
        buffered == Cardinality(Prunable(s, block)) > MinNonImmune + replacing
    IN  IF free >= eraRegs THEN HotkeysOf(s)
        ELSE owner_immortal_hotkeys(s)
                \cup (IF buffered THEN temporally_immune_hotkeys(s, block) ELSE {})

\* ChainPreflight: what is known of the head
snapshot_of_head ==
    [block |-> chainBlock, map |-> subnet, safe |-> replacement_safe_hotkeys(subnet, chainBlock),
     pendingSwaps |-> DOMAIN announced]

\* _chain_preflight_unbounded: everything is read at the finalized block.
chain_preflight ==
    /\ observed = NONE
    /\ observed' = snapshot_of_head
    /\ UNCHANGED <<pinned, chainSide, extrinsic>>

\* _require_uid_mapping_stability: every target keeps its UID whatever
\* registers, its coldkey has no announced swap, and a swap announced from now
\* on comes after the era.  A claimed rotation lock has to be proven by the
\* rotation itself (_prove_target_hotkey_rotation), which only refuses.
uid_mapping_stable(targets) ==
    /\ targets # {} /\ targets \subseteq observed.safe
    /\ SwapDelay >= MortalPeriod
    /\ targets \cap observed.pendingSwaps = {}

----------------------------------------------------------------------------
(* vector_to_uid_weights                                                    *)

\* policy is the signed block: "primary", "supply" (which carries a primary
\* block as well), "v3" or "legacy"; rows give the signed parts of a hotkey.
SignedVector(v) ==
    /\ v.policy \in {"primary", "supply", "v3", "legacy"}
    /\ \A hk \in DOMAIN v.rows : v.rows[hk].base \in Nat /\ v.rows[hk].external \in Nat
    /\ v.mass \in {0, 1}
ASSUME VectorsAreSigned == \A v \in SignedVectors : SignedVector(v)

Weight(v, hk) == v.rows[hk].base + v.rows[hk].external
PositiveHotkeys(v) == {hk \in DOMAIN v.rows : Weight(v, hk) > 0}
MassOf(v, Part(_)) == MapThenSumSet(Part, DOMAIN v.rows)

\* apply_burn, in hundredths of the total: what mapped onto the burn UID is
\* dropped first, and with nothing left all of it burns.  NONE refuses.
apply_burn(scores, burn, percent) ==
    LET miners == {u \in DOMAIN scores : u # burn /\ scores[u] > 0}
        total == MapThenSumSet(LAMBDA u : scores[u], miners)
        paid == IF burn = NONE \/ percent = 0 THEN miners ELSE miners \cup {burn}
    IN  IF miners = {} THEN IF burn = NONE THEN NONE ELSE [u \in {burn} |-> 100]
        ELSE [u \in paid |-> IF u = burn THEN total * percent
                             ELSE scores[u] * (IF burn = NONE THEN 100 ELSE 100 - percent)]

\* _resolve_burn_hotkey: the signed hotkey decides; a signed UID must be its.
burn_uid(v) == IF v.burn = NONE THEN v.burnUid ELSE UidOf(observed.map, v.burn)
resolve_burn_hotkey(v) ==
    v.burn # NONE => /\ v.burn \in HotkeysOf(observed.map)
                     /\ v.burnUid # NONE => v.burnUid = UidOf(observed.map, v.burn)

\* _validated_supply_meta: ninety parts of supply, ten burned at a hotkey.
validated_supply_meta(v) == v.burn # NONE /\ v.burnUid = NONE /\ v.percent = 10

\* _confidential_primary_meta and the row checks: all of the mass is external,
\* and is what the signed block says.
confidential_primary_rows(v) ==
    /\ \A hk \in DOMAIN v.rows : v.rows[hk].base = 0
    /\ v.mass = 1 <=> PositiveHotkeys(v) # {}

Mapped(v, hks, Value(_)) ==
    [u \in {UidOf(observed.map, hk) : hk \in hks} |-> Value(observed.map[u].hk)]

\* All or nothing: every positive hotkey has a UID, and none is the burn UID.
primary_mapping(v) ==
    IF /\ PositiveHotkeys(v) \subseteq HotkeysOf(observed.map)
       /\ \A hk \in PositiveHotkeys(v) : UidOf(observed.map, hk) # burn_uid(v)
    THEN Mapped(v, PositiveHotkeys(v), LAMBDA hk : Weight(v, hk)) ELSE NONE
confidential_primary_to_uid_weights(v) ==
    IF confidential_primary_rows(v) /\ primary_mapping(v) # NONE
    THEN apply_burn(primary_mapping(v), burn_uid(v), v.percent) ELSE NONE

\* _confidential_tdx_v3_rows: both parts have mass, the external one its share.
confidential_tdx_v3_rows(v) ==
    LET base == MassOf(v, LAMBDA hk : v.rows[hk].base)
        external == MassOf(v, LAMBDA hk : v.rows[hk].external)
    IN  base > 0 /\ external > 0 /\ external * v.shareOf = base + external
\* If a hotkey left the subnet, only the base parts are paid.
v3_to_uid_weights(v) ==
    LET here == DOMAIN v.rows \cap HotkeysOf(observed.map)
        part(hk) == IF here = DOMAIN v.rows THEN Weight(v, hk) ELSE v.rows[hk].base
    IN  IF confidential_tdx_v3_rows(v) THEN apply_burn(Mapped(v, here, part), burn_uid(v), v.percent) ELSE NONE
legacy_to_uid_weights(v) ==
    apply_burn(Mapped(v, DOMAIN v.rows \cap HotkeysOf(observed.map), LAMBDA hk : Weight(v, hk)), burn_uid(v), v.percent)

vector_to_uid_weights(v) ==
    IF \/ v.policy = "supply" /\ ~validated_supply_meta(v)
       \/ ~resolve_burn_hotkey(v)
       \/ pinned = "confidential_primary_v1" /\ v.policy \notin {"primary", "supply"}
       \/ pinned = "validated_supply_v1" /\ v.policy # "supply"
    THEN NONE
    ELSE CASE v.policy \in {"primary", "supply"} -> confidential_primary_to_uid_weights(v)
           [] v.policy = "v3"     -> v3_to_uid_weights(v)
           [] v.policy = "legacy" -> legacy_to_uid_weights(v)

\* The tick maps the vector at the snapshot, proves the mapping and signs.
sign_weights(v) ==
    LET weights == vector_to_uid_weights(v)
    IN  /\ observed # NONE /\ extrinsic = NONE
        /\ weights # NONE
        /\ DOMAIN weights \subseteq DOMAIN observed.map
        /\ uid_mapping_stable({observed.map[u].hk : u \in DOMAIN weights})
        /\ extrinsic' = [vector |-> v, weights |-> weights, at |-> observed.block]
        /\ UNCHANGED <<pinned, chainSide, observed>>

UidNext == SubnetStep \/ chain_preflight \/ \E v \in SignedVectors : sign_weights(v)

----------------------------------------------------------------------------
(* Properties                                                               *)

\* Vectors and the subnet have their shapes.
UidTypeOK ==
    /\ \A v \in SignedVectors : SignedVector(v)
    /\ DOMAIN subnet \subseteq SubnetUids
    /\ Cardinality(HotkeysOf(subnet)) = Cardinality(DOMAIN subnet)

CanLand == extrinsic # NONE /\ chainBlock <= extrinsic.at + MortalPeriod - 1

\* Whenever the extrinsic may still land, each UID it names belongs to a hotkey
\* the signed vector pays or to its burn destination, and under a primary policy
\* every hotkey the vector pays is among them, whatever registered, was replaced
\* or changed owner since the snapshot (_chain_preflight_unbounded,
\* _require_uid_mapping_stability, _confidential_primary_to_uid_weights).
LandsOnSigned ==
    CanLand =>
        LET v == extrinsic.vector
            named == DOMAIN extrinsic.weights
        IN  /\ named \subseteq DOMAIN subnet
            /\ \A u \in named : subnet[u].hk \in PositiveHotkeys(v) \cup {v.burn} \/ u = v.burnUid
            /\ v.policy \in {"primary", "supply"} =>
                  PositiveHotkeys(v) \subseteq {subnet[u].hk : u \in named}

\* The chain mapping: types, and every UID is one the signed vector means.
UidInv == UidTypeOK /\ LandsOnSigned
=============================================================================
