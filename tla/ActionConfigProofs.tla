-------------------------- MODULE ActionConfigProofs --------------------------
(***************************************************************************)
(* The channels of an Action for every number of channel ids that is not a *)
(* multiple of 3, 2^32 among them.                                         *)
(***************************************************************************)
EXTENDS ActionConfig, TLAPS

(* The two bounds on slotCount, the generator's (2**32 - 1) // 3 and the    *)
(* loader's (max - 2) / 3 + 1, are the same.                                *)
THEOREM SameBound == PyMaxSlotCount = MaxSlotCount
  BY ActionConfigAssumption DEF PyMaxSlotCount, MaxSlotCount

(* No channel id of an accepted slotCount wraps. *)
LEMMA ChannelIdFits ==
  ASSUME NEW n \in Nat, n <= MaxSlotCount, NEW s \in 0..(n - 1), NEW k \in 1..3
  PROVE  /\ s * 3 + k - 1 \in 0..(ChannelIds - 1)
         /\ (s * 3) % ChannelIds = s * 3
         /\ (((s * 3) % ChannelIds) + k - 1) % ChannelIds = s * 3 + k - 1
<1>1. s * 3 + 2 < ChannelIds
  BY ActionConfigAssumption DEF MaxSlotCount
<1>2. s * 3 \in 0..(ChannelIds - 1) /\ s * 3 + k - 1 \in 0..(ChannelIds - 1)
  BY <1>1, ActionConfigAssumption
<1>3. \A x \in 0..(ChannelIds - 1) : x % ChannelIds = x
  BY ActionConfigAssumption
<1> QED
  BY <1>2, <1>3

(* For every slotCount the loader accepts, the channels it computes in      *)
(* fixed width are those the generator wrote.                               *)
THEOREM ChannelsAgree ==
  ASSUME NEW n \in Nat, n <= MaxSlotCount
  PROVE  AppendSlotChannels(n) = PyChannels(n)
<1>1. ASSUME NEW s \in 0..(n - 1), NEW k \in 1..3
      PROVE  (((s * 3) % ChannelIds) + k - 1) % ChannelIds = s * 3 + k - 1
  BY ChannelIdFits
<1>2. \A s \in 0..(n - 1) :
        SlotChannels(s) = {[slot |-> s, kind |-> Kinds[k], id |-> s * 3 + k - 1] : k \in 1..3}
  BY <1>1 DEF SlotChannels
<1> QED
  BY <1>2 DEF AppendSlotChannels, PyChannels

(* Every Action the loader accepts has its channels: no id twice, so no     *)
(* packet of one slot is taken for one of another, and three for each slot. *)
THEOREM AcceptedActionInitializes ==
  ASSUME NEW entry, entry.slotCount \in Nat, ParseAction(entry)
  PROVE  EndpointInitializes(entry)
<1> DEFINE n == entry.slotCount
           Channel(s, k) == [slot |-> s, kind |-> Kinds[k], id |-> s * 3 + k - 1]
<1>1. n \in Nat /\ n <= MaxSlotCount
  BY DEF ParseAction
<1>2. AppendSlotChannels(n) = {Channel(s, k) : s \in 0..(n - 1), k \in 1..3}
  BY <1>1, ChannelsAgree DEF PyChannels
<1> HIDE DEF n, Channel
<1>3. \A s \in 0..(n - 1), k \in 1..3 : Channel(s, k) \in AppendSlotChannels(n)
  BY <1>2
<1>4. \A s \in 0..(n - 1), k \in 1..3 :
        Channel(s, k).slot = s /\ Channel(s, k).kind = Kinds[k] /\ Channel(s, k).id = s * 3 + k - 1
  BY DEF Channel
<1>5. ASSUME NEW s \in 0..(n - 1), NEW k \in 1..3, NEW t \in 0..(n - 1), NEW l \in 1..3,
             s * 3 + k - 1 = t * 3 + l - 1
      PROVE  s = t /\ k = l
  BY <1>1, <1>5
<1>6. \A c, d \in AppendSlotChannels(n) : c.id = d.id => c = d
  <2> SUFFICES ASSUME NEW c \in AppendSlotChannels(n), NEW d \in AppendSlotChannels(n), c.id = d.id
               PROVE  c = d
    OBVIOUS
  <2>1. PICK s \in 0..(n - 1), k \in 1..3 : c = Channel(s, k)
    BY <1>2
  <2>2. PICK t \in 0..(n - 1), l \in 1..3 : d = Channel(t, l)
    BY <1>2
  <2>3. s * 3 + k - 1 = t * 3 + l - 1
    BY <2>1, <2>2, <1>4
  <2> QED
    BY <2>1, <2>2, <2>3, <1>5
<1>7. \A s \in 0..(n - 1), k \in 1..3 :
        \E c \in AppendSlotChannels(n) : c.slot = s /\ c.kind = Kinds[k]
  BY <1>3, <1>4
<1> QED
  BY <1>6, <1>7 DEF EndpointInitializes, n
=============================================================================
