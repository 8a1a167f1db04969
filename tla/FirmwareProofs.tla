--------------------------- MODULE FirmwareProofs ---------------------------
(***************************************************************************)
(* Theorems about the parts of the firmware that run beside the gate       *)
(* controller: the updater, the Ethernet driver, the status LED and the    *)
(* stream that carries the commands, each for its own specification.       *)
(***************************************************************************)
EXTENDS OtaUpdater, Ethernet, StatusLed, GrpcStream,
        NaturalsInduction, WellFoundedInduction, SequenceTheorems, TLAPS

-----------------------------------------------------------------------------
(* OtaUpdater, for every set of releases, every choice of those that are   *)
(* signed and those that crash, every image and slot size and any number   *)
(* of commands and power failures.                                         *)

\* A block of a slot as it can be written.
Block == (Release \X (1..ImageLen)) \cup {Corrupt}

\* The state of the gate_ota task.
Update ==
  [at : {"idle", "manifest", "open", "write", "verify", "finish", "staged", "failed"},
   m : Published, src : Served \cup {<<>>}]

\* The type of every variable.
OtaTypeOK ==
  /\ key \in {"none", "malformed", "site"}
  /\ flash \in [Slot -> Seq(Block)]
  /\ otadata \in [boot : Slot, state : [Slot -> {"new", "pending", "valid", "aborted"}]]
  /\ dev \in [at : {"off", "controller", "ethernet", "rpc", "mark", "up", "dead"},
              slot : Slot, aged : BOOLEAN]
  /\ upd \in Update
  /\ timer \in BOOLEAN
  /\ rewritten \subseteq Slot

\* What flash and otadata promise a bootloader that finds them, whenever the power
\* failed: a slot marked valid is sound, one on trial has a sound slot behind it, and
\* a new one is sound or recognisably incomplete.
FlashInv ==
  LET b == otadata.boot
  IN /\ otadata.state[b] # "aborted"
     /\ otadata.state[b] = "valid" => SoundSlot(b)
     /\ otadata.state[b] \in {"new", "pending"} => SoundSlot(Other(b))
     /\ otadata.state[b] = "new" /\ WellFormed(flash[b]) => SoundSlot(b)

\* While the device runs, its own slot is sound and is the boot slot, on trial or
\* valid; or it is valid and an update has been staged in the other one.
RunningInv ==
  dev.at # "off" =>
    /\ dev.at # "dead" /\ SoundSlot(dev.slot)
    /\ \/ otadata.boot = dev.slot /\ otadata.state[dev.slot] \in {"pending", "valid"}
       \/ /\ otadata.boot = Passive /\ otadata.state[Passive] = "new"
          /\ otadata.state[dev.slot] = "valid"

\* Where the updater may be, and what it has: it writes only once the running image
\* is valid, a staged slot that it writes over is known as one until the checks pass,
\* and what passed them is sound.
UpdaterInv ==
  /\ upd.at # "idle" => dev.at \in {"mark", "up"}
  /\ upd.at \in {"write", "verify", "finish"} => otadata.state[dev.slot] # "pending"
  /\ upd.at = "write" => upd.src \in Served /\ Len(flash[Passive]) < Len(upd.src)
  /\ upd.at \in {"write", "verify"} /\ otadata.boot = Passive => Passive \in rewritten
  /\ upd.at = "finish" => Trusted(flash[Passive])

-----------------------------------------------------------------------------
(* Slots and images.                                                       *)

\* The two slots are each other's other.
LEMMA OtherSlot ==
  ASSUME NEW s \in Slot
  PROVE  /\ Other(s) \in Slot /\ Other(s) # s /\ Other(Other(s)) = s
         /\ \A t \in Slot : t # s => t = Other(s)
<1>1. Other("ota_0") = "ota_1" /\ Other("ota_1") = "ota_0"
  BY DEF Other, Slot
<1> QED BY <1>1 DEF Slot

\* An image is a sequence of blocks, of the length every image has.
LEMMA ImageBlocks ==
  ASSUME NEW r \in Release
  PROVE  /\ Image(r) \in Seq(Block) /\ Len(Image(r)) = ImageLen
         /\ \A i \in 1..ImageLen : Image(r)[i] = <<r, i>>
<1>1. ImageLen \in Nat
  BY OtaAssumption
<1>2. \A i \in 1..ImageLen : Image(r)[i] = <<r, i>> /\ <<r, i>> \in Block
  BY DEF Image, Block
<1>3. Image(r) \in [1..ImageLen -> Block]
  BY <1>2 DEF Image
<1>4. Image(r) \in Seq(Block)
  BY <1>1, <1>3
<1>5. Len(Image(r)) = ImageLen
  BY <1>1, <1>3, <1>4
<1> QED BY <1>2, <1>4, <1>5

\* What may be served is an image, perhaps with something behind it.
LEMMA ServedBlocks ==
  ASSUME NEW c \in Served
  PROVE  c \in Seq(Block) /\ Len(c) \in Nat /\ Len(c) >= ImageLen
<1>1. PICK r \in Release : c = Image(r) \/ c = Append(Image(r), Corrupt)
  BY DEF Served
<1>2. Image(r) \in Seq(Block) /\ Len(Image(r)) = ImageLen /\ ImageLen \in Nat
  BY ImageBlocks, OtaAssumption
<1>3. Corrupt \in Block
  BY DEF Block
<1> QED BY <1>1, <1>2, <1>3

\* A slot with fewer blocks than an image has holds none.
LEMMA ShortIsIncomplete ==
  ASSUME NEW c \in Seq(Block), Len(c) < ImageLen
  PROVE  ~WellFormed(c)
<1>1. ImageLen \in Nat /\ Len(c) \in Nat
  BY OtaAssumption
<1> QED BY <1>1, ImageBlocks DEF WellFormed, Starts

\* What the site stands for is a whole image.
LEMMA TrustedIsWhole ==
  ASSUME NEW c, Trusted(c)
  PROVE  WellFormed(c)
BY OtaAssumption DEF Trusted, WellFormed

\* A slot with an image the site stands for is sound.
LEMMA TrustedIsSound ==
  ASSUME NEW s, Trusted(flash[s])
  PROVE  SoundSlot(s)
BY TrustedIsWhole DEF SoundSlot

\* A release is published with its manifest as it should be, too.
LEMMA ManifestPublished ==
  ASSUME NEW r \in Release
  PROVE  Manifest(r) \in Published
<1> DEFINE Damaged(n) ==
             {n, [n EXCEPT !.version = <<>>], [n EXCEPT !.http = FALSE], [n EXCEPT !.gated = TRUE]}
             \cup {[n EXCEPT !.size = k] : k \in {0, ImageLen - 1, ImageLen + 1, SlotLen + 1}}
             \cup {[n EXCEPT !.sha.digits = d] : d \in {"short", "long", "not hex"}}
             \cup {[n EXCEPT !.sig.digits = "short"]}
<1>1. Published = UNION {Damaged(Manifest(x)) : x \in Release}
  BY DEF Published
<1>2. Manifest(r) \in Damaged(Manifest(r))
  OBVIOUS
<1> HIDE DEF Damaged
<1> QED BY <1>1, <1>2

\* The digest of a published manifest is that of a release.
LEMMA PublishedDigest ==
  ASSUME NEW m \in Published
  PROVE  \E r \in Release : m.sha.val = Image(r)
<1> DEFINE Damaged(n) ==
             {n, [n EXCEPT !.version = <<>>], [n EXCEPT !.http = FALSE], [n EXCEPT !.gated = TRUE]}
             \cup {[n EXCEPT !.size = k] : k \in {0, ImageLen - 1, ImageLen + 1, SlotLen + 1}}
             \cup {[n EXCEPT !.sha.digits = d] : d \in {"short", "long", "not hex"}}
             \cup {[n EXCEPT !.sig.digits = "short"]}
<1>1. PICK r \in Release : m \in Damaged(Manifest(r))
  BY DEF Published
<1> DEFINE n == Manifest(r)
<1>2. n.sha.val = Image(r) /\ \A d : [n EXCEPT !.sha.digits = d].sha.val = Image(r)
  BY DEF Manifest, Hex
<1>3. \A d : /\ [n EXCEPT !.version = d].sha.val = Image(r)
             /\ [n EXCEPT !.http = d].sha.val = Image(r)
             /\ [n EXCEPT !.gated = d].sha.val = Image(r)
             /\ [n EXCEPT !.size = d].sha.val = Image(r)
             /\ [n EXCEPT !.sig.digits = d].sha.val = Image(r)
  BY DEF Manifest, Hex
<1>4. m \in Damaged(n)
  BY <1>1
<1> HIDE DEF n
<1>5. m.sha.val = Image(r)
  <2>1. \/ m = n \/ m = [n EXCEPT !.version = <<>>] \/ m = [n EXCEPT !.http = FALSE]
        \/ m = [n EXCEPT !.gated = TRUE] \/ m = [n EXCEPT !.sig.digits = "short"]
        \/ \E k : m = [n EXCEPT !.size = k]
        \/ \E d : m = [n EXCEPT !.sha.digits = d]
    BY <1>4, Zenon
  <2>2. CASE \E d : m = [n EXCEPT !.sha.digits = d]
    BY <1>2, <2>2, Zenon
  <2>3. CASE \E k : m = [n EXCEPT !.size = k]
    BY <1>3, <2>3, Zenon
  <2>4. CASE m = n \/ m = [n EXCEPT !.version = <<>>] \/ m = [n EXCEPT !.http = FALSE]
    BY <1>2, <1>3, <2>4, Zenon
  <2>5. CASE m = [n EXCEPT !.gated = TRUE] \/ m = [n EXCEPT !.sig.digits = "short"]
    BY <1>3, <2>5, Zenon
  <2>6. QED
    BY <2>1, <2>2, <2>3, <2>4, <2>5, Zenon
<1> QED BY <1>5

\* What the checks between the download and the boot slot accept is a whole image the
\* site stands for, whatever size the manifest gives and whatever the transfer did to
\* the blocks (readback_sha256, the signature).
LEMMA VerifiedIsTrusted ==
  ASSUME NEW m \in Published, NEW c \in Seq(Block), key \in {"none", "malformed", "site"},
         Verified(m, c)
  PROVE  Trusted(c)
<1> DEFINE digest == Readback(c, m.size)
<1>0. ImageLen \in Nat \ {0} /\ Len(c) \in Nat
  BY OtaAssumption
<1>1. PICK r \in Release : digest = Image(r)
  BY PublishedDigest DEF Verified
<1>2. Starts(Image(r), c)
  <2>1. DOMAIN digest = 1..m.size /\ DOMAIN Image(r) = 1..ImageLen
    BY DEF Readback, Image
  <2>2. \A i \in 1..ImageLen : i <= Len(c) /\ c[i] = <<r, i>>
    <3> SUFFICES ASSUME NEW i \in 1..ImageLen
                 PROVE  i <= Len(c) /\ c[i] = <<r, i>>
      OBVIOUS
    <3>1. digest[i] = <<r, i>> /\ i \in 1..m.size
      BY <1>1, <2>1, ImageBlocks
    <3>2. digest[i] = IF i <= Len(c) THEN c[i] ELSE Erased
      BY <3>1 DEF Readback
    <3>3. <<r, i>> # Erased
      BY <1>0 DEF Erased
    <3> QED BY <3>1, <3>2, <3>3
  <2>3. Len(Image(r)) = ImageLen /\ Image(r) \in Seq(Block)
    BY ImageBlocks
  <2>4. ImageLen <= Len(c)
    BY <2>2, <1>0
  <2>5. SubSeq(c, 1, ImageLen) = Image(r)
    <3>1. SubSeq(c, 1, ImageLen) \in Seq(Block) /\ Len(SubSeq(c, 1, ImageLen)) = ImageLen
      BY <1>0, <2>4
    <3>2. \A i \in 1..ImageLen : SubSeq(c, 1, ImageLen)[i] = c[i]
      BY <1>0, <2>4
    <3>3. SubSeq(c, 1, ImageLen) = [i \in 1..ImageLen |-> c[i]]
      BY <3>1, <3>2, <1>0
    <3> QED BY <3>3, <2>2 DEF Image
  <2> QED BY <2>3, <2>4, <2>5 DEF Starts
<1>3. CASE key = "none"
  BY <1>2, <1>3 DEF Trusted
<1>4. CASE key # "none"
  <2>1. PICK t \in Signed : digest = Image(t)
    BY <1>4 DEF Verified, SignatureAccepted
  <2>2. Image(t) = Image(r)
    BY <1>1, <2>1
  <2> QED BY <1>2, <1>4, <2>1, <2>2 DEF Trusted
<1> QED BY <1>3, <1>4

-----------------------------------------------------------------------------
(* Type correctness.                                                       *)

\* The updater at rest is one of its states.
LEMMA AtRest == NoUpdate \in Update /\ NoUpdate.at = "idle"
<1>1. Manifest(Shipped) \in Published
  BY ManifestPublished, OtaAssumption
<1> QED BY <1>1 DEF NoUpdate, Update

\* The factory state has the declared types.
LEMMA OtaInitType == OtaInit => OtaTypeOK
<1> SUFFICES ASSUME OtaInit PROVE OtaTypeOK
  OBVIOUS
<1>1. Image(Shipped) \in Seq(Block) /\ <<>> \in Seq(Block)
  BY ImageBlocks, OtaAssumption
<1>2. flash \in [Slot -> Seq(Block)]
  BY <1>1 DEF OtaInit
<1> QED BY <1>2, AtRest DEF OtaInit, OtaTypeOK, Slot

\* Every step keeps the types; what is written to a slot is a block.
LEMMA OtaTypeStep ==
  ASSUME OtaTypeOK, UpdaterInv, [OtaNext]_otaVars
  PROVE  OtaTypeOK'
<1>0. dev.slot \in Slot /\ Passive \in Slot
  BY OtherSlot DEF OtaTypeOK, Passive
<1>1. CASE OtaBegin
  <2>1. upd' \in Update
    BY <1>1, AtRest DEF OtaBegin, OtaTypeOK, Update
  <2> QED BY <1>1, <2>1 DEF OtaBegin, OtaTypeOK
<1>2. CASE OtaManifest
  <2>1. upd' \in Update
    <3>1. \/ upd' = [upd EXCEPT !.at = "failed"]
          \/ \E m \in Published : upd' = [upd EXCEPT !.at = "open", !.m = m]
      BY <1>2 DEF OtaManifest, To
    <3>2. QED
      BY <3>1 DEF OtaTypeOK, Update
  <2> QED BY <1>2, <2>1 DEF OtaManifest, OtaTypeOK
<1>3. CASE OtaOpen
  <2>1. upd' \in Update
    BY <1>3 DEF OtaOpen, To, OtaTypeOK, Update
  <2>2. flash' \in [Slot -> Seq(Block)]
    <3>1. <<>> \in Seq(Block)
      OBVIOUS
    <3> QED BY <1>3, <1>0, <3>1 DEF OtaOpen, OtaTypeOK
  <2>3. rewritten' \subseteq Slot
    <3>1. rewritten' \in {rewritten, rewritten \cup {Passive}, rewritten \ {Passive}}
      BY <1>3 DEF OtaOpen
    <3>2. rewritten \subseteq Slot
      BY DEF OtaTypeOK
    <3> QED BY <1>0, <3>1, <3>2
  <2> QED BY <1>3, <2>1, <2>2, <2>3 DEF OtaOpen, OtaTypeOK
<1>4. CASE OtaPerform
  <2>1. upd' \in Update
    BY <1>4 DEF OtaPerform, To, OtaTypeOK, Update
  <2>2. flash' \in [Slot -> Seq(Block)]
    <3>1. CASE UNCHANGED flash
      BY <3>1 DEF OtaTypeOK
    <3>2. ASSUME NEW b \in {upd.src[Len(flash[Passive]) + 1], Corrupt},
                 flash' = [flash EXCEPT ![Passive] = Append(@, b)]
          PROVE  flash' \in [Slot -> Seq(Block)]
      <4>1. flash[Passive] \in Seq(Block) /\ upd.src \in Served
        BY <1>0, <1>4 DEF OtaPerform, OtaTypeOK, UpdaterInv
      <4>2. Len(flash[Passive]) + 1 \in 1..Len(upd.src)
        BY <4>1, <1>4, ServedBlocks DEF OtaPerform, UpdaterInv
      <4>3. b \in Block
        BY <4>1, <4>2, ServedBlocks DEF Block
      <4>4. Append(flash[Passive], b) \in Seq(Block)
        BY <4>1, <4>3
      <4> QED BY <3>2, <4>4, <1>0 DEF OtaTypeOK
    <3> QED BY <3>1, <3>2, <1>4 DEF OtaPerform
  <2> QED BY <2>1, <2>2, <1>4 DEF OtaPerform, OtaTypeOK
<1>5. CASE OtaVerify
  BY <1>5 DEF OtaVerify, To, OtaTypeOK, Update
<1>6. CASE OtaFinishes
  <2>1. upd' \in Update
    BY <1>6 DEF OtaFinishes, To, OtaTypeOK, Update
  <2>2. otadata' \in [boot : Slot, state : [Slot -> {"new", "pending", "valid", "aborted"}]]
    <3> DEFINE st == [otadata.state EXCEPT ![Passive] = "new"]
    <3>1. st \in [Slot -> {"new", "pending", "valid", "aborted"}]
      BY <1>0 DEF OtaTypeOK
    <3>2. UNCHANGED otadata \/ otadata' = [boot |-> Passive, state |-> st]
      BY <1>6 DEF OtaFinishes
    <3> HIDE DEF st
    <3> QED BY <1>0, <3>1, <3>2 DEF OtaTypeOK
  <2> QED BY <1>6, <2>1, <2>2 DEF OtaFinishes, OtaTypeOK
<1>12. CASE Reset
  BY <1>12, AtRest DEF Reset, Off, OtaTypeOK
<1>7. CASE OtaReturns
  BY <1>7, <1>12, AtRest DEF OtaReturns, OtaTypeOK
<1>8. CASE Bootloader
  <2>1. Chosen(flash, otadata) \in Slot /\ Other(Chosen(flash, otadata)) \in Slot
    BY OtherSlot DEF Chosen, OtaTypeOK
  <2> QED BY <1>8, <2>1 DEF Bootloader, OtaTypeOK
<1>9. CASE AppMain
  BY <1>9 DEF AppMain, OtaTypeOK
<1>10. CASE MarkValid
  BY <1>10, <1>0 DEF MarkValid, OtaTypeOK
<1>11. CASE Ages
  BY <1>11 DEF Ages, OtaTypeOK
<1>13. CASE RebootCommand
  BY <1>13, <1>12 DEF RebootCommand, OtaTypeOK
<1>14. CASE UNCHANGED otaVars
  BY <1>14 DEF otaVars, OtaTypeOK
<1> QED
  BY <1>1, <1>2, <1>3, <1>4, <1>5, <1>6, <1>7, <1>8, <1>9, <1>10, <1>11, <1>12, <1>13, <1>14
     DEF OtaNext, OtaTask, Boot, AppCrash, RebootTimer, PowerCut

-----------------------------------------------------------------------------
(* What boots next.                                                        *)

OtaInv == OtaTypeOK /\ FlashInv /\ RunningInv /\ UpdaterInv

\* The invariant covers the property: the bootloader takes the boot slot when it is
\* valid or new and whole, and otherwise the slot that is then sound.
LEMMA InvIsSound == OtaInv => NextBootIsSound
<1> SUFFICES ASSUME OtaInv PROVE NextBootIsSound
  OBVIOUS
<1> DEFINE b == otadata.boot
<1>1. b \in Slot /\ otadata.state[b] \in {"new", "pending", "valid"}
  BY DEF OtaInv, OtaTypeOK, FlashInv
<1>2. SoundSlot(Chosen(flash, otadata))
  BY <1>1 DEF OtaInv, FlashInv, SoundSlot, Chosen
<1> QED BY <1>2 DEF OtaInv, RunningInv, NextBootIsSound

\* A reset at any moment leaves a device that boots.
LEMMA ResetStep ==
  ASSUME OtaInv, Reset
  PROVE  FlashInv' /\ RunningInv' /\ UpdaterInv'
<1>1. dev'.at = "off" /\ upd'.at = "idle" /\ UNCHANGED <<key, flash, otadata, rewritten>>
  BY AtRest DEF Reset, Off
<1>2. FlashInv'
  BY <1>1 DEF OtaInv, FlashInv, SoundSlot, Trusted
<1> QED BY <1>1, <1>2 DEF RunningInv, UpdaterInv

\* A slot that is not touched stays as sound as it was.
LEMMA SoundKept ==
  ASSUME NEW s, key' = key, flash'[s] = flash[s], (s \in rewritten) => (s \in rewritten'), SoundSlot(s)
  PROVE  SoundSlot(s)'
BY DEF SoundSlot, Trusted

\* Every step keeps what boots next sound.
LEMMA OtaStep ==
  ASSUME OtaInv, [OtaNext]_otaVars
  PROVE  FlashInv' /\ RunningInv' /\ UpdaterInv'
<1> DEFINE d == dev.slot
           p == Passive
<1>0. /\ d \in Slot /\ p \in Slot /\ p # d /\ Other(p) = d /\ Other(d) = p
      /\ otadata.boot \in Slot /\ otadata.boot # d => otadata.boot = p
  BY OtherSlot DEF OtaInv, OtaTypeOK, Passive
<1>t. upd \in Update /\ dev.at \in {"off", "controller", "ethernet", "rpc", "mark", "up", "dead"}
  BY DEF OtaInv, OtaTypeOK
<1>s. UNCHANGED <<key, flash, rewritten>> =>
        \A s : (SoundSlot(s)' <=> SoundSlot(s)) /\ (Trusted(flash[s])' <=> Trusted(flash[s]))
  BY DEF SoundSlot, Trusted
<1>p. UNCHANGED dev => d' = d /\ p' = p
  BY DEF Passive
<1> USE DEF OtaInv
<1>1. CASE OtaBegin
  <2>1. /\ upd.at = "idle" /\ upd'.at = "manifest" /\ dev.at \in {"mark", "up"}
        /\ UNCHANGED <<key, flash, otadata, dev, timer, rewritten>>
    BY <1>1, AtRest DEF OtaBegin, Update
  <2> QED BY <2>1, <1>0, <1>s DEF FlashInv, RunningInv, UpdaterInv, Passive, OtaTypeOK
<1>2. CASE OtaManifest
  <2>1. /\ upd.at = "manifest" /\ upd'.at \in {"open", "failed"}
        /\ UNCHANGED <<key, flash, otadata, dev, timer, rewritten>>
    BY <1>2, <1>t DEF OtaManifest, To, Update
  <2> QED BY <2>1, <1>0, <1>s DEF FlashInv, RunningInv, UpdaterInv, Passive, OtaTypeOK
<1>5. CASE OtaVerify
  <2>1. upd.at = "verify" /\ UNCHANGED <<key, flash, otadata, dev, timer>>
    BY <1>5 DEF OtaVerify
  <2>2. \/ upd'.at = "failed" /\ UNCHANGED rewritten
        \/ /\ upd'.at = "finish" /\ Verified(upd.m, flash[p])
           /\ rewritten' = rewritten \ {p}
    BY <1>5, <1>t DEF OtaVerify, To, Update
  <2>3. CASE upd'.at = "failed" /\ UNCHANGED rewritten
    BY <2>1, <2>3, <1>0, <1>s DEF FlashInv, RunningInv, UpdaterInv, Passive, OtaTypeOK
  <2>4. CASE upd'.at = "finish" /\ Verified(upd.m, flash[p]) /\ rewritten' = rewritten \ {p}
    <3>1. /\ upd.m \in Published /\ flash[p] \in Seq(Block)
          /\ key \in {"none", "malformed", "site"}
      BY <1>0 DEF OtaTypeOK, Update
    <3>2. Trusted(flash[p])
      BY <2>4, <3>1, VerifiedIsTrusted
    <3>3. Trusted(flash[p])' /\ SoundSlot(p)'
      <4>1. WellFormed(flash[p])
        BY <3>2, TrustedIsWhole
      <4> QED BY <2>1, <3>2, <4>1, <1>p DEF SoundSlot, Trusted
    <3>4. SoundSlot(d) => SoundSlot(d)'
      BY <2>1, <2>4, <1>0, SoundKept
    <3> QED BY <2>1, <2>4, <3>3, <3>4, <1>0 DEF FlashInv, RunningInv, UpdaterInv, Passive
  <2> QED BY <2>2, <2>3, <2>4
<1>9. CASE AppMain
  <2>1. /\ dev'.slot = d /\ dev.at # "off" /\ dev'.at \in {"ethernet", "rpc", "mark"}
        /\ dev.at \in {"controller", "ethernet", "rpc"}
        /\ UNCHANGED <<key, flash, otadata, upd, timer, rewritten>>
    BY <1>9 DEF AppMain, OtaTypeOK
  <2> QED BY <2>1, <1>0, <1>s DEF FlashInv, RunningInv, UpdaterInv, Passive, OtaTypeOK
<1>11. CASE Ages
  <2>1. dev'.slot = d /\ dev'.at = dev.at /\ UNCHANGED <<key, flash, otadata, upd, timer, rewritten>>
    BY <1>11 DEF Ages, OtaTypeOK
  <2> QED BY <2>1, <1>0, <1>s DEF FlashInv, RunningInv, UpdaterInv, Passive, OtaTypeOK
<1>12. CASE Reset
  BY <1>12, ResetStep
<1>13. CASE RebootCommand
  <2>1. CASE timer' = TRUE /\ UNCHANGED <<key, flash, otadata, dev, upd, rewritten>>
    BY <2>1, <1>0, <1>s DEF FlashInv, RunningInv, UpdaterInv, Passive
  <2> QED BY <1>12, <2>1, <1>13 DEF RebootCommand
<1>14. CASE UNCHANGED otaVars
  BY <1>14, <1>s DEF otaVars, FlashInv, RunningInv, UpdaterInv, Passive
<1>3. CASE OtaOpen
  <2>1. upd.at = "open" /\ dev.at \in {"mark", "up"} /\ UNCHANGED <<key, otadata, dev, timer>>
    BY <1>3 DEF OtaOpen, UpdaterInv
  <2>2. CASE upd'.at = "failed" /\ UNCHANGED <<flash, rewritten>>
    BY <2>1, <2>2, <1>0, <1>s DEF FlashInv, RunningInv, UpdaterInv, Passive, OtaTypeOK
  <2>3. CASE /\ otadata.state[d] # "pending" /\ upd'.at = "write" /\ upd'.src \in Served
             /\ flash' = [flash EXCEPT ![p] = <<>>]
             /\ rewritten' = IF otadata.boot = p THEN rewritten \cup {p} ELSE rewritten \ {p}
    <3>1. /\ flash'[d] = flash[d] /\ flash'[p] = <<>> /\ Len(flash'[p]) = 0
          /\ ~WellFormed(flash'[p])
      <4>1. flash'[d] = flash[d] /\ flash'[p] = <<>>
        BY <2>3, <1>0 DEF OtaTypeOK
      <4>2. <<>> \in Seq(Block) /\ Len(<<>>) = 0 /\ 0 < ImageLen
        BY OtaAssumption
      <4> QED BY <4>1, <4>2, ShortIsIncomplete
    <3>2. Len(upd'.src) > 0
      BY <2>3, ServedBlocks, OtaAssumption
    <3>3. SoundSlot(d)' /\ (otadata.boot = p => p \in rewritten')
      <4>1. SoundSlot(d)
        BY <2>1 DEF RunningInv
      <4> QED BY <2>1, <2>3, <3>1, <4>1, <1>0, SoundKept
    <3>4. FlashInv'
      BY <2>1, <2>3, <3>1, <3>3, <1>0 DEF FlashInv, RunningInv
    <3>5. RunningInv'
      BY <2>1, <3>3, <1>0 DEF RunningInv, Passive
    <3>6. UpdaterInv'
      BY <2>1, <2>3, <3>1, <3>2, <3>3, <1>0 DEF UpdaterInv, Passive
    <3> QED BY <3>4, <3>5, <3>6
  <2>4. \/ upd'.at = "failed" /\ UNCHANGED <<flash, rewritten>>
        \/ /\ otadata.state[d] # "pending" /\ upd'.at = "write" /\ upd'.src \in Served
           /\ flash' = [flash EXCEPT ![p] = <<>>]
           /\ rewritten' = IF otadata.boot = p THEN rewritten \cup {p} ELSE rewritten \ {p}
    BY <1>3, <1>t DEF OtaOpen, To, Update
  <2> QED BY <2>2, <2>3, <2>4
<1>4. CASE OtaPerform
  <2> DEFINE n == Len(flash[p])
  <2>1. /\ upd.at = "write" /\ dev.at \in {"mark", "up"}
        /\ upd'.src = upd.src /\ upd.src \in Served /\ n < Len(upd.src)
        /\ otadata.state[d] # "pending" /\ (otadata.boot = p => p \in rewritten)
        /\ UNCHANGED <<key, otadata, dev, timer, rewritten>>
    BY <1>4, <1>t DEF OtaPerform, To, Update, UpdaterInv
  <2>2. CASE upd'.at = "failed" /\ UNCHANGED flash
    BY <2>1, <2>2, <1>0, <1>s DEF FlashInv, RunningInv, UpdaterInv, Passive, OtaTypeOK
  <2>3. ASSUME NEW b \in Block,
               flash' = [flash EXCEPT ![p] = Append(@, b)],
               upd'.at = IF n + 1 = Len(upd.src) THEN "verify" ELSE "write"
        PROVE  FlashInv' /\ RunningInv' /\ UpdaterInv'
    <3>1. flash[p] \in Seq(Block) /\ n \in Nat /\ Len(upd.src) \in Nat
      BY <1>0, <2>1, ServedBlocks DEF OtaTypeOK
    <3>2. flash'[d] = flash[d] /\ Len(flash'[p]) = n + 1
      <4>1. flash'[d] = flash[d] /\ flash'[p] = Append(flash[p], b)
        BY <2>3, <1>0 DEF OtaTypeOK
      <4> QED BY <4>1, <3>1
    <3>3. SoundSlot(d)'
      <4>1. SoundSlot(d)
        BY <2>1 DEF RunningInv
      <4> QED BY <2>1, <3>2, <4>1, SoundKept
    <3>4. otadata.boot = p => (WellFormed(flash[p])' => SoundSlot(p)')
      BY <2>1, <1>p DEF SoundSlot
    <3>5. FlashInv'
      BY <2>1, <3>3, <3>4, <1>0, <1>p DEF FlashInv, RunningInv
    <3>6. RunningInv'
      BY <2>1, <3>3, <1>0 DEF RunningInv, Passive
    <3>7. UpdaterInv'
      <4>1. upd'.at \in {"write", "verify"} /\ (upd'.at = "write" => n + 1 < Len(upd.src))
        BY <2>1, <2>3, <3>1
      <4> QED BY <2>1, <3>2, <4>1, <1>0 DEF UpdaterInv, Passive
    <3> QED BY <3>5, <3>6, <3>7
  <2>4. \/ upd'.at = "failed" /\ UNCHANGED flash
        \/ /\ \E b \in {upd.src[n + 1], Corrupt} : flash' = [flash EXCEPT ![p] = Append(@, b)]
           /\ upd'.at = IF n + 1 = Len(upd.src) THEN "verify" ELSE "write"
    BY <1>4, <1>t DEF OtaPerform, To, Update
  <2>5. {upd.src[n + 1], Corrupt} \subseteq Block
    <3>1. upd.src \in Seq(Block) /\ n \in Nat /\ Len(upd.src) \in Nat
      BY <1>0, <2>1, ServedBlocks DEF OtaTypeOK
    <3>2. n + 1 \in 1..Len(upd.src)
      BY <2>1, <3>1
    <3>3. upd.src[n + 1] \in Block
      BY <3>1, <3>2
    <3> QED BY <3>3 DEF Block
  <2> QED BY <2>2, <2>3, <2>4, <2>5
<1>6. CASE OtaFinishes
  <2>1. /\ upd.at = "finish" /\ dev.at \in {"mark", "up"} /\ Trusted(flash[p])
        /\ otadata.state[d] = "valid" /\ SoundSlot(d)
        /\ UNCHANGED <<key, flash, dev, timer, rewritten>>
    BY <1>6, <1>t DEF OtaFinishes, UpdaterInv, RunningInv
  <2>2. /\ otadata'.boot = p /\ otadata'.state[p] = "new" /\ otadata'.state[d] = "valid"
        /\ upd'.at = "staged"
    <3>1. /\ otadata' = [boot |-> p, state |-> [otadata.state EXCEPT ![p] = "new"]]
          /\ upd' = [upd EXCEPT !.at = "staged"]
      BY <1>6, <2>1, TrustedIsWhole DEF OtaFinishes, To
    <3> QED BY <3>1, <2>1, <1>0, <1>t DEF OtaTypeOK, Update
  <2>3. SoundSlot(p)' /\ SoundSlot(d)'
    <3>1. SoundSlot(p)
      BY <2>1, TrustedIsSound
    <3> QED BY <2>1, <3>1, <1>s, <1>p
  <2> QED BY <2>1, <2>2, <2>3, <1>0 DEF FlashInv, RunningInv, UpdaterInv, Passive
<1>7. CASE OtaReturns
  <2>1. CASE /\ ~(upd.at = "staged" /\ timer)
             /\ timer' = (timer \/ upd.at = "staged") /\ upd' = NoUpdate
             /\ UNCHANGED <<key, flash, otadata, dev, rewritten>>
    <3>1. upd.at \in {"staged", "failed"} /\ upd'.at = "idle"
      BY <1>7, <2>1, AtRest DEF OtaReturns
    <3> QED BY <2>1, <3>1, <1>0, <1>s DEF FlashInv, RunningInv, UpdaterInv, Passive, OtaTypeOK
  <2> QED BY <2>1, <1>12, <1>7 DEF OtaReturns
<1>8. CASE Bootloader
  <2> DEFINE b == otadata.boot
             s == Chosen(flash, otadata)
  <2>1. /\ dev.at = "off" /\ upd.at = "idle" /\ upd' = upd
        /\ UNCHANGED <<key, flash, rewritten>>
        /\ b \in Slot /\ Other(b) \in Slot /\ Other(b) # b /\ Other(Other(b)) = b
        /\ s \in {b, Other(b)}
    BY <1>8, OtherSlot DEF Bootloader, UpdaterInv, OtaTypeOK, Chosen
  <2>2. SoundSlot(s) /\ WellFormed(flash[s])
    BY InvIsSound DEF NextBootIsSound, SoundSlot
  <2>3. dev'.at = "controller" /\ dev'.slot = s
    BY <1>8, <2>2 DEF Bootloader
  <2>4. CASE s = b
    <3>1. otadata.state[b] \in {"new", "valid"}
      BY <2>1, <2>4 DEF Chosen
    <3>2. otadata'.boot = b
          /\ otadata'.state[b] = IF otadata.state[b] = "new" THEN "pending" ELSE "valid"
      BY <1>8, <2>1, <2>4, <3>1 DEF Bootloader, OtaTypeOK
    <3> QED BY <2>1, <2>2, <2>3, <2>4, <3>1, <3>2, <1>s
            DEF FlashInv, RunningInv, UpdaterInv
  <2>5. CASE s = Other(b)
    <3>1. otadata'.boot = s /\ otadata'.state[s] = "valid"
      BY <1>8, <2>1, <2>5 DEF Bootloader, OtaTypeOK
    <3> QED BY <2>1, <2>2, <2>3, <2>5, <3>1, <1>s DEF FlashInv, RunningInv, UpdaterInv
  <2> QED BY <2>1, <2>4, <2>5
<1>10. CASE MarkValid
  <2>1. /\ dev.at = "mark" /\ dev'.at = "up" /\ dev'.slot = d
        /\ UNCHANGED <<key, flash, upd, timer, rewritten>>
    BY <1>10 DEF MarkValid, MarkDue, OtaTypeOK
  <2>2. /\ otadata'.boot = otadata.boot /\ otadata'.state[p] = otadata.state[p]
        /\ otadata'.state[d] = IF otadata.state[d] = "pending" THEN "valid" ELSE otadata.state[d]
    BY <1>10, <1>0 DEF MarkValid, OtaTypeOK
  <2> QED BY <2>1, <2>2, <1>0, <1>s DEF FlashInv, RunningInv, UpdaterInv, Passive
<1> QED
  BY <1>1, <1>2, <1>3, <1>4, <1>5, <1>6, <1>7, <1>8, <1>9, <1>10, <1>11, <1>12, <1>13, <1>14
     DEF OtaNext, OtaTask, Boot, AppCrash, RebootTimer, PowerCut

\* At every moment, power failures included, what would boot next and what runs now is
\* a whole image, and one the site stands for unless a second update wrote over it
\* while it was staged.
THEOREM NextBootCorrect == OtaSpec => []NextBootIsSound
<1>1. OtaInit => OtaInv
  <2> SUFFICES ASSUME OtaInit PROVE OtaInv
    OBVIOUS
  <2>1. Trusted(Image(Shipped))
    <3>1. Image(Shipped) \in Seq(Block) /\ Len(Image(Shipped)) = ImageLen /\ ImageLen \in Nat
      BY ImageBlocks, OtaAssumption
    <3>2. SubSeq(Image(Shipped), 1, ImageLen) = Image(Shipped)
      BY <3>1
    <3> QED BY <3>1, <3>2, OtaAssumption DEF Trusted, Starts
  <2>2. otadata.boot = "ota_0" /\ otadata.state["ota_0"] = "valid" /\ flash["ota_0"] = Image(Shipped)
        /\ dev.at = "off" /\ upd.at = "idle"
    BY AtRest DEF OtaInit, Slot
  <2>3. SoundSlot("ota_0")
    BY <2>1, <2>2, TrustedIsSound
  <2> QED BY <2>2, <2>3, OtaInitType DEF OtaInv, FlashInv, RunningInv, UpdaterInv
<1>2. OtaInv /\ [OtaNext]_otaVars => OtaInv'
  BY OtaTypeStep, OtaStep DEF OtaInv
<1> QED BY <1>1, <1>2, InvIsSound, PTL DEF OtaSpec

-----------------------------------------------------------------------------
(* Ethernet.                                                               *)

EthTypeOK ==
  /\ start \in {"init", "handlers", "driver", "done", "failed"}
  /\ {hooked, netif, lease, lostDue, linkUp, ipAddr, netBit} \subseteq BOOLEAN
  /\ phy \in {"off", "down", "up"}
  /\ events \in Seq({"CONNECTED", "DISCONNECTED", "GOT_IP", "LOST_IP"})

\* Nothing happens on the wire before the handlers are registered, and from then on
\* driver and interface see the same link.
LinkInv ==
  /\ start \in {"driver", "done"} => hooked
  /\ ~hooked => phy = "off" /\ events = <<>> /\ ~netif /\ ~lease /\ ~lostDue
  /\ phy # "off" => hooked
  /\ linkUp = netif
  /\ lease => netif /\ ~lostDue

\* While an address is held, the news of it is known or still in the queue, with no
\* news of a lost one behind it.
AddressInv ==
  lease =>
    \/ \E i \in 1..Len(events) :
         events[i] = "GOT_IP" /\ \A j \in i..Len(events) : events[j] # "LOST_IP"
    \/ ipAddr /\ netBit /\ \A j \in 1..Len(events) : events[j] # "LOST_IP"

EthInv == EthTypeOK /\ LinkInv /\ AddressInv

\* An event that is raised goes to the end of the queue, behind all the others.
LEMMA RaisedIsLast ==
  ASSUME EthTypeOK, NEW e \in {"CONNECTED", "DISCONNECTED", "GOT_IP", "LOST_IP"}, Raise(e)
  PROVE  /\ events' \in Seq({"CONNECTED", "DISCONNECTED", "GOT_IP", "LOST_IP"})
         /\ Len(events') = Len(events) + 1 /\ Len(events) \in Nat
         /\ events'[Len(events')] = e
         /\ \A i \in 1..Len(events) : events'[i] = events[i]
  BY DEF EthTypeOK, Raise

\* What is handled is the first event; the others move up.
LEMMA HandledIsFirst ==
  ASSUME EthTypeOK, HandleEvent
  PROVE  /\ events' \in Seq({"CONNECTED", "DISCONNECTED", "GOT_IP", "LOST_IP"})
         /\ Len(events') = Len(events) - 1 /\ Len(events) \in Nat \ {0}
         /\ Head(events) = events[1]
         /\ Head(events) \in {"CONNECTED", "DISCONNECTED", "GOT_IP", "LOST_IP"}
         /\ \A i \in 1..Len(events') : events'[i] = events[i + 1]
  BY DEF EthTypeOK, HandleEvent

\* Every step of driver, interface and event loop keeps their variables in their types.
LEMMA EthTypeStep ==
  ASSUME EthTypeOK, EthNext
  PROVE  EthTypeOK'
<1> DEFINE Event == {"CONNECTED", "DISCONNECTED", "GOT_IP", "LOST_IP"}
<1>1. CASE EthernetStart
  BY <1>1 DEF EthTypeOK, EthernetStart, CallAfter, driverVars
<1>2. CASE LinkChanges
  <2>1. events' \in Seq(Event)
    BY <1>2, RaisedIsLast DEF LinkChanges
  <2>2. QED
    BY <1>2, <2>1 DEF EthTypeOK, LinkChanges, driverVars
<1>3. CASE LeaseGranted
  <2>1. events' \in Seq(Event)
    BY <1>3, RaisedIsLast DEF LeaseGranted
  <2>2. QED
    BY <1>3, <2>1 DEF EthTypeOK, LeaseGranted, driverVars
<1>4. CASE LeaseExpires
  BY <1>4 DEF EthTypeOK, LeaseExpires, driverVars
<1>5. CASE LostTimer
  <2>1. events' \in Seq(Event)
    BY <1>5, RaisedIsLast DEF LostTimer
  <2>2. QED
    BY <1>5, <2>1 DEF EthTypeOK, LostTimer, driverVars
<1>6. CASE HandleEvent
  <2>1. events' \in Seq(Event)
    BY <1>6, HandledIsFirst
  <2>2. QED
    BY <1>6, <2>1 DEF EthTypeOK, HandleEvent, GlueHandles, DriverHandles, driverVars
<1>7. CASE ClientTries
  BY <1>7 DEF EthTypeOK, ClientTries, driverVars, espVars
<1>8. CASE SessionOver
  BY <1>8 DEF EthTypeOK, SessionOver, driverVars, espVars
<1>9. QED
  BY <1>1, <1>2, <1>3, <1>4, <1>5, <1>6, <1>7, <1>8 DEF EthNext

\* Link and address news are taken note of in the order they arose.
LEMMA EthStep ==
  ASSUME EthInv, EthNext
  PROVE  EthInv'
<1>0. EthTypeOK /\ LinkInv /\ AddressInv /\ EthTypeOK'
  BY EthTypeStep DEF EthInv
<1>1. CASE EthernetStart
  <2>1. LinkInv'
    BY <1>0, <1>1 DEF EthTypeOK, LinkInv, EthernetStart, CallAfter, driverVars
  <2>2. AddressInv'
    BY <1>0, <1>1 DEF AddressInv, EthernetStart, driverVars
  <2>3. QED
    BY <1>0, <2>1, <2>2 DEF EthInv
<1>2. CASE LinkChanges
  <2>1. LinkInv'
    BY <1>0, <1>2 DEF EthTypeOK, LinkInv, LinkChanges, driverVars
  <2>2. AddressInv'
    <3>1. PICK e \in {"CONNECTED", "DISCONNECTED"} : Raise(e)
      BY <1>2 DEF LinkChanges
    <3>2. UNCHANGED <<lease, ipAddr, netBit>>
      BY <1>2 DEF LinkChanges, driverVars
    <3>3. QED
      BY <1>0, <3>1, <3>2, RaisedIsLast DEF AddressInv
  <2>3. QED
    BY <1>0, <2>1, <2>2 DEF EthInv
<1>3. CASE LeaseGranted
  <2>1. LinkInv'
    BY <1>0, <1>3 DEF EthTypeOK, LinkInv, LeaseGranted, driverVars
  <2>2. AddressInv'
    <3>1. Raise("GOT_IP")
      BY <1>3 DEF LeaseGranted
    <3>2. QED
      BY <1>0, <3>1, RaisedIsLast DEF AddressInv
  <2>3. QED
    BY <1>0, <2>1, <2>2 DEF EthInv
<1>4. CASE LeaseExpires
  <2>1. LinkInv' /\ AddressInv'
    BY <1>0, <1>4 DEF EthTypeOK, LinkInv, AddressInv, LeaseExpires, driverVars
  <2>2. QED
    BY <1>0, <2>1 DEF EthInv
<1>5. CASE LostTimer
  <2>1. LinkInv' /\ AddressInv'
    BY <1>0, <1>5 DEF EthTypeOK, LinkInv, AddressInv, LostTimer, driverVars
  <2>2. QED
    BY <1>0, <2>1 DEF EthInv
<1>6. CASE HandleEvent
  <2>1. hooked /\ hooked'
    BY <1>0, <1>6 DEF LinkInv, HandleEvent
  <2>2. LinkInv'
    BY <1>0, <1>6, <2>1, HandledIsFirst
       DEF EthTypeOK, LinkInv, HandleEvent, GlueHandles, DriverHandles, driverVars
  <2>3. AddressInv'
    <3>0. PICK n \in Nat : /\ Len(events) = n + 1 /\ Len(events') = n
                           /\ Head(events) = events[1]
                           /\ events[1] \in {"CONNECTED", "DISCONNECTED", "GOT_IP", "LOST_IP"}
                           /\ \A i \in 1..n : events'[i] = events[i + 1]
      <4>1. Len(events) - 1 \in Nat /\ Len(events) = (Len(events) - 1) + 1
        BY <1>0, <1>6, HandledIsFirst
      <4>2. QED
        BY <1>0, <1>6, <4>1, HandledIsFirst
    <3>1. SUFFICES ASSUME lease'
                   PROVE  AddressInv'
      BY DEF AddressInv
    <3>2. lease /\ Head(events) # "DISCONNECTED"
      BY <1>6, <3>1 DEF HandleEvent, GlueHandles
    <3>3. /\ ipAddr' = (Head(events) = "GOT_IP" \/ (ipAddr /\ Head(events) = "CONNECTED"))
          /\ netBit' = (Head(events) = "GOT_IP" \/ (netBit /\ Head(events) # "DISCONNECTED"))
      BY <1>6, <2>1 DEF HandleEvent, DriverHandles
    <3>4. CASE ipAddr /\ netBit /\ \A j \in 1..Len(events) : events[j] # "LOST_IP"
      <4>1. events[1] # "LOST_IP" /\ \A j \in 1..n : events'[j] # "LOST_IP"
        BY <3>0, <3>4
      <4>2. ipAddr' /\ netBit'
        BY <3>0, <3>2, <3>3, <3>4, <4>1
      <4>3. QED
        BY <3>0, <4>1, <4>2 DEF AddressInv
    <3>5. ASSUME NEW i \in 1..Len(events), events[i] = "GOT_IP",
                 \A j \in i..Len(events) : events[j] # "LOST_IP"
          PROVE  AddressInv'
      <4>1. CASE i = 1
        <5>1. \A j \in 1..n : events'[j] # "LOST_IP"
          BY <3>0, <3>5, <4>1
        <5>2. ipAddr' /\ netBit'
          BY <3>0, <3>3, <3>5, <4>1
        <5>3. QED
          BY <3>0, <5>1, <5>2 DEF AddressInv
      <4>2. CASE i # 1
        <5>1. /\ i - 1 \in 1..Len(events') /\ events'[i - 1] = "GOT_IP"
              /\ \A j \in (i - 1)..Len(events') : events'[j] # "LOST_IP"
          BY <3>0, <3>5, <4>2
        <5>2. QED
          BY <5>1 DEF AddressInv
      <4>3. QED
        BY <4>1, <4>2
    <3>6. QED
      BY <1>0, <3>2, <3>4, <3>5 DEF AddressInv
  <2>4. QED
    BY <1>0, <2>2, <2>3 DEF EthInv
<1>7. CASE ClientTries
  BY <1>0, <1>7 DEF EthInv, LinkInv, AddressInv, ClientTries, driverVars, espVars
<1>8. CASE SessionOver
  BY <1>0, <1>8 DEF EthInv, LinkInv, AddressInv, SessionOver, driverVars, espVars
<1>9. QED
  BY <1>1, <1>2, <1>3, <1>4, <1>5, <1>6, <1>7, <1>8 DEF EthNext

\* Whatever order links and addresses come and go in, and however long the event
\* loop's queue is: once it has caught up, an address that is held is known and the
\* client may try (on_eth_event, on_ip_event, notify_network_up).
THEOREM NetworkNoticed == EthSpec => []NetworkIsNoticed
<1>1. EthInit => EthInv
  <2>1. ASSUME EthInit PROVE EthTypeOK
    <3>1. events \in Seq({"CONNECTED", "DISCONNECTED", "GOT_IP", "LOST_IP"})
      BY <2>1 DEF EthInit
    <3>2. {hooked, netif, lease, lostDue, linkUp, ipAddr, netBit} \subseteq BOOLEAN
      BY <2>1, Zenon DEF EthInit
    <3>3. QED
      BY <2>1, <3>1, <3>2 DEF EthInit, EthTypeOK
  <2>2. EthInit => LinkInv /\ AddressInv
    BY DEF EthInit, LinkInv, AddressInv
  <2>3. QED
    BY <2>1, <2>2 DEF EthInv
<1>2. EthInv /\ [EthNext]_ethVars => EthInv'
  <2>1. SUFFICES ASSUME EthInv, UNCHANGED ethVars
                 PROVE  EthInv'
    BY EthStep
  <2>2. QED
    BY <2>1 DEF EthInv, EthTypeOK, LinkInv, AddressInv, ethVars, espVars, driverVars
<1>3. EthInv => NetworkIsNoticed
  BY DEF EthInv, EthTypeOK, LinkInv, AddressInv, NetworkIsNoticed
<1>4. QED
  BY <1>1, <1>2, <1>3, PTL DEF EthSpec

-----------------------------------------------------------------------------
(* StatusLed.                                                              *)

RenderStage == {"idle", "restart", "dark", "stop", "test", "start"}
TickStage == {"idle", "load", "show", "stop"}

LedTypeOK ==
  /\ current \in Pattern /\ restart \in BOOLEAN /\ frame \in Nat
  /\ ticking \in BOOLEAN /\ raced \in BOOLEAN
  /\ caller \in [LedTask -> [at : RenderStage, p : Pattern]]
  /\ tick \in [at : TickStage, p : Pattern]

\* Since the last render() at most one task or the timer's has touched the LED.
OneAtATime ==
  /\ \A t, u \in LedTask : ~Idle(t) /\ ~Idle(u) => t = u
  /\ tick.at # "idle" => \A t \in LedTask : Idle(t)

\* Where a render() is tells what it has done.
RenderKnows ==
  \A t \in LedTask :
    /\ ~Idle(t) => caller[t].p = current
    /\ caller[t].at \in {"dark", "stop"} => current = "kOff"
    /\ caller[t].at \in {"test", "start"} => current # "kOff" /\ restart
    /\ caller[t].at = "stop" => colour = "dark"
    /\ caller[t].at = "start" => ~ticking

\* A finite pattern has not run past its last frame.
InFrame == Finite(current) => frame <= Frames(current)

\* The last frame of the pattern is on the outputs.
Shown ==
  /\ Ends(current, frame) /\ InFrame
  /\ colour = IF current = "kGateOpen" THEN "green" ELSE "dark"

\* Where on_tick() is tells what it has done, and between its calls a pattern is
\* playing or has been played.
TickKnows ==
  (\A t \in LedTask : Idle(t)) =>
    /\ tick.at # "idle" => ticking /\ ~restart
    /\ tick.at \in {"show", "stop"} => tick.p = current
    /\ tick.at = "stop" => Shown
    /\ ticking => current # "kOff" /\ (restart \/ InFrame)
    /\ ~ticking => Shown

LedInv == LedTypeOK /\ (~raced => OneAtATime /\ RenderKnows /\ TickKnows)

\* The cycle frames are counted in is longer than every finite pattern.
LEMMA CycleIsLong ==
  FrameCycle \in Nat /\ FrameCycle > FlashFrames /\ FrameCycle > BootFrames
<1>1. \A a, b \in Nat : b > 0 => a * b \in Nat /\ a * b >= a
  BY Z3
<1>2. /\ FlashFrames \in Nat /\ FlashFrames > 0 /\ BootFrames \in Nat /\ BootFrames > 0
      /\ SlowPeriod \in Nat /\ SlowPeriod > 1 /\ FastPeriod \in Nat /\ FastPeriod > 1
  BY LedAssumption
<1> DEFINE x == SlowPeriod * FastPeriod
           y == x * FlashFrames
<1>3. x \in Nat /\ x > 1
  BY <1>1, <1>2
<1>4. y \in Nat /\ y >= x
  BY <1>1, <1>2, <1>3
<1>5. y > FlashFrames
  <2>1. x - 1 \in Nat /\ x - 1 > 0
    BY <1>3
  <2>2. FlashFrames * (x - 1) >= FlashFrames
    BY <1>1, <1>2, <2>1
  <2>3. y = FlashFrames * (x - 1) + FlashFrames
    BY <1>2, <1>3, Z3
  <2>4. FlashFrames * (x - 1) \in Nat
    BY <1>1, <1>2, <2>1
  <2>5. QED
    BY <1>2, <2>2, <2>3, <2>4
<1>6. y * BootFrames \in Nat /\ y * BootFrames >= y
  BY <1>1, <1>2, <1>4
<1>7. y * BootFrames > BootFrames
  <2>1. y - 1 \in Nat /\ y - 1 > 0
    BY <1>3, <1>4
  <2>2. BootFrames * (y - 1) \in Nat /\ BootFrames * (y - 1) >= BootFrames
    BY <1>1, <1>2, <2>1
  <2>3. y * BootFrames = BootFrames * (y - 1) + BootFrames
    BY <1>2, <1>4, Z3
  <2>4. QED
    BY <1>2, <2>2, <2>3
<1>8. FrameCycle = y * BootFrames
  BY DEF FrameCycle
<1> HIDE DEF x, y
<1>9. QED
  BY <1>2, <1>4, <1>5, <1>6, <1>7, <1>8

\* The next frame of a finite pattern that is not over is one of its frames.
LEMMA NextFrame ==
  ASSUME NEW p \in Pattern, NEW n \in Nat, ~Ends(p, n)
  PROVE  /\ (n + 1) % FrameCycle \in Nat
         /\ Finite(p) => (n + 1) % FrameCycle <= Frames(p)
<1>1. FrameCycle \in Nat /\ FrameCycle > 0
  BY CycleIsLong, LedAssumption
<1>2. (n + 1) % FrameCycle \in Nat
  BY <1>1
<1>3. ASSUME Finite(p)
      PROVE  (n + 1) % FrameCycle <= Frames(p)
  <2>1. Frames(p) \in Nat /\ n < Frames(p) /\ Frames(p) < FrameCycle
    BY <1>1, <1>3, CycleIsLong, LedAssumption DEF Ends, Frames
  <2>2. n + 1 < FrameCycle /\ n + 1 <= Frames(p)
    BY <1>1, <2>1
  <2>3. (n + 1) % FrameCycle = n + 1
    BY <1>1, <2>2
  <2>4. QED
    BY <2>2, <2>3
<1>4. QED
  BY <1>2, <1>3

\* Every access to what render() and on_tick() share keeps it in its type.
LEMMA LedTypeStep ==
  ASSUME LedTypeOK, LedNext
  PROVE  LedTypeOK'
<1> USE DEF LedTypeOK
<1>1. CASE TickBegins
  BY <1>1 DEF TickBegins, TickStage
<1>2. CASE TickLoads
  BY <1>2 DEF TickLoads, TickStage
<1>3. CASE TickShows
  <2>1. tick.p \in Pattern /\ Resting \in [at : TickStage, p : Pattern]
    BY DEF Resting, TickStage, Pattern
  <2>2. frame' \in Nat
    BY <1>3, <2>1, NextFrame DEF TickShows
  <2>3. tick' \in [at : TickStage, p : Pattern]
    BY <1>3, <2>1 DEF TickShows, TickStage
  <2>4. QED
    BY <1>3, <2>2, <2>3 DEF TickShows
<1>4. CASE TickStops
  <2>1. Resting \in [at : TickStage, p : Pattern]
    BY DEF Resting, TickStage, Pattern
  <2>2. QED
    BY <1>4, <2>1 DEF TickStops
<1>5. ASSUME NEW t \in LedTask
      PROVE  /\ (\E p \in Pattern : Render(t, p)) => LedTypeOK'
             /\ RenderRestarts(t) => LedTypeOK'
             /\ RenderDark(t) => LedTypeOK'
             /\ RenderStops(t) => LedTypeOK'
             /\ RenderTests(t) => LedTypeOK'
             /\ RenderStarts(t) => LedTypeOK'
  <2>1. Resting \in [at : RenderStage, p : Pattern]
    BY DEF Resting, RenderStage, Pattern
  <2>2. ASSUME NEW p \in Pattern, Render(t, p) PROVE LedTypeOK'
    <3>1. [at |-> "restart", p |-> p] \in [at : RenderStage, p : Pattern]
      BY DEF RenderStage
    <3>2. QED
      BY <2>2, <3>1 DEF Render
  <2>3. CASE RenderRestarts(t)
    BY <2>3 DEF RenderRestarts, At, RenderStage
  <2>4. CASE RenderDark(t)
    BY <2>4 DEF RenderDark, At, RenderStage
  <2>5. CASE RenderStops(t)
    BY <2>1, <2>5 DEF RenderStops
  <2>6. CASE RenderTests(t)
    <3>1. [caller[t] EXCEPT !.at = "start"] \in [at : RenderStage, p : Pattern]
      BY DEF RenderStage
    <3>2. QED
      BY <2>1, <2>6, <3>1 DEF RenderTests
  <2>7. CASE RenderStarts(t)
    BY <2>1, <2>7 DEF RenderStarts
  <2>8. QED
    BY <2>2, <2>3, <2>4, <2>5, <2>6, <2>7
<1>6. QED
  BY <1>1, <1>2, <1>3, <1>4, <1>5 DEF LedNext

\* Where nobody interferes, timer and render() know what the other has left behind.
LEMMA LedStep ==
  ASSUME LedInv, LedNext
  PROVE  LedInv'
<1>0. LedTypeOK /\ LedTypeOK'
  BY LedTypeStep DEF LedInv
<1> SUFFICES ASSUME ~raced'
             PROVE  OneAtATime' /\ RenderKnows' /\ TickKnows'
  BY <1>0 DEF LedInv
<1> USE DEF Idle
<1>1. CASE TickBegins
  <2>1. ~raced /\ \A t \in LedTask : Idle(t)
    BY <1>0, <1>1 DEF TickBegins, LedTypeOK
  <2>2. OneAtATime /\ RenderKnows /\ TickKnows
    BY <2>1 DEF LedInv
  <2>3. current # "kOff" /\ (restart \/ InFrame)
    BY <1>1, <2>1, <2>2 DEF TickBegins, TickKnows
  <2>4. InFrame'
    BY <1>0, <1>1, <2>3, LedAssumption DEF TickBegins, InFrame, LedTypeOK, Frames
  <2>5. /\ UNCHANGED <<current, ticking, caller>>
        /\ ticking /\ ~restart' /\ tick'.at = "load"
    BY <1>0, <1>1 DEF TickBegins, LedTypeOK
  <2>6. QED
    BY <2>1, <2>2, <2>3, <2>4, <2>5 DEF OneAtATime, RenderKnows, TickKnows
<1>2. CASE TickLoads
  <2>1. OneAtATime /\ RenderKnows /\ TickKnows
    BY <1>2 DEF LedInv, TickLoads
  <2>2. /\ UNCHANGED <<current, restart, frame, colour, ticking, caller>>
        /\ tick.at = "load" /\ tick'.at = "show" /\ tick'.p = current
    BY <1>2 DEF TickLoads
  <2>3. QED
    BY <2>1, <2>2 DEF OneAtATime, RenderKnows, TickKnows, Shown, InFrame
<1>3. CASE TickShows
  <2>1. OneAtATime /\ RenderKnows /\ TickKnows
    BY <1>3 DEF LedInv, TickShows
  <2>2. /\ UNCHANGED <<current, restart, ticking, caller>>
        /\ tick.at = "show" /\ \A t \in LedTask : Idle(t)
    BY <1>3, <2>1 DEF TickShows, OneAtATime
  <2>3. ticking /\ ~restart /\ tick.p = current /\ current # "kOff" /\ InFrame
    BY <2>1, <2>2 DEF TickKnows
  <2>4. CASE Ends(current, frame)
    <3>1. tick'.at = "stop" /\ tick'.p = current /\ frame' = frame
      BY <1>0, <1>3, <2>3, <2>4 DEF TickShows, LedTypeOK
    <3>2. colour' = IF current = "kGateOpen" THEN "green" ELSE "dark"
      BY <1>3, <2>3, <2>4 DEF TickShows, Colour
    <3>3. Shown'
      BY <2>2, <2>3, <2>4, <3>1, <3>2 DEF Shown, InFrame, Ends
    <3>4. QED
      BY <2>1, <2>2, <2>3, <3>1, <3>3 DEF OneAtATime, RenderKnows, TickKnows, Shown
  <2>5. CASE ~Ends(current, frame)
    <3>1. tick' = Resting /\ frame' = (frame + 1) % FrameCycle
      BY <1>3, <2>3, <2>5 DEF TickShows
    <3>2. InFrame'
      BY <1>0, <2>2, <2>5, <3>1, NextFrame DEF LedTypeOK, InFrame
    <3>3. QED
      BY <2>1, <2>2, <2>3, <3>1, <3>2 DEF OneAtATime, RenderKnows, TickKnows, Resting
  <2>6. QED
    BY <2>4, <2>5
<1>4. CASE TickStops
  <2>1. OneAtATime /\ RenderKnows /\ TickKnows
    BY <1>4 DEF LedInv, TickStops
  <2>2. /\ UNCHANGED <<current, restart, frame, colour, caller>>
        /\ tick.at = "stop" /\ tick'.at = "idle" /\ ~ticking' /\ \A t \in LedTask : Idle(t)
    BY <1>4, <2>1 DEF TickStops, OneAtATime, Resting
  <2>3. Shown
    BY <2>1, <2>2 DEF TickKnows
  <2>4. Shown'
    BY <2>2, <2>3 DEF Shown, InFrame
  <2>5. QED
    BY <2>1, <2>2, <2>4 DEF OneAtATime, RenderKnows, TickKnows
<1>5. ASSUME NEW t \in LedTask, NEW p \in Pattern, Render(t, p)
      PROVE  OneAtATime' /\ RenderKnows' /\ TickKnows'
  <2>1. /\ tick'.at = "idle" /\ current' = p
        /\ \A u \in LedTask : u # t => Idle(u)' /\ caller'[u].at = "idle"
    BY <1>0, <1>5 DEF Render, LedTypeOK
  <2>2. caller'[t] = [at |-> "restart", p |-> p]
    BY <1>0, <1>5 DEF Render, LedTypeOK
  <2>3. QED
    BY <2>1, <2>2 DEF OneAtATime, RenderKnows, TickKnows
<1>6. ASSUME NEW t \in LedTask, ~Idle(t), OneAtATime, RenderKnows,
             UNCHANGED <<current, frame, tick>>,
             \A u \in LedTask : u # t => caller'[u] = caller[u],
             caller'[t].at # "idle" => caller'[t].p = caller[t].p,
             caller'[t].at = "idle" =>
               \/ ticking' /\ restart' /\ current # "kOff"
               \/ ~ticking' /\ current = "kOff" /\ colour' = "dark",
             caller'[t].at \in {"dark", "stop"} => current = "kOff",
             caller'[t].at \in {"test", "start"} => current # "kOff" /\ restart',
             caller'[t].at = "stop" => colour' = "dark",
             caller'[t].at = "start" => ~ticking'
      PROVE  OneAtATime' /\ RenderKnows' /\ TickKnows'
  <2>1. tick'.at = "idle" /\ \A u \in LedTask : u # t => caller'[u].at = "idle"
    BY <1>6 DEF OneAtATime
  <2>2. OneAtATime'
    BY <2>1 DEF OneAtATime
  <2>3. RenderKnows'
    BY <1>6, <2>1 DEF RenderKnows
  <2>4. TickKnows'
    BY <1>6, <2>1 DEF TickKnows, Shown, InFrame, Ends, Finite
  <2>5. QED
    BY <2>2, <2>3, <2>4
<1>7. ASSUME NEW t \in LedTask,
             \/ RenderRestarts(t) \/ RenderDark(t) \/ RenderStops(t)
             \/ RenderTests(t) \/ RenderStarts(t)
      PROVE  OneAtATime' /\ RenderKnows' /\ TickKnows'
  <2>1. ~raced /\ ~Idle(t) /\ UNCHANGED <<current, frame, tick>>
    BY <1>7 DEF RenderRestarts, RenderDark, RenderStops, RenderTests, RenderStarts
  <2>2. OneAtATime /\ RenderKnows
    BY <2>1 DEF LedInv
  <2>3. caller[t].p = current
    BY <2>1, <2>2 DEF RenderKnows
  <2>4. CASE RenderRestarts(t)
    <3>1. /\ caller'[t].at = IF current = "kOff" THEN "dark" ELSE "test"
          /\ caller'[t].p = current /\ restart'
          /\ \A u \in LedTask : u # t => caller'[u] = caller[u]
      BY <1>0, <2>3, <2>4 DEF RenderRestarts, At, LedTypeOK
    <3>2. QED
      BY <1>6, <2>1, <2>2, <2>3, <3>1
  <2>5. CASE RenderDark(t)
    <3>1. /\ caller'[t].at = "stop" /\ caller'[t].p = current /\ colour' = "dark"
          /\ \A u \in LedTask : u # t => caller'[u] = caller[u]
      BY <1>0, <2>3, <2>5 DEF RenderDark, At, LedTypeOK
    <3>2. current = "kOff"
      BY <2>2, <2>5 DEF RenderDark, RenderKnows
    <3>3. QED
      BY <1>6, <2>1, <2>2, <2>3, <3>1, <3>2
  <2>6. CASE RenderStops(t)
    <3>1. /\ caller'[t].at = "idle" /\ ~ticking' /\ UNCHANGED colour
          /\ \A u \in LedTask : u # t => caller'[u] = caller[u]
      BY <1>0, <2>6 DEF RenderStops, Resting, LedTypeOK
    <3>2. current = "kOff" /\ colour = "dark"
      BY <2>2, <2>6 DEF RenderStops, RenderKnows
    <3>3. QED
      BY <1>6, <2>1, <2>2, <2>3, <3>1, <3>2
  <2>7. CASE RenderTests(t)
    <3>1. /\ caller'[t].at = IF ticking THEN "idle" ELSE "start"
          /\ caller'[t].at # "idle" => caller'[t].p = current
          /\ UNCHANGED <<ticking, restart>>
          /\ \A u \in LedTask : u # t => caller'[u] = caller[u]
      BY <1>0, <2>3, <2>7 DEF RenderTests, Resting, LedTypeOK
    <3>2. current # "kOff" /\ restart
      BY <2>2, <2>7 DEF RenderTests, RenderKnows
    <3>3. QED
      BY <1>6, <2>1, <2>2, <2>3, <3>1, <3>2
  <2>8. CASE RenderStarts(t)
    <3>1. /\ caller'[t].at = "idle" /\ ticking' /\ UNCHANGED restart
          /\ \A u \in LedTask : u # t => caller'[u] = caller[u]
      BY <1>0, <2>8 DEF RenderStarts, Resting, LedTypeOK
    <3>2. current # "kOff" /\ restart
      BY <2>2, <2>8 DEF RenderStarts, RenderKnows
    <3>3. QED
      BY <1>6, <2>1, <2>2, <2>3, <3>1, <3>2
  <2>9. QED
    BY <1>7, <2>4, <2>5, <2>6, <2>7, <2>8
<1>8. QED
  BY <1>1, <1>2, <1>3, <1>4, <1>5, <1>7 DEF LedNext

\* A pattern that was asked for while nothing else touched the LED is played as it
\* should be, for any number of calling tasks, any frame counts and any blink
\* periods (render, on_tick, start_timer_if_needed).
THEOREM LedCorrect == LedSpec => []LedShowsPattern
<1>1. LedInit => LedInv
  <2> SUFFICES ASSUME LedInit PROVE LedInv
    OBVIOUS
  <2>1. LedTypeOK
    <3>1. Resting \in [at : RenderStage, p : Pattern] /\ Resting \in [at : TickStage, p : Pattern]
      BY DEF Resting, RenderStage, TickStage, Pattern
    <3>2. current \in Pattern
      BY DEF LedInit, Pattern
    <3>3. QED
      BY <3>1, <3>2 DEF LedInit, LedTypeOK
  <2>2. OneAtATime /\ RenderKnows /\ TickKnows
    BY DEF LedInit, OneAtATime, RenderKnows, TickKnows, Idle, Resting, Shown, InFrame, Ends, Finite
  <2>3. QED
    BY <2>1, <2>2 DEF LedInv
<1>2. LedInv /\ [LedNext]_ledVars => LedInv'
  <2>1. SUFFICES ASSUME LedInv, UNCHANGED ledVars
                 PROVE  LedInv'
    BY LedStep
  <2>2. QED
    BY <2>1 DEF LedInv, LedTypeOK, OneAtATime, RenderKnows, TickKnows, Idle, Shown, InFrame, ledVars
<1>3. LedInv => LedShowsPattern
  <2> SUFFICES ASSUME LedInv, ~raced, tick.at = "idle", \A t \in LedTask : Idle(t)
               PROVE  IF ticking THEN current # "kOff"
                      ELSE /\ Ends(current, frame)
                           /\ Finite(current) => frame = Frames(current)
                           /\ colour = IF current = "kGateOpen" THEN "green" ELSE "dark"
    BY DEF LedShowsPattern
  <2>1. TickKnows /\ LedTypeOK
    BY DEF LedInv
  <2>2. CASE ticking
    BY <2>1, <2>2 DEF TickKnows
  <2>3. CASE ~ticking
    <3>1. Shown
      BY <2>1, <2>3 DEF TickKnows
    <3>2. Frames(current) \in Nat /\ frame \in Nat
      BY <2>1, LedAssumption DEF LedTypeOK, Frames
    <3>3. Finite(current) => frame = Frames(current)
      BY <3>1, <3>2 DEF Shown, InFrame, Ends, Finite
    <3>4. QED
      BY <2>3, <3>1, <3>3 DEF Shown
  <2>4. QED
    BY <2>2, <2>3
<1>4. QED
  BY <1>1, <1>2, <1>3, PTL DEF LedSpec

-----------------------------------------------------------------------------
(* Numbers.                                                                *)

\* A set of numbers has a least element.
LEMMA LeastNumber ==
  ASSUME NEW S, S \subseteq Nat, S # {}
  PROVE  \E n \in S : \A m \in S : n <= m
<1> DEFINE R == {ss \in Nat \X Nat : ss[1] < ss[2]}
<1>1. IsWellFoundedOn(R, Nat)
  BY NatLessThanWellFounded, Zenon DEF OpToRel
<1>2. ASSUME NEW x \in Nat, NEW y \in Nat, x < y
      PROVE  <<x, y>> \in R
  BY <1>2
<1> HIDE DEF R
<1>3. PICK x \in S : \A y \in S : ~(<<y, x>> \in R)
  BY <1>1, WFMin, Zenon
<1>4. \A y \in S : ~(y < x)
  BY <1>2, <1>3
<1>5. QED
  BY <1>4

-----------------------------------------------------------------------------
(* Sums of prefixes.                                                       *)

\* s sums up the first n numbers of w.
SumsUp(w, n, s) ==
  /\ s \in [0..n -> Nat] /\ s[0] = 0
  /\ \A i \in 1..n : s[i] = s[i - 1] + w[i]

\* The sums exist, for any sequence of numbers.
LEMMA SumsExist ==
  ASSUME NEW w \in Seq(Nat), NEW n \in 0..Len(w)
  PROVE  \E s : SumsUp(w, n, s)
<1> DEFINE L == Len(w)
           Bad == {k \in 0..L : ~ \E s : SumsUp(w, k, s)}
<1>1. L \in Nat /\ \A i \in 1..L : w[i] \in Nat
  OBVIOUS
<1> HIDE DEF L
<1>2. SUFFICES ASSUME Bad # {} PROVE FALSE
  BY DEF L
<1>3. PICK k \in Bad : \A m \in Bad : k <= m
  <2>1. Bad \subseteq Nat
    BY <1>1
  <2> HIDE DEF Bad
  <2>2. QED
    BY <1>2, <2>1, LeastNumber
<1>4. CASE k = 0
  <2>1. SumsUp(w, 0, [i \in 0..0 |-> 0])
    BY DEF SumsUp
  <2>2. QED
    BY <1>3, <1>4, <2>1
<1>5. CASE k # 0
  <2>1. k - 1 \in 0..L /\ k - 1 \notin Bad /\ k \in 1..L /\ k \in Nat
    BY <1>1, <1>3, <1>5
  <2>2. PICK s : SumsUp(w, k - 1, s)
    BY <2>1
  <2> DEFINE t == [i \in 0..k |-> IF i = k THEN s[k - 1] + w[k] ELSE s[i]]
  <2>3. s[k - 1] \in Nat /\ w[k] \in Nat
    BY <1>1, <2>1, <2>2 DEF SumsUp
  <2>4. t \in [0..k -> Nat] /\ t[0] = 0
    BY <2>1, <2>2, <2>3 DEF SumsUp
  <2>5. ASSUME NEW i \in 1..k
        PROVE  t[i] = t[i - 1] + w[i]
    <3>1. CASE i = k
      BY <2>1, <3>1
    <3>2. CASE i # k
      <4>1. i \in 1..(k - 1) /\ t[i] = s[i] /\ t[i - 1] = s[i - 1]
        BY <2>1, <3>2
      <4>2. QED
        BY <2>2, <4>1 DEF SumsUp
    <3>3. QED
      BY <3>1, <3>2
  <2>6. SumsUp(w, k, t)
    BY <2>4, <2>5 DEF SumsUp
  <2>7. QED
    BY <1>3, <2>6
<1>6. QED
  BY <1>4, <1>5

\* Totals are such sums.
LEMMA TotalsSum ==
  ASSUME NEW w \in Seq(Nat)
  PROVE  Len(w) \in Nat /\ SumsUp(w, Len(w), Totals(w))
<1> DEFINE L == Len(w)
<1>1. L \in Nat /\ L \in 0..L /\ \A i \in 1..L : w[i] \in Nat
  OBVIOUS
<1>2. PICK s : SumsUp(w, L, s)
  BY <1>1, SumsExist
<1> HIDE DEF L
<1> DEFINE total[k \in 0..L] == IF k = 0 THEN 0 ELSE total[k - 1] + w[k]
<1>3. s = [k \in 0..L |-> IF k = 0 THEN 0 ELSE s[k - 1] + w[k]]
  BY <1>1, <1>2 DEF SumsUp
<1>4. total = [k \in 0..L |-> IF k = 0 THEN 0 ELSE total[k - 1] + w[k]]
  BY <1>3
<1>5. Totals(w) = total
  BY DEF Totals, L
<1> HIDE DEF total
<1>6. ASSUME NEW k \in 0..L
      PROVE  total[k] \in Nat
  <2> DEFINE Odd == {m \in 0..L : total[m] \notin Nat}
  <2>1. SUFFICES ASSUME Odd # {} PROVE FALSE
    OBVIOUS
  <2>2. PICK m \in Odd : \A j \in Odd : m <= j
    <3>1. Odd \subseteq Nat
      BY <1>1
    <3> HIDE DEF Odd
    <3>2. QED
      BY <2>1, <3>1, LeastNumber
  <2>3. m # 0
    BY <1>1, <1>4
  <2>4. m - 1 \in 0..L /\ m - 1 \notin Odd /\ m \in 1..L
    BY <1>1, <2>2, <2>3
  <2>5. total[m] = total[m - 1] + w[m]
    BY <1>4, <2>3, <2>4
  <2>6. QED
    BY <1>1, <2>2, <2>4, <2>5
<1>7. total \in [0..L -> Nat] /\ total[0] = 0 /\ \A i \in 1..L : total[i] = total[i - 1] + w[i]
  BY <1>1, <1>4, <1>6
<1>8. QED
  BY <1>1, <1>5, <1>7 DEF L, SumsUp

\* Sums grow.
LEMMA SumsGrow ==
  ASSUME NEW w \in Seq(Nat), NEW n \in Nat, n <= Len(w), NEW s, SumsUp(w, n, s),
         NEW i \in 0..n, NEW j \in i..n
  PROVE  s[i] <= s[j]
<1> DEFINE Bad == {m \in i..n : ~(s[i] <= s[m])}
<1>1. /\ i \in Nat /\ \A m \in i..n : s[m] \in Nat
      /\ \A m \in 1..n : w[m] \in Nat /\ s[m] = s[m - 1] + w[m]
  <2>1. i \in Nat /\ i..n \subseteq 0..n /\ 1..n \subseteq 1..Len(w)
    OBVIOUS
  <2>2. \A m \in 1..n : w[m] \in Nat
    BY <2>1
  <2>3. QED
    BY <2>1, <2>2 DEF SumsUp
<1>2. SUFFICES ASSUME Bad # {} PROVE FALSE
  OBVIOUS
<1>3. PICK m \in Bad : \A l \in Bad : m <= l
  <2>1. Bad \subseteq Nat
    BY <1>1
  <2> HIDE DEF Bad
  <2>2. QED
    BY <1>2, <2>1, LeastNumber
<1>4. m # i
  BY <1>1, <1>3
<1>5. m - 1 \in i..n /\ m \in 1..n /\ m - 1 \notin Bad
  BY <1>1, <1>3, <1>4
<1>6. s[i] \in Nat /\ s[m] \in Nat /\ s[m - 1] \in Nat /\ w[m] \in Nat /\ s[m] = s[m - 1] + w[m]
  BY <1>1, <1>5
<1>7. s[i] <= s[m - 1] /\ ~(s[i] <= s[m])
  BY <1>3, <1>5
<1>8. QED
  BY <1>6, <1>7

\* Sums of the same numbers are the same.
LEMMA SumsAgree ==
  ASSUME NEW n \in Nat, NEW k \in 0..n, NEW w, NEW v, NEW s, NEW t, SumsUp(w, n, s), SumsUp(v, n, t),
         \A i \in 1..k : w[i] = v[i]
  PROVE  s[k] = t[k]
<1> DEFINE Bad == {m \in 0..k : s[m] # t[m]}
<1>1. SUFFICES ASSUME Bad # {} PROVE FALSE
  OBVIOUS
<1>2. PICK m \in Bad : \A l \in Bad : m <= l
  <2>1. Bad \subseteq Nat
    OBVIOUS
  <2> HIDE DEF Bad
  <2>2. QED
    BY <1>1, <2>1, LeastNumber
<1>3. m # 0
  BY <1>2 DEF SumsUp
<1>4. m - 1 \in 0..k /\ m \in 1..k /\ m \in 1..n /\ m - 1 \notin Bad
  BY <1>2, <1>3
<1>5. s[m] = s[m - 1] + w[m] /\ t[m] = t[m - 1] + v[m]
  BY <1>4 DEF SumsUp
<1>6. QED
  BY <1>2, <1>4, <1>5

-----------------------------------------------------------------------------
(* GrpcStream.  The bytes between the sender's queue and the assembler are *)
(* where they belong in the stream, and the assembler is as far into the   *)
(* next frame as the bytes it has consumed.                                *)

Assembler == [header : Seq(Nat), inPayload : BOOLEAN, len : Nat, buf : Seq(Nat)]

GrpcTypeOK ==
  /\ plan \in Seq(Frame) /\ sent \in 0..Len(plan)
  /\ cur \in Seq(Nat) /\ wire \in Seq(Nat) /\ chunk \in Seq(Nat)
  /\ deferred \in BOOLEAN /\ asm \in Assembler /\ eaten \in Nat
  /\ handled \in Seq(Seq(Nat)) /\ stream \in {"open", "refused", "ended"}

\* What frame i of a plan puts on the wire, and where it ends: of a message too large
\* only one byte is sent.
Enc(pl, i) == Encoded(i, pl[i])
WireEnd(pl, k) == Totals([i \in 1..Len(pl) |-> Len(Enc(pl, i))])[k]

\* The byte at place p of the first n frames is b.
ByteAt(pl, n, p, b) ==
  \E i \in 1..n : \E q \in 1..Len(Enc(pl, i)) : p = WireEnd(pl, i - 1) + q /\ b = Enc(pl, i)[q]

\* The bytes of s follow place p.
BytesAt(pl, n, s, p) == \A j \in 1..Len(s) : ByteAt(pl, n, p + j, s[j])

WireInv ==
  /\ BytesAt(plan, sent, chunk, eaten)
  /\ BytesAt(plan, sent, wire, eaten + Len(chunk))
  /\ BytesAt(plan, sent, cur, eaten + Len(chunk) + Len(wire))
  /\ eaten + Len(chunk) + Len(wire) + Len(cur) = WireEnd(plan, sent)
  /\ cur # <<>> => ~deferred

\* The bytes of frame i from place k on are those of s.
BeginsWith(pl, i, k, s) == \A q \in 1..Len(s) : s[q] = Enc(pl, i)[k + q]

\* n messages are handled, the bytes up to e consumed, and the assembler a is inside
\* message n + 1.
Inside(pl, n, a, e) ==
  IF a.inPayload
  THEN /\ n < Len(pl) /\ Accepted(pl[n + 1])
       /\ a.header = <<>> /\ a.len = pl[n + 1].len /\ Len(a.buf) < a.len
       /\ e = WireEnd(pl, n) + HeaderSize + Len(a.buf)
       /\ BeginsWith(pl, n + 1, HeaderSize, a.buf)
  ELSE /\ Len(a.header) < HeaderSize
       /\ e = WireEnd(pl, n) + Len(a.header)
       /\ a.header # <<>> => n < Len(pl) /\ BeginsWith(pl, n + 1, 0, a.header)

\* Exactly the first messages have been handled.
Whole(pl, h, e) ==
  /\ Len(h) <= Len(pl) /\ WireEnd(pl, Len(h)) <= e
  /\ \A i \in 1..Len(h) : Accepted(pl[i]) /\ h[i] = Body(i, pl[i].len)

HandledInv ==
  /\ Whole(plan, handled, eaten)
  /\ IF stream = "refused" THEN Len(handled) < Len(plan) /\ ~Accepted(plan[Len(handled) + 1])
                           ELSE Inside(plan, Len(handled), asm, eaten)

GrpcInv == GrpcTypeOK /\ WireInv /\ HandledInv

\* The header of a frame says how it was made.
LEMMA HeaderSays ==
  ASSUME NEW flag \in Nat, NEW n \in Nat
  PROVE  LET h == MakeFrameHeader(flag, n)
         IN h \in Seq(Nat) /\ Len(h) = 5 /\ h[1] = flag /\ Declared(h) = n
<1> DEFINE h == MakeFrameHeader(flag, n)
<1>1. h = <<flag, n \div 256^3, (n \div 256^2) % 256, (n \div 256) % 256, n % 256>>
  BY DEF MakeFrameHeader
<1>2. PICK x \in Nat, y \in Nat, z \in Nat, u \in Nat :
         x = n \div 256^3 /\ y = (n \div 256^2) % 256 /\ z = (n \div 256) % 256 /\ u = n % 256
  OBVIOUS
<1>3. x * 256^3 + y * 256^2 + z * 256 + u = n
  BY <1>2
<1>4. h = <<flag, x, y, z, u>>
  BY <1>1, <1>2
<1> HIDE DEF h
<1>5. h \in Seq(Nat) /\ Len(h) = 5
  BY <1>4
<1>6. h[1] = flag /\ h[2] = x /\ h[3] = y /\ h[4] = z /\ h[5] = u
  BY <1>4
<1>7. Declared(h) = n
  BY <1>3, <1>6 DEF Declared
<1>8. QED
  BY <1>5, <1>6, <1>7 DEF h

\* A frame has a flag and a length.
LEMMA FrameIs ==
  ASSUME NEW f \in Frame
  PROVE  f.flag \in Nat /\ f.len \in Nat
<1>1. CASE f \in [flag : {0}, len : Payloads]
  <2>1. f.flag = 0 /\ f.len \in Payloads
    BY <1>1
  <2>2. Payloads \subseteq Nat
    BY StreamAssumption
  <2>3. f.len \in Nat
    BY <2>1, <2>2, Zenon
  <2>4. QED
    BY <2>1, <2>3
<1>2. CASE f \in [flag : {1}, len : {1}]
  BY <1>2
<1>3. QED
  BY <1>1, <1>2 DEF Frame

\* The elements of two sequences that are put together.
LEMMA ConcatIs ==
  ASSUME NEW s \in Seq(Nat), NEW t \in Seq(Nat)
  PROVE  /\ s \o t \in Seq(Nat) /\ Len(s \o t) = Len(s) + Len(t)
         /\ Len(s) \in Nat /\ Len(t) \in Nat
         /\ \A j \in 1..Len(s) : (s \o t)[j] = s[j]
         /\ \A j \in 1..Len(t) : (s \o t)[Len(s) + j] = t[j]
  OBVIOUS

\* A frame on the wire: its header, then its message.
LEMMA EncodedIs ==
  ASSUME NEW pl \in Seq(Frame), NEW i \in 1..Len(pl)
  PROVE  /\ pl[i] \in Frame /\ pl[i].flag \in Nat /\ pl[i].len \in Nat
         /\ Enc(pl, i) \in Seq(Nat) /\ Len(Enc(pl, i)) \in Nat /\ Len(Enc(pl, i)) >= HeaderSize
         /\ \A q \in 1..HeaderSize :
              Enc(pl, i)[q] = MakeFrameHeader(pl[i].flag, pl[i].len)[q]
         /\ Accepted(pl[i]) =>
              /\ Len(Enc(pl, i)) = HeaderSize + pl[i].len
              /\ \A q \in 1..pl[i].len : Enc(pl, i)[HeaderSize + q] = Body(i, pl[i].len)[q]
<1> DEFINE h == MakeFrameHeader(pl[i].flag, pl[i].len)
           m == IF pl[i].len > Capacity THEN 1 ELSE pl[i].len
           b == Body(i, m)
<1>1. pl[i] \in Frame
  OBVIOUS
<1>2. pl[i].flag \in Nat /\ pl[i].len \in Nat
  BY <1>1, FrameIs
<1>3. h \in Seq(Nat) /\ Len(h) = 5
  BY <1>2, HeaderSays
<1>4. m \in Nat /\ (Accepted(pl[i]) => m = pl[i].len)
  BY <1>2, StreamAssumption DEF Accepted
<1> HIDE DEF h, m
<1>5. b \in Seq(Nat) /\ Len(b) = m /\ DOMAIN b = 1..m
  BY <1>4 DEF Body
<1>6. Enc(pl, i) = h \o b
  BY DEF Enc, Encoded, h, m
<1> HIDE DEF b
<1>7. /\ Enc(pl, i) \in Seq(Nat) /\ Len(Enc(pl, i)) = 5 + m
      /\ \A q \in 1..5 : Enc(pl, i)[q] = h[q]
      /\ \A q \in 1..m : Enc(pl, i)[5 + q] = b[q]
  <2>1. /\ h \o b \in Seq(Nat) /\ Len(h \o b) = Len(h) + Len(b)
        /\ \A j \in 1..Len(h) : (h \o b)[j] = h[j]
        /\ \A j \in 1..Len(b) : (h \o b)[Len(h) + j] = b[j]
    BY <1>3, <1>5, ConcatIs, Zenon
  <2>2. QED
    BY <1>3, <1>5, <1>6, <2>1
<1>8. ASSUME Accepted(pl[i])
      PROVE  /\ Len(Enc(pl, i)) = HeaderSize + pl[i].len
             /\ \A q \in 1..pl[i].len : Enc(pl, i)[HeaderSize + q] = Body(i, pl[i].len)[q]
  BY <1>4, <1>7, <1>8 DEF HeaderSize, b
<1>9. QED
  BY <1>1, <1>2, <1>4, <1>7, <1>8 DEF HeaderSize, h

\* Where the frames end.
LEMMA EndsAre ==
  ASSUME NEW pl \in Seq(Frame)
  PROVE  /\ WireEnd(pl, 0) = 0 /\ \A k \in 0..Len(pl) : WireEnd(pl, k) \in Nat
         /\ \A k \in 1..Len(pl) : WireEnd(pl, k) = WireEnd(pl, k - 1) + Len(Enc(pl, k))
         /\ \A k \in 0..Len(pl) : \A l \in k..Len(pl) : WireEnd(pl, k) <= WireEnd(pl, l)
<1> DEFINE w == [i \in 1..Len(pl) |-> Len(Enc(pl, i))]
<1>1. w \in Seq(Nat) /\ Len(w) = Len(pl) /\ Len(pl) \in Nat
  <2>1. \A i \in 1..Len(pl) : Len(Enc(pl, i)) \in Nat
    BY EncodedIs
  <2>2. Len(pl) \in Nat
    OBVIOUS
  <2>3. QED
    BY <2>1, <2>2
<1>2. \A i \in 1..Len(pl) : w[i] = Len(Enc(pl, i))
  OBVIOUS
<1>3. \A k : WireEnd(pl, k) = Totals(w)[k]
  BY DEF WireEnd
<1> HIDE DEF w
<1>4. SumsUp(w, Len(pl), Totals(w))
  BY <1>1, TotalsSum
<1>5. ASSUME NEW k \in 0..Len(pl), NEW l \in k..Len(pl)
      PROVE  Totals(w)[k] <= Totals(w)[l]
  BY <1>1, <1>4, SumsGrow
<1>6. QED
  BY <1>1, <1>2, <1>3, <1>4, <1>5 DEF SumsUp

\* A byte inside the frame after the first n belongs to that frame.
LEMMA Located ==
  ASSUME NEW pl \in Seq(Frame), NEW sn \in 0..Len(pl), NEW n \in 0..Len(pl), NEW d \in Nat, NEW b,
         n < Len(pl) => d < Len(Enc(pl, n + 1)), ByteAt(pl, sn, WireEnd(pl, n) + (d + 1), b)
  PROVE  n < sn /\ b = Enc(pl, n + 1)[d + 1]
<1>1. PICK i \in 1..sn : \E q \in 1..Len(Enc(pl, i)) :
              WireEnd(pl, n) + (d + 1) = WireEnd(pl, i - 1) + q /\ b = Enc(pl, i)[q]
  BY DEF ByteAt
<1>2. i \in 1..Len(pl) /\ i - 1 \in 0..Len(pl) /\ Len(pl) \in Nat /\ i \in Nat /\ sn \in Nat
  <2>1. Len(pl) \in Nat
    OBVIOUS
  <2>2. sn \in Nat /\ sn <= Len(pl)
    BY <2>1
  <2>3. QED
    BY <2>1, <2>2
<1>3. Len(Enc(pl, i)) \in Nat
  BY <1>2, EncodedIs
<1>4. PICK q \in 1..Len(Enc(pl, i)) : WireEnd(pl, n) + (d + 1) = WireEnd(pl, i - 1) + q /\ b = Enc(pl, i)[q]
  BY <1>1
<1>5. /\ WireEnd(pl, n) \in Nat /\ WireEnd(pl, i - 1) \in Nat /\ WireEnd(pl, i) \in Nat /\ q \in Nat
      /\ q >= 1 /\ q <= Len(Enc(pl, i)) /\ WireEnd(pl, i) = WireEnd(pl, i - 1) + Len(Enc(pl, i))
  <2>1. WireEnd(pl, i) = WireEnd(pl, i - 1) + Len(Enc(pl, i))
    BY <1>2, EndsAre
  <2>2. i \in 0..Len(pl)
    BY <1>2
  <2>3. WireEnd(pl, n) \in Nat /\ WireEnd(pl, i - 1) \in Nat /\ WireEnd(pl, i) \in Nat
    BY <1>2, <2>2, EndsAre, Zenon
  <2>4. q \in Nat /\ q >= 1 /\ q <= Len(Enc(pl, i))
    BY <1>3, <1>4
  <2>5. QED
    BY <2>1, <2>3, <2>4
<1>6. ~(i <= n)
  <2>1. SUFFICES ASSUME i <= n PROVE FALSE
    OBVIOUS
  <2>2. WireEnd(pl, i) <= WireEnd(pl, n)
    BY <1>2, <2>1, EndsAre
  <2>3. QED
    BY <1>3, <1>4, <1>5, <2>2
<1>7. ~(i > n + 1)
  <2>1. SUFFICES ASSUME i > n + 1 PROVE FALSE
    OBVIOUS
  <2>2. n + 1 \in 1..Len(pl) /\ n + 1 \in 0..Len(pl) /\ i - 1 \in (n + 1)..Len(pl)
        /\ (n + 1) - 1 = n /\ n < Len(pl)
    BY <1>2, <2>1
  <2>3. /\ WireEnd(pl, n + 1) <= WireEnd(pl, i - 1) /\ WireEnd(pl, n + 1) = WireEnd(pl, n) + Len(Enc(pl, n + 1))
        /\ WireEnd(pl, n + 1) \in Nat
    BY <2>2, EndsAre
  <2>4. Len(Enc(pl, n + 1)) \in Nat /\ d < Len(Enc(pl, n + 1))
    BY <2>2, EncodedIs
  <2>5. PICK x \in Nat, y \in Nat, e \in Nat :
          x = WireEnd(pl, n) /\ y = WireEnd(pl, i - 1) /\ e = Len(Enc(pl, n + 1))
    BY <1>5, <2>4
  <2>6. x + (d + 1) = y + q /\ x + e <= y /\ d < e
    BY <1>4, <2>3, <2>4, <2>5
  <2>7. QED
    BY <1>5, <2>6
<1>8. i = n + 1 /\ i - 1 = n
  BY <1>2, <1>6, <1>7
<1>9. q = d + 1
  BY <1>4, <1>5, <1>8
<1>10. QED
  BY <1>2, <1>4, <1>8, <1>9

\* Bytes in their places stay there when they are cut in two ...
LEMMA CutBytes ==
  ASSUME NEW pl, NEW sn, NEW s \in Seq(Nat), NEW p \in Nat, NEW t \in 0..Len(s), BytesAt(pl, sn, s, p)
  PROVE  LET a == SubSeq(s, 1, t)
             b == SubSeq(s, t + 1, Len(s))
         IN /\ a \in Seq(Nat) /\ Len(a) = t /\ BytesAt(pl, sn, a, p)
            /\ b \in Seq(Nat) /\ Len(b) = Len(s) - t /\ BytesAt(pl, sn, b, p + t)
<1> DEFINE a == SubSeq(s, 1, t)
           b == SubSeq(s, t + 1, Len(s))
<1>1. /\ a \in Seq(Nat) /\ Len(a) = t /\ \A j \in 1..t : a[j] = s[j]
      /\ b \in Seq(Nat) /\ Len(b) = Len(s) - t /\ \A j \in 1..(Len(s) - t) : b[j] = s[t + j]
      /\ Len(s) \in Nat /\ t \in Nat
  <2>1. Len(s) \in Nat /\ t \in Nat /\ t <= Len(s)
    OBVIOUS
  <2>2. a \in Seq(Nat) /\ Len(a) = t
    BY <2>1
  <2>3. \A j \in 1..t : a[j] = s[j]
    BY <2>1
  <2>4. b \in Seq(Nat) /\ Len(b) = Len(s) - t
    BY <2>1
  <2>5. \A j \in 1..(Len(s) - t) : b[j] = s[t + j]
    BY <2>1
  <2>6. QED
    BY <2>1, <2>2, <2>3, <2>4, <2>5
<1> HIDE DEF a, b
<1>2. ASSUME NEW j \in 1..Len(a)
      PROVE  ByteAt(pl, sn, p + j, a[j])
  <2>1. j \in 1..t /\ j \in 1..Len(s)
    BY <1>1
  <2>2. a[j] = s[j] /\ ByteAt(pl, sn, p + j, s[j])
    BY <1>1, <2>1 DEF BytesAt
  <2>3. QED
    BY <2>2
<1>3. ASSUME NEW j \in 1..Len(b)
      PROVE  ByteAt(pl, sn, (p + t) + j, b[j])
  <2>1. t + j \in 1..Len(s) /\ b[j] = s[t + j] /\ p + (t + j) = (p + t) + j
    BY <1>1
  <2>2. ByteAt(pl, sn, p + (t + j), s[t + j])
    BY <2>1 DEF BytesAt
  <2>3. QED
    BY <2>1, <2>2
<1>4. QED
  BY <1>1, <1>2, <1>3 DEF a, b, BytesAt

\* ... and when they are put together.
LEMMA JoinBytes ==
  ASSUME NEW pl, NEW sn, NEW s \in Seq(Nat), NEW t \in Seq(Nat), NEW p \in Nat, BytesAt(pl, sn, s, p), BytesAt(pl, sn, t, p + Len(s))
  PROVE  s \o t \in Seq(Nat) /\ Len(s \o t) = Len(s) + Len(t) /\ BytesAt(pl, sn, s \o t, p)
<1>1. /\ s \o t \in Seq(Nat) /\ Len(s \o t) = Len(s) + Len(t) /\ Len(s) \in Nat /\ Len(t) \in Nat
      /\ \A j \in 1..Len(s) : (s \o t)[j] = s[j]
      /\ \A j \in 1..Len(t) : (s \o t)[Len(s) + j] = t[j]
  BY ConcatIs
<1>2. ASSUME NEW j \in 1..(Len(s) + Len(t))
      PROVE  ByteAt(pl, sn, p + j, (s \o t)[j])
  <2>1. CASE j <= Len(s)
    <3>1. j \in 1..Len(s)
      BY <1>1, <2>1
    <3>2. QED
      BY <1>1, <3>1 DEF BytesAt
  <2>2. CASE j > Len(s)
    <3>1. PICK k \in 1..Len(t) : j = Len(s) + k
      <4>1. j - Len(s) \in 1..Len(t) /\ j = Len(s) + (j - Len(s))
        BY <1>1, <2>2
      <4>2. QED
        BY <4>1
    <3>2. ByteAt(pl, sn, (p + Len(s)) + k, t[k]) /\ (p + Len(s)) + k = p + j
      BY <1>1, <3>1 DEF BytesAt
    <3>3. QED
      BY <1>1, <3>1, <3>2
  <2>3. QED
    BY <1>1, <2>1, <2>2
<1>3. QED
  BY <1>1, <1>2 DEF BytesAt

\* The smaller of two numbers.
LEMMA MinPair ==
  ASSUME NEW a \in Int, NEW b \in Int
  PROVE  Min({a, b}) = IF a <= b THEN a ELSE b
<1> DEFINE m == IF a <= b THEN a ELSE b
<1>1. m \in {a, b} /\ \A y \in {a, b} : m <= y
  OBVIOUS
<1>2. \A x \in {a, b} : (\A y \in {a, b} : x <= y) => x = m
  OBVIOUS
<1> HIDE DEF m
<1>3. QED
  BY <1>1, <1>2 DEF Min, m

\* The bytes of the next frame come after all the others, which stay where they are.
LEMMA NextFrameFollows ==
  ASSUME NEW pl \in Seq(Frame), NEW n \in 0..Len(pl), n < Len(pl)
  PROVE  /\ BytesAt(pl, n + 1, Enc(pl, n + 1), WireEnd(pl, n))
         /\ \A s, p : BytesAt(pl, n, s, p) => BytesAt(pl, n + 1, s, p)
<1>1. n + 1 \in 1..(n + 1) /\ (n + 1) - 1 = n /\ 1..n \subseteq 1..(n + 1)
  OBVIOUS
<1>2. ASSUME NEW q \in 1..Len(Enc(pl, n + 1))
      PROVE  ByteAt(pl, n + 1, WireEnd(pl, n) + q, Enc(pl, n + 1)[q])
  BY <1>1 DEF ByteAt
<1>3. ASSUME NEW p, NEW b, ByteAt(pl, n, p, b)
      PROVE  ByteAt(pl, n + 1, p, b)
  BY <1>1, <1>3 DEF ByteAt
<1>4. QED
  BY <1>2, <1>3 DEF BytesAt

\* A frame is taken from the queue.
LEMMA TakeInv ==
  ASSUME GrpcInv, TakeNextFrame
  PROVE  GrpcInv'
<1>1. /\ sent' = sent + 1 /\ cur' = Enc(plan, sent + 1) /\ deferred' = FALSE /\ cur = <<>>
      /\ UNCHANGED <<plan, wire, chunk, asm, eaten, handled, stream>>
      /\ sent < Len(plan)
  BY DEF TakeNextFrame, Enc
<1>2. /\ plan \in Seq(Frame) /\ Len(plan) \in Nat /\ sent \in 0..Len(plan)
      /\ chunk \in Seq(Nat) /\ wire \in Seq(Nat) /\ eaten \in Nat
  BY DEF GrpcInv, GrpcTypeOK
<1>3. sent + 1 \in 1..Len(plan) /\ sent + 1 \in 0..Len(plan) /\ (sent + 1) - 1 = sent
  BY <1>1, <1>2
<1>4. Enc(plan, sent + 1) \in Seq(Nat) /\ Len(Enc(plan, sent + 1)) \in Nat
  BY <1>2, <1>3, EncodedIs
<1>5. GrpcTypeOK'
  BY <1>1, <1>3, <1>4 DEF GrpcInv, GrpcTypeOK
<1>6. WireInv'
  <2>1. eaten + Len(chunk) + Len(wire) = WireEnd(plan, sent)
    <3>1. Len(cur) = 0
      BY <1>1
    <3>2. Len(chunk) \in Nat /\ Len(wire) \in Nat
      BY <1>2
    <3>3. QED
      BY <1>2, <3>1, <3>2 DEF GrpcInv, WireInv
  <2>2. WireEnd(plan, sent + 1) = WireEnd(plan, sent) + Len(Enc(plan, sent + 1))
    BY <1>2, <1>3, EndsAre
  <2>3. /\ BytesAt(plan, sent + 1, Enc(plan, sent + 1), WireEnd(plan, sent))
        /\ BytesAt(plan, sent + 1, chunk, eaten)
        /\ BytesAt(plan, sent + 1, wire, eaten + Len(chunk))
    BY <1>1, <1>2, NextFrameFollows DEF GrpcInv, WireInv
  <2>4. QED
    BY <1>1, <2>1, <2>2, <2>3 DEF WireInv
<1>7. HandledInv'
  BY <1>1 DEF GrpcInv, HandledInv
<1>8. QED
  BY <1>5, <1>6, <1>7 DEF GrpcInv

\* A slice of it is handed to HTTP/2.
LEMMA ReadInv ==
  ASSUME GrpcInv, NEW length \in 1..MaxSlice, DataRead(length)
  PROVE  GrpcInv'
<1> DEFINE t == Min({length, Len(cur)})
           a == SubSeq(cur, 1, t)
           b == SubSeq(cur, t + 1, Len(cur))
<1>1. /\ wire' = wire \o a /\ cur' = b /\ deferred' = (cur = <<>>)
      /\ UNCHANGED <<plan, sent, chunk, asm, eaten, handled, stream>>
  BY DEF DataRead
<1>2. /\ cur \in Seq(Nat) /\ wire \in Seq(Nat) /\ chunk \in Seq(Nat) /\ eaten \in Nat
      /\ Len(cur) \in Nat /\ Len(wire) \in Nat /\ Len(chunk) \in Nat
  BY DEF GrpcInv, GrpcTypeOK
<1>3. t \in 0..Len(cur)
  <2>1. length \in Int /\ length > 0
    BY StreamAssumption
  <2>2. Len(cur) \in Int
    BY <1>2
  <2>3. t = IF length <= Len(cur) THEN length ELSE Len(cur)
    BY <2>1, <2>2, MinPair, Zenon
  <2>4. QED
    BY <1>2, <2>1, <2>3
<1> DEFINE p == eaten + Len(chunk)
<1>4. p \in Nat /\ p + Len(wire) \in Nat
  BY <1>2
<1>5. BytesAt(plan, sent, wire, p) /\ BytesAt(plan, sent, cur, p + Len(wire))
  BY DEF GrpcInv, WireInv
<1> HIDE DEF t, p
<1>6. /\ a \in Seq(Nat) /\ Len(a) = t /\ BytesAt(plan, sent, a, p + Len(wire))
      /\ b \in Seq(Nat) /\ Len(b) = Len(cur) - t /\ BytesAt(plan, sent, b, (p + Len(wire)) + t)
  BY <1>2, <1>3, <1>4, <1>5, CutBytes
<1> HIDE DEF a, b
<1>7. /\ wire \o a \in Seq(Nat) /\ Len(wire \o a) = Len(wire) + t /\ BytesAt(plan, sent, wire \o a, p)
  <2>1. wire \o a \in Seq(Nat) /\ Len(wire \o a) = Len(wire) + Len(a) /\ BytesAt(plan, sent, wire \o a, p)
    BY <1>2, <1>4, <1>5, <1>6, JoinBytes, Zenon
  <2>2. QED
    BY <1>6, <2>1
<1>8. GrpcTypeOK'
  <2>1. (cur = <<>>) \in BOOLEAN
    OBVIOUS
  <2>2. QED
    BY <1>1, <1>6, <1>7, <2>1 DEF GrpcInv, GrpcTypeOK
<1>9. WireInv'
  <2>1. (p + Len(wire)) + t = p + Len(wire \o a) /\ p + Len(wire \o a) + Len(b) = p + Len(wire) + Len(cur)
    BY <1>2, <1>3, <1>4, <1>6, <1>7
  <2>2. BytesAt(plan, sent, b, p + Len(wire \o a))
    BY <1>6, <2>1
  <2>3. b # <<>> => cur # <<>>
    <3>1. ASSUME cur = <<>> PROVE b = <<>>
      <4>1. Len(cur) = 0
        BY <3>1
      <4>2. t = 0
        BY <1>3, <4>1
      <4>3. Len(b) = 0
        BY <1>6, <4>1, <4>2
      <4>4. QED
        BY <1>6, <4>3
    <3>2. QED
      BY <3>1
  <2>4. QED
    BY <1>1, <1>7, <2>1, <2>2, <2>3 DEF GrpcInv, WireInv, p
<1>10. HandledInv'
  BY <1>1 DEF GrpcInv, HandledInv
<1>11. QED
  BY <1>8, <1>9, <1>10 DEF GrpcInv

\* The next bytes arrive.
LEMMA ChunkInv ==
  ASSUME GrpcInv, NEW n \in 1..MaxSlice, DataChunk(n)
  PROVE  GrpcInv'
<1> DEFINE a == SubSeq(wire, 1, n)
           b == SubSeq(wire, n + 1, Len(wire))
<1>1. /\ chunk' = a /\ wire' = b /\ chunk = <<>> /\ n <= Len(wire)
      /\ UNCHANGED <<plan, sent, cur, deferred, asm, eaten, handled, stream>>
  BY DEF DataChunk
<1>2. /\ cur \in Seq(Nat) /\ wire \in Seq(Nat) /\ eaten \in Nat
      /\ Len(cur) \in Nat /\ Len(wire) \in Nat /\ Len(chunk) = 0
  BY <1>1 DEF GrpcInv, GrpcTypeOK
<1>3. n \in 0..Len(wire)
  BY <1>1, <1>2, StreamAssumption
<1>4. /\ BytesAt(plan, sent, wire, eaten) /\ BytesAt(plan, sent, cur, eaten + Len(wire))
      /\ eaten + Len(wire) + Len(cur) = WireEnd(plan, sent) /\ (cur # <<>> => ~deferred)
  <2>1. eaten + Len(chunk) = eaten
    BY <1>2
  <2>2. QED
    BY <2>1 DEF GrpcInv, WireInv
<1>5. /\ a \in Seq(Nat) /\ Len(a) = n /\ BytesAt(plan, sent, a, eaten)
      /\ b \in Seq(Nat) /\ Len(b) = Len(wire) - n /\ BytesAt(plan, sent, b, eaten + n)
  BY <1>2, <1>3, <1>4, CutBytes
<1> HIDE DEF a, b
<1>6. eaten + Len(a) + Len(b) = eaten + Len(wire) /\ eaten + Len(a) = eaten + n
  BY <1>2, <1>3, <1>5
<1>7. GrpcTypeOK'
  BY <1>1, <1>5 DEF GrpcInv, GrpcTypeOK
<1>8. WireInv'
  BY <1>1, <1>4, <1>5, <1>6 DEF WireInv
<1>9. HandledInv'
  BY <1>1 DEF GrpcInv, HandledInv
<1>10. QED
  BY <1>7, <1>8, <1>9 DEF GrpcInv

\* Bytes are consumed.
LEMMA Consumed ==
  ASSUME GrpcInv, NEW t \in 0..Len(chunk),
         chunk' = SubSeq(chunk, t + 1, Len(chunk)), eaten' = eaten + t,
         UNCHANGED <<plan, sent, cur, deferred, wire>>
  PROVE  /\ chunk' \in Seq(Nat) /\ eaten' \in Nat /\ WireInv'
         /\ SubSeq(chunk, 1, t) \in Seq(Nat) /\ Len(SubSeq(chunk, 1, t)) = t
         /\ BytesAt(plan, sent, SubSeq(chunk, 1, t), eaten)
<1> DEFINE a == SubSeq(chunk, 1, t)
           b == SubSeq(chunk, t + 1, Len(chunk))
<1>1. chunk \in Seq(Nat) /\ Len(chunk) \in Nat /\ eaten \in Nat /\ t \in Nat
  BY DEF GrpcInv, GrpcTypeOK
<1>2. BytesAt(plan, sent, chunk, eaten)
  BY DEF GrpcInv, WireInv
<1>3. /\ a \in Seq(Nat) /\ Len(a) = t /\ BytesAt(plan, sent, a, eaten)
      /\ b \in Seq(Nat) /\ Len(b) = Len(chunk) - t /\ BytesAt(plan, sent, b, eaten + t)
  BY <1>1, <1>2, CutBytes
<1>4. chunk' = b
  OBVIOUS
<1> HIDE DEF a, b
<1>5. eaten' + Len(b) = eaten + Len(chunk)
  BY <1>1, <1>3
<1>6. WireInv'
  BY <1>3, <1>4, <1>5 DEF GrpcInv, WireInv
<1>7. eaten' \in Nat
  BY <1>1
<1>8. QED
  BY <1>3, <1>4, <1>6, <1>7 DEF a

\* A byte of a header.
LEMMA HeaderInv ==
  ASSUME GrpcInv, PushHeader
  PROVE  GrpcInv'
<1> DEFINE n == Len(handled)
           f == plan[n + 1]
           e == Enc(plan, n + 1)
           d == Len(asm.header)
           h == Append(asm.header, Head(chunk))
           complete == Len(h) = HeaderSize
           refused == complete /\ (h[1] # 0 \/ Declared(h) > Capacity)
           empty == complete /\ ~refused /\ Declared(h) = 0
<1>1. /\ stream = "open" /\ chunk # <<>> /\ ~asm.inPayload
      /\ asm' = IF complete
                THEN [header |-> <<>>, inPayload |-> ~refused /\ ~empty,
                      len |-> Declared(h), buf |-> <<>>]
                ELSE [asm EXCEPT !.header = h]
      /\ handled' = IF empty THEN Append(handled, <<>>) ELSE handled
      /\ stream' = IF refused THEN "refused" ELSE "open"
      /\ chunk' = Tail(chunk) /\ eaten' = eaten + 1
      /\ UNCHANGED <<plan, sent, cur, deferred, wire>>
  BY DEF PushHeader
<1>2. /\ plan \in Seq(Frame) /\ Len(plan) \in Nat /\ sent \in 0..Len(plan)
      /\ chunk \in Seq(Nat) /\ eaten \in Nat /\ asm \in Assembler
      /\ handled \in Seq(Seq(Nat)) /\ asm.header \in Seq(Nat) /\ asm.buf \in Seq(Nat)
      /\ d \in Nat /\ n \in Nat /\ Len(chunk) \in Nat /\ Len(chunk) > 0
  <2>1. /\ plan \in Seq(Frame) /\ sent \in 0..Len(plan) /\ chunk \in Seq(Nat) /\ eaten \in Nat
        /\ asm \in Assembler /\ handled \in Seq(Seq(Nat))
    BY DEF GrpcInv, GrpcTypeOK
  <2>2. asm.header \in Seq(Nat) /\ asm.buf \in Seq(Nat)
    BY <2>1 DEF Assembler
  <2>3. d \in Nat
    BY <2>2
  <2>4. n \in Nat /\ Len(plan) \in Nat
    BY <2>1
  <2>5. Len(chunk) \in Nat /\ Len(chunk) > 0
    BY <1>1, <2>1
  <2>6. QED
    BY <2>1, <2>2, <2>3, <2>4, <2>5
<1>3. /\ n <= Len(plan) /\ WireEnd(plan, n) <= eaten
      /\ \A i \in 1..n : Accepted(plan[i]) /\ handled[i] = Body(i, plan[i].len)
      /\ d < HeaderSize /\ eaten = WireEnd(plan, n) + d
      /\ asm.header # <<>> => BeginsWith(plan, n + 1, 0, asm.header)
  BY <1>1 DEF GrpcInv, HandledInv, Whole, Inside
<1> HIDE DEF d, n
<1>4. /\ chunk' \in Seq(Nat) /\ eaten' \in Nat /\ WireInv'
      /\ ByteAt(plan, sent, eaten + 1, Head(chunk))
  <2>1. 1 \in 0..Len(chunk) /\ 1 \in 1..Len(chunk) /\ Head(chunk) = chunk[1]
    BY <1>2
  <2>2. chunk' = SubSeq(chunk, 1 + 1, Len(chunk))
    BY <1>1, <1>2
  <2>3. chunk' \in Seq(Nat) /\ eaten' \in Nat /\ WireInv'
    BY <1>1, <2>1, <2>2, Consumed
  <2>4. ByteAt(plan, sent, eaten + 1, chunk[1])
    BY <2>1 DEF GrpcInv, WireInv, BytesAt
  <2>5. QED
    BY <2>1, <2>3, <2>4
<1>5. n < Len(plan) /\ n < sent /\ Head(chunk) = e[d + 1]
  <2>1. n \in 0..Len(plan)
    BY <1>2, <1>3
  <2>2. n < Len(plan) => d < Len(e)
    <3>1. ASSUME n < Len(plan) PROVE n + 1 \in 1..Len(plan)
      BY <1>2, <3>1
    <3>2. ASSUME n < Len(plan) PROVE Len(e) \in Nat /\ Len(e) >= HeaderSize
      BY <1>2, <3>1, <3>2, EncodedIs
    <3>3. QED
      BY <1>2, <1>3, <3>2 DEF HeaderSize
  <2>3. WireEnd(plan, n) \in Nat
    BY <1>2, <2>1, EndsAre
  <2>4. eaten + 1 = WireEnd(plan, n) + (d + 1)
    BY <1>2, <1>3, <2>3
  <2>5. ByteAt(plan, sent, WireEnd(plan, n) + (d + 1), Head(chunk))
    BY <1>4, <2>4
  <2>6. n < sent /\ Head(chunk) = e[d + 1]
    BY <1>2, <2>1, <2>2, <2>5, Located
  <2>7. QED
    BY <1>2, <2>6
<1>6. n + 1 \in 1..Len(plan) /\ (n + 1) - 1 = n
  BY <1>2, <1>5
<1>7. /\ f \in Frame /\ f.flag \in Nat /\ f.len \in Nat
      /\ \A q \in 1..HeaderSize : e[q] = MakeFrameHeader(f.flag, f.len)[q]
      /\ Accepted(f) => Len(e) = HeaderSize + f.len
      /\ WireEnd(plan, n) \in Nat /\ WireEnd(plan, n + 1) = WireEnd(plan, n) + Len(e)
  <2>1. WireEnd(plan, n + 1) = WireEnd(plan, (n + 1) - 1) + Len(Enc(plan, n + 1))
    BY <1>2, <1>6, EndsAre
  <2>3. n \in 0..Len(plan)
    BY <1>2, <1>3
  <2>4. WireEnd(plan, n) \in Nat
    BY <1>2, <2>3, EndsAre
  <2>2. QED
    BY <1>2, <1>6, <2>1, <2>4, EncodedIs
<1>8. /\ h \in Seq(Nat) /\ Len(h) = d + 1 /\ \A q \in 1..(d + 1) : h[q] = e[0 + q]
  <2>1. Head(chunk) \in Nat
    BY <1>2
  <2>2. h \in Seq(Nat) /\ Len(h) = d + 1 /\ h[d + 1] = Head(chunk) /\ \A q \in 1..d : h[q] = asm.header[q]
    BY <1>2, <2>1 DEF d
  <2>3. ASSUME NEW q \in 1..d
        PROVE  asm.header[q] = e[0 + q]
    <3>1. asm.header # <<>>
      BY <1>2 DEF d
    <3>2. QED
      BY <1>3, <3>1 DEF BeginsWith, d
  <2>4. ASSUME NEW q \in 1..(d + 1)
        PROVE  h[q] = e[0 + q]
    <3>1. CASE q = d + 1
      BY <1>2, <1>5, <2>2, <3>1
    <3>2. CASE q # d + 1
      <4>1. q \in 1..d
        BY <1>2, <3>2
      <4>2. QED
        BY <2>2, <2>3, <4>1
    <3>3. QED
      BY <3>1, <3>2
  <2>5. QED
    BY <2>2, <2>4
<1> HIDE DEF h
<1>9. (complete => d = 4) /\ (~complete => Len(h) < HeaderSize) /\ Len(h) = d + 1
  <2>1. Len(h) = d + 1 /\ d \in Nat /\ d < 5
    BY <1>2, <1>3, <1>8 DEF HeaderSize
  <2>2. QED
    BY <2>1 DEF HeaderSize
<1>10. eaten + 1 = WireEnd(plan, n) + (d + 1) /\ WireEnd(plan, n) <= eaten + 1
  <2>1. WireEnd(plan, n) \in Nat /\ d \in Nat /\ eaten = WireEnd(plan, n) + d
    BY <1>2, <1>3, <1>7
  <2>2. QED
    BY <2>1
<1>11. complete => h[1] = f.flag /\ Declared(h) = f.len
  <2>1. SUFFICES ASSUME complete PROVE h[1] = f.flag /\ Declared(h) = f.len
    OBVIOUS
  <2> DEFINE m == MakeFrameHeader(f.flag, f.len)
  <2>2. m[1] = f.flag /\ Declared(m) = f.len
    BY <1>7, HeaderSays
  <2>3. d = 4
    BY <1>9, <2>1
  <2>4. h[1] = m[1] /\ h[2] = m[2] /\ h[3] = m[3] /\ h[4] = m[4] /\ h[5] = m[5]
    BY <1>7, <1>8, <2>3 DEF HeaderSize
  <2> HIDE DEF m
  <2>5. Declared(h) = Declared(m)
    BY <2>4 DEF Declared
  <2>6. QED
    BY <2>2, <2>4, <2>5
<1>12. /\ asm' \in Assembler /\ handled' \in Seq(Seq(Nat)) /\ stream' \in {"open", "refused", "ended"}
       /\ asm'.inPayload = (complete /\ ~refused /\ ~empty)
       /\ asm'.header = IF complete THEN <<>> ELSE h
       /\ complete => asm'.len = f.len /\ asm'.buf = <<>>
  <2>1. CASE complete
    <3>1. asm' = [header |-> <<>>, inPayload |-> ~refused /\ ~empty, len |-> f.len, buf |-> <<>>]
      BY <1>1, <1>11, <2>1
    <3>2. (~refused /\ ~empty) \in BOOLEAN
      OBVIOUS
    <3>3. handled' \in Seq(Seq(Nat))
      BY <1>1, <1>2
    <3>4. QED
      BY <1>1, <1>7, <2>1, <3>1, <3>2, <3>3 DEF Assembler
  <2>2. CASE ~complete
    <3>1. asm' = [asm EXCEPT !.header = h] /\ handled' = handled /\ stream' = "open"
      BY <1>1, <2>2
    <3>2. QED
      BY <1>1, <1>2, <1>8, <2>2, <3>1 DEF Assembler
  <2>3. QED
    BY <2>1, <2>2
<1>13. GrpcTypeOK'
  BY <1>1, <1>4, <1>12 DEF GrpcInv, GrpcTypeOK
<1>14. HandledInv'
  <2>1. CASE ~complete
    <3>1. /\ asm'.header = h /\ ~asm'.inPayload /\ handled' = handled /\ stream' = "open"
      BY <1>1, <1>12, <2>1
    <3>2. Len(h) < HeaderSize /\ eaten + 1 = WireEnd(plan, n) + Len(h) /\ WireEnd(plan, n) <= eaten + 1
      BY <1>9, <1>10, <2>1
    <3>3. BeginsWith(plan, n + 1, 0, h)
      BY <1>8 DEF BeginsWith
    <3>4. Inside(plan, n, asm', eaten + 1)
      BY <1>5, <3>1, <3>2, <3>3 DEF Inside
    <3>5. Whole(plan, handled, eaten + 1)
      BY <1>3, <3>2 DEF Whole, n
    <3>6. QED
      BY <1>1, <3>1, <3>4, <3>5 DEF HandledInv, n
  <2>2. CASE refused
    <3>1. handled' = handled /\ stream' = "refused" /\ WireEnd(plan, n) <= eaten + 1
      BY <1>1, <1>2, <1>3, <1>7, <2>2
    <3>2. ~Accepted(f)
      BY <1>7, <1>11, <2>2, StreamAssumption DEF Accepted
    <3>3. Whole(plan, handled, eaten + 1)
      BY <1>3, <3>1 DEF Whole, n
    <3>4. QED
      BY <1>1, <1>5, <3>1, <3>2, <3>3 DEF HandledInv, n
  <2>3. CASE complete /\ ~refused
    <3>1. /\ Accepted(f) /\ Len(e) = HeaderSize + f.len
          /\ eaten + 1 = WireEnd(plan, n) + HeaderSize
      <4>1. Accepted(f)
        BY <1>7, <1>11, <2>3, StreamAssumption DEF Accepted
      <4>2. d = 4 /\ eaten + 1 = WireEnd(plan, n) + (d + 1)
        BY <1>9, <1>10, <2>3
      <4>3. QED
        BY <1>7, <4>1, <4>2 DEF HeaderSize
    <3>2. CASE empty
      <4>1. /\ handled' = Append(handled, <<>>) /\ stream' = "open"
            /\ ~asm'.inPayload /\ asm'.header = <<>>
        BY <1>1, <1>12, <2>3, <3>2
      <4>2. f.len = 0 /\ eaten + 1 = WireEnd(plan, n + 1)
        BY <1>7, <1>11, <3>1, <3>2 DEF HeaderSize
      <4>3. Body(n + 1, f.len) = <<>>
        BY <4>2 DEF Body
      <4>4. /\ Len(handled') = n + 1 /\ handled'[n + 1] = <<>>
            /\ \A i \in 1..n : handled'[i] = handled[i]
        BY <1>2, <4>1 DEF n
      <4>5. \A i \in 1..(n + 1) : Accepted(plan[i]) /\ handled'[i] = Body(i, plan[i].len)
        <5>1. SUFFICES ASSUME NEW i \in 1..(n + 1)
                       PROVE  Accepted(plan[i]) /\ handled'[i] = Body(i, plan[i].len)
          OBVIOUS
        <5>2. CASE i = n + 1
          BY <3>1, <4>3, <4>4, <5>2
        <5>3. CASE i # n + 1
          <6>1. i \in 1..n
            BY <1>2, <5>3
          <6>2. QED
            BY <1>3, <4>4, <6>1
        <5>4. QED
          BY <5>2, <5>3
      <4>6. n + 1 <= Len(plan) /\ WireEnd(plan, n + 1) <= eaten + 1
        BY <1>2, <1>5, <4>2
      <4>7. Whole(plan, handled', eaten + 1)
        BY <4>4, <4>5, <4>6 DEF Whole, n
      <4>8. Len(<<>>) = 0 /\ eaten + 1 = WireEnd(plan, n + 1) + 0
        BY <1>2, <4>2
      <4>9. Inside(plan, n + 1, asm', eaten + 1)
        BY <4>1, <4>8 DEF Inside, HeaderSize
      <4>10. QED
        BY <1>1, <4>1, <4>4, <4>7, <4>9 DEF HandledInv, n
    <3>3. CASE ~empty
      <4>1. /\ handled' = handled /\ stream' = "open" /\ asm'.inPayload
            /\ asm'.header = <<>> /\ asm'.len = f.len /\ asm'.buf = <<>>
        BY <1>1, <1>12, <2>3, <3>3
      <4>2. Len(<<>>) = 0 /\ 0 < f.len /\ eaten + 1 = WireEnd(plan, n) + HeaderSize + 0
        <5>1. 0 < f.len
          BY <1>7, <1>11, <2>3, <3>1, <3>3
        <5>2. eaten + 1 = WireEnd(plan, n) + HeaderSize + 0
          BY <1>7, <1>11, <2>3, <3>1 DEF HeaderSize
        <5>3. QED
          BY <5>1, <5>2
      <4>3. BeginsWith(plan, n + 1, HeaderSize, <<>>)
        BY DEF BeginsWith
      <4>4. Inside(plan, n, asm', eaten + 1)
        BY <1>5, <3>1, <4>1, <4>2, <4>3 DEF Inside
      <4>5. WireEnd(plan, n) <= eaten + 1
        BY <1>2, <1>3, <1>7
      <4>6. Whole(plan, handled, eaten + 1)
        BY <1>3, <4>5 DEF Whole, n
      <4>7. QED
        BY <1>1, <4>1, <4>4, <4>6 DEF HandledInv, n
    <3>4. QED
      BY <3>2, <3>3
  <2>4. QED
    BY <2>1, <2>2, <2>3
<1>15. QED
  BY <1>4, <1>13, <1>14 DEF GrpcInv

\* Bytes of a message.
LEMMA PayloadInv ==
  ASSUME GrpcInv, PushPayload
  PROVE  GrpcInv'
<1> DEFINE n == Len(handled)
           f == plan[n + 1]
           e == Enc(plan, n + 1)
           m == Len(asm.buf)
           take == Min({asm.len - m, Len(chunk)})
           s == SubSeq(chunk, 1, take)
           buf == asm.buf \o s
           ready == Len(buf) = asm.len
<1>1. /\ stream = "open" /\ chunk # <<>> /\ asm.inPayload
      /\ asm' = [asm EXCEPT !.buf = buf, !.inPayload = ~ready]
      /\ handled' = IF ready THEN Append(handled, buf) ELSE handled
      /\ chunk' = SubSeq(chunk, take + 1, Len(chunk)) /\ eaten' = eaten + take
      /\ UNCHANGED <<plan, sent, cur, deferred, wire, stream>>
  BY DEF PushPayload
<1>2. /\ plan \in Seq(Frame) /\ sent \in 0..Len(plan) /\ chunk \in Seq(Nat) /\ eaten \in Nat
      /\ asm \in Assembler /\ handled \in Seq(Seq(Nat))
  BY DEF GrpcInv, GrpcTypeOK
<1>3. asm.buf \in Seq(Nat) /\ asm.len \in Nat
  BY <1>2 DEF Assembler
<1>4. m \in Nat
  BY <1>3
<1>5. n \in Nat /\ Len(plan) \in Nat
  <2>1. handled \in Seq(Seq(Nat)) /\ plan \in Seq(Frame)
    BY <1>2
  <2>2. n \in Nat
    BY <2>1
  <2>3. Len(plan) \in Nat
    BY <2>1
  <2>4. QED
    BY <2>2, <2>3
<1>6. Len(chunk) \in Nat /\ Len(chunk) > 0
  BY <1>1, <1>2
<1>7. /\ n < Len(plan) /\ Accepted(f) /\ asm.header = <<>> /\ asm.len = f.len /\ m < asm.len
      /\ eaten = WireEnd(plan, n) + HeaderSize + m
      /\ BeginsWith(plan, n + 1, HeaderSize, asm.buf)
      /\ \A i \in 1..n : Accepted(plan[i]) /\ handled[i] = Body(i, plan[i].len)
  BY <1>1 DEF GrpcInv, HandledInv, Whole, Inside
<1> HIDE DEF n, m
<1>8. take \in Nat /\ take <= asm.len - m /\ take <= Len(chunk) /\ take \in 0..Len(chunk)
  <2>1. asm.len - m \in Int /\ Len(chunk) \in Int
    BY <1>3, <1>4, <1>6
  <2>2. take = IF asm.len - m <= Len(chunk) THEN asm.len - m ELSE Len(chunk)
    BY <2>1, MinPair, Zenon
  <2>3. QED
    BY <1>3, <1>4, <1>6, <1>7, <2>2
<1> HIDE DEF take
<1>9. /\ chunk' \in Seq(Nat) /\ eaten' \in Nat /\ WireInv'
      /\ s \in Seq(Nat) /\ Len(s) = take /\ BytesAt(plan, sent, s, eaten)
  BY <1>1, <1>8, Consumed
<1> HIDE DEF s
<1>10. n + 1 \in 1..Len(plan) /\ (n + 1) - 1 = n /\ n \in 0..Len(plan)
  BY <1>5, <1>7
<1>11. /\ f.len \in Nat /\ Len(e) = HeaderSize + f.len
       /\ \A q \in 1..f.len : e[HeaderSize + q] = Body(n + 1, f.len)[q]
  BY <1>2, <1>7, <1>10, EncodedIs
<1>12. WireEnd(plan, n) \in Nat /\ WireEnd(plan, n + 1) = WireEnd(plan, n) + Len(e)
  <2>1. WireEnd(plan, n + 1) = WireEnd(plan, (n + 1) - 1) + Len(Enc(plan, n + 1))
    BY <1>2, <1>10, EndsAre
  <2>2. WireEnd(plan, n) \in Nat
    BY <1>2, <1>10, EndsAre
  <2>3. QED
    BY <1>10, <2>1, <2>2
<1>13. /\ m \in Nat /\ take \in Nat /\ f.len \in Nat /\ take <= f.len - m
       /\ WireEnd(plan, n) \in Nat /\ eaten = WireEnd(plan, n) + 5 + m
       /\ Len(e) = 5 + f.len /\ WireEnd(plan, n + 1) = WireEnd(plan, n) + (5 + f.len)
  <2>1. /\ eaten = WireEnd(plan, n) + 5 + m /\ Len(e) = 5 + f.len /\ take <= f.len - m
    BY <1>7, <1>8, <1>11 DEF HeaderSize
  <2>2. QED
    BY <1>4, <1>8, <1>11, <1>12, <2>1
<1>14. PICK W \in Nat, M \in Nat, K \in Nat, N \in Nat :
          W = WireEnd(plan, n) /\ M = m /\ K = take /\ N = f.len
  BY <1>13
<1>15. /\ K <= N - M /\ eaten = W + 5 + M /\ Len(e) = 5 + N /\ WireEnd(plan, n + 1) = W + (5 + N)
  BY <1>13, <1>14
<1>16. ASSUME NEW j \in 1..take
       PROVE  s[j] = e[HeaderSize + (m + j)]
  <2> DEFINE d == 4 + (m + j)
  <2>1. /\ d \in Nat /\ d < Len(e) /\ d + 1 = HeaderSize + (m + j)
        /\ eaten + j = WireEnd(plan, n) + (d + 1)
    <3>1. j \in Nat /\ j <= K
      BY <1>14
    <3>2. d = 4 + (M + j)
      BY <1>14
    <3>3. d \in Nat /\ d < 5 + N /\ d + 1 = HeaderSize + (M + j) /\ eaten + j = W + (d + 1)
      BY <1>15, <3>1, <3>2 DEF HeaderSize
    <3>4. QED
      BY <1>14, <1>15, <3>3
  <2>2. ByteAt(plan, sent, eaten + j, s[j])
    BY <1>9 DEF BytesAt
  <2>3. ByteAt(plan, sent, WireEnd(plan, n) + (d + 1), s[j])
    BY <2>1, <2>2
  <2> HIDE DEF d
  <2>4. s[j] = e[d + 1]
    BY <1>2, <1>10, <2>1, <2>3, Located
  <2>5. QED
    BY <2>1, <2>4
<1>17. /\ buf \in Seq(Nat) /\ Len(buf) = m + take
       /\ \A q \in 1..(m + take) : buf[q] = e[HeaderSize + q]
  <2>1. /\ buf \in Seq(Nat) /\ Len(buf) = m + Len(s)
        /\ \A j \in 1..m : buf[j] = asm.buf[j]
        /\ \A j \in 1..Len(s) : buf[m + j] = s[j]
    BY <1>3, <1>9, ConcatIs, Zenon DEF m
  <2>2. ASSUME NEW q \in 1..(m + take)
        PROVE  buf[q] = e[HeaderSize + q]
    <3>1. CASE q <= m
      <4>1. q \in 1..m
        BY <1>4, <3>1
      <4>2. QED
        BY <1>7, <2>1, <4>1 DEF BeginsWith, m
    <3>2. CASE q > m
      <4>1. PICK j \in 1..take : q = m + j
        <5>1. q - m \in 1..take /\ q = m + (q - m)
          BY <1>4, <1>8, <3>2
        <5>2. QED
          BY <5>1
      <4>2. buf[m + j] = s[j]
        BY <1>9, <2>1
      <4>3. QED
        BY <1>16, <4>1, <4>2
    <3>3. QED
      <4>1. q \in Nat /\ m \in Nat
        BY <1>4, <1>8
      <4>2. q <= m \/ q > m
        BY <4>1
      <4>3. QED
        BY <3>1, <3>2, <4>2
  <2>3. QED
    BY <1>9, <2>1, <2>2
<1> HIDE DEF buf
<1>18. /\ asm' \in Assembler /\ asm'.inPayload = ~ready /\ asm'.buf = buf
       /\ asm'.header = <<>> /\ asm'.len = asm.len
  <2>1. ready \in BOOLEAN
    OBVIOUS
  <2>2. QED
    BY <1>1, <1>2, <1>7, <1>17, <2>1 DEF Assembler
<1>19. handled' \in Seq(Seq(Nat))
  BY <1>1, <1>2, <1>17
<1>20. GrpcTypeOK'
  BY <1>1, <1>9, <1>18, <1>19 DEF GrpcInv, GrpcTypeOK
<1>21. eaten + take = WireEnd(plan, n) + HeaderSize + Len(buf) /\ WireEnd(plan, n) <= eaten + take
  <2>1. Len(buf) = m + take
    BY <1>17
  <2>2. eaten + K = W + HeaderSize + (M + K) /\ W <= eaten + K
    BY <1>15 DEF HeaderSize
  <2>3. QED
    BY <1>14, <2>1, <2>2
<1>22. HandledInv'
  <2>1. CASE ready
    <3>1. handled' = Append(handled, buf) /\ stream' = "open" /\ ~asm'.inPayload /\ asm'.header = <<>>
      BY <1>1, <1>18, <2>1
    <3>2. Len(buf) = f.len
      BY <1>7, <2>1
    <3>3. buf = Body(n + 1, f.len)
      <4>1. \A q \in 1..f.len : buf[q] = Body(n + 1, f.len)[q]
        BY <1>11, <1>17, <3>2
      <4>2. Body(n + 1, f.len) = [k \in 1..f.len |-> Body(n + 1, f.len)[k]]
        BY DEF Body
      <4>3. buf = [k \in 1..f.len |-> buf[k]]
        BY <1>17, <3>2
      <4>4. QED
        BY <4>1, <4>2, <4>3
    <3>4. /\ Len(handled') = n + 1 /\ handled'[n + 1] = buf
          /\ \A i \in 1..n : handled'[i] = handled[i]
      BY <1>2, <1>17, <3>1 DEF n
    <3>5. \A i \in 1..(n + 1) : Accepted(plan[i]) /\ handled'[i] = Body(i, plan[i].len)
      <4>1. SUFFICES ASSUME NEW i \in 1..(n + 1)
                     PROVE  Accepted(plan[i]) /\ handled'[i] = Body(i, plan[i].len)
        OBVIOUS
      <4>2. CASE i = n + 1
        BY <1>7, <3>3, <3>4, <4>2
      <4>3. CASE i # n + 1
        <5>1. i \in 1..n
          BY <1>5, <4>3
        <5>2. QED
          BY <1>7, <3>4, <5>1
      <4>4. QED
        BY <4>2, <4>3
    <3>6. eaten + take = WireEnd(plan, n + 1)
      <4>1. eaten + take = W + HeaderSize + N
        BY <1>14, <1>21, <3>2
      <4>2. W + HeaderSize + N = W + (5 + N)
        BY DEF HeaderSize
      <4>3. QED
        BY <1>15, <4>1, <4>2, Zenon
    <3>7. n + 1 <= Len(plan) /\ WireEnd(plan, n + 1) <= eaten + take
      <4>1. n + 1 <= Len(plan)
        BY <1>5, <1>7
      <4>2. eaten + take \in Nat
        BY <1>2, <1>8
      <4>3. QED
        BY <3>6, <4>1, <4>2
    <3>8. Whole(plan, handled', eaten + take)
      BY <3>4, <3>5, <3>7 DEF Whole
    <3>9. Len(<<>>) = 0 /\ eaten + take = WireEnd(plan, n + 1) + 0
      BY <1>1, <1>9, <3>6
    <3>10. Inside(plan, n + 1, asm', eaten + take)
      BY <3>1, <3>9 DEF Inside, HeaderSize
    <3>11. QED
      BY <1>1, <3>1, <3>4, <3>8, <3>10 DEF HandledInv
  <2>2. CASE ~ready
    <3>1. handled' = handled /\ stream' = "open" /\ asm'.inPayload
      BY <1>1, <1>18, <2>2
    <3>2. Len(buf) < asm.len
      <4>1. Len(buf) = m + take /\ asm.len = f.len /\ Len(buf) # asm.len
        BY <1>7, <1>17, <2>2
      <4>2. Len(buf) = M + K /\ asm.len = N /\ M + K # N
        BY <1>14, <4>1
      <4>3. M + K < N
        BY <1>15, <4>2
      <4>4. QED
        BY <4>2, <4>3
    <3>3. BeginsWith(plan, n + 1, HeaderSize, buf)
      BY <1>17 DEF BeginsWith
    <3>4. Inside(plan, n, asm', eaten + take)
      BY <1>7, <1>18, <1>21, <3>1, <3>2, <3>3 DEF Inside
    <3>5. Whole(plan, handled, eaten + take)
      BY <1>5, <1>7, <1>21 DEF Whole, n
    <3>6. QED
      BY <1>1, <3>1, <3>4, <3>5 DEF HandledInv, n
  <2>3. QED
    BY <2>1, <2>2
<1>23. QED
  BY <1>9, <1>20, <1>22 DEF GrpcInv

\* The stream closes.
LEMMA CloseInv ==
  ASSUME GrpcInv, StreamCloses
  PROVE  GrpcInv'
<1>1. stream' = "ended" /\ stream = "open"
      /\ UNCHANGED <<plan, sent, cur, deferred, wire, chunk, asm, eaten, handled>>
  BY DEF StreamCloses
<1>2. GrpcTypeOK' /\ WireInv'
  BY <1>1 DEF GrpcInv, GrpcTypeOK, WireInv
<1>3. HandledInv'
  BY <1>1 DEF GrpcInv, HandledInv
<1>4. QED
  BY <1>2, <1>3 DEF GrpcInv

\* Nothing is sent yet.
Fresh ==
  /\ plan \in Seq(Frame) /\ sent = 0 /\ cur = <<>> /\ deferred = TRUE
  /\ wire = <<>> /\ chunk = <<>>
  /\ asm = [header |-> <<>>, inPayload |-> FALSE, len |-> 0, buf |-> <<>>]
  /\ eaten = 0 /\ handled = <<>> /\ stream \in {"open", "ended"}

\* A session begins with nothing handled.
LEMMA FreshInv == Fresh => GrpcInv
<1> SUFFICES ASSUME Fresh PROVE GrpcInv
  OBVIOUS
<1>1. Len(<<>>) = 0 /\ <<>> \in Seq(Nat) /\ <<>> \in Seq(Seq(Nat))
  OBVIOUS
<1>2. plan \in Seq(Frame) /\ Len(plan) \in Nat /\ WireEnd(plan, 0) = 0
  BY EndsAre DEF Fresh
<1>3. GrpcTypeOK
  BY <1>1, <1>2 DEF Fresh, GrpcTypeOK, Assembler
<1>4. WireInv
  BY <1>1, <1>2 DEF Fresh, WireInv, BytesAt
<1>5. HandledInv
  <2>1. Whole(plan, <<>>, 0)
    BY <1>1, <1>2 DEF Whole
  <2>2. Inside(plan, 0, asm, 0)
    BY <1>1, <1>2 DEF Fresh, Inside, HeaderSize
  <2>3. QED
    BY <1>1, <2>1, <2>2 DEF Fresh, HandledInv
<1>6. QED
  BY <1>3, <1>4, <1>5 DEF GrpcInv

\* So GrpcInv is inductive.
THEOREM GrpcInvariant == GrpcSpec => []GrpcInv
<1>1. GrpcInit => GrpcInv
  <2>1. GrpcInit => Fresh
    BY DEF GrpcInit, Fresh
  <2>2. QED
    BY <2>1, FreshInv
<1>2. GrpcInv /\ [GrpcNext]_grpcVars => GrpcInv'
  <2>1. SUFFICES ASSUME GrpcInv, [GrpcNext]_grpcVars PROVE GrpcInv'
    OBVIOUS
  <2>2. CASE SessionBegins
    <3>1. plan' \in Seq(Frame)
      BY <2>2 DEF SessionBegins, SeqOf
    <3>2. Fresh'
      BY <2>2, <3>1 DEF SessionBegins, Fresh
    <3>3. QED
      BY <3>2, FreshInv, PTL
  <2>3. CASE UNCHANGED grpcVars
    BY <2>1, <2>3 DEF grpcVars, GrpcInv, GrpcTypeOK, WireInv, HandledInv
  <2>4. QED
    BY <2>1, <2>2, <2>3, TakeInv, ReadInv, ChunkInv, HeaderInv, PayloadInv, CloseInv DEF GrpcNext
<1>3. QED
  BY <1>1, <1>2, PTL DEF GrpcSpec

\* Frames end where the reference says, up to the first one that is refused.
LEMMA EndsOf ==
  ASSUME plan \in Seq(Frame)
  PROVE  /\ \A k \in 0..Len(plan) : EndOf(k) \in Nat
         /\ \A k \in 1..Len(plan) : EndOf(k) = EndOf(k - 1) + (5 + plan[k].len)
         /\ \A k \in 0..Len(plan) : \A l \in k..Len(plan) : EndOf(k) <= EndOf(l)
         /\ \A k \in 0..Len(plan) : (\A i \in 1..k : Accepted(plan[i])) => EndOf(k) = WireEnd(plan, k)
<1> DEFINE v == [i \in 1..Len(plan) |-> HeaderSize + plan[i].len]
           w == [i \in 1..Len(plan) |-> Len(Enc(plan, i))]
<1>1. Len(plan) \in Nat
  OBVIOUS
<1>2. /\ v \in Seq(Nat) /\ Len(v) = Len(plan) /\ \A i \in 1..Len(plan) : v[i] = 5 + plan[i].len
  <2>1. \A i \in 1..Len(plan) : plan[i].len \in Nat
    BY EncodedIs
  <2>2. \A i \in 1..Len(plan) : HeaderSize + plan[i].len \in Nat /\ HeaderSize = 5
    BY <2>1 DEF HeaderSize
  <2>3. QED
    BY <1>1, <2>2
<1>3. w \in Seq(Nat) /\ Len(w) = Len(plan) /\ \A i \in 1..Len(plan) : w[i] = Len(Enc(plan, i))
  <2>1. \A i \in 1..Len(plan) : Len(Enc(plan, i)) \in Nat
    BY EncodedIs
  <2>2. QED
    BY <1>1, <2>1
<1>4. \A k : EndOf(k) = Totals(v)[k] /\ WireEnd(plan, k) = Totals(w)[k]
  BY DEF EndOf, WireEnd
<1> HIDE DEF v, w
<1>5. SumsUp(v, Len(plan), Totals(v)) /\ SumsUp(w, Len(plan), Totals(w))
  BY <1>2, <1>3, TotalsSum
<1>6. ASSUME NEW k \in 0..Len(plan), NEW l \in k..Len(plan)
      PROVE  Totals(v)[k] <= Totals(v)[l]
  BY <1>1, <1>2, <1>5, SumsGrow
<1>7. ASSUME NEW k \in 0..Len(plan), \A i \in 1..k : Accepted(plan[i])
      PROVE  Totals(v)[k] = Totals(w)[k]
  <2>1. ASSUME NEW i \in 1..k
        PROVE  v[i] = w[i]
    <3>1. i \in 1..Len(plan)
      BY <1>1
    <3>2. Len(Enc(plan, i)) = HeaderSize + plan[i].len
      BY <1>7, <3>1, EncodedIs
    <3>3. QED
      BY <1>2, <1>3, <3>1, <3>2 DEF HeaderSize
  <2>2. QED
    BY <1>1, <1>5, <2>1, SumsAgree
<1>8. /\ \A k \in 0..Len(plan) : EndOf(k) \in Nat
      /\ \A k \in 1..Len(plan) : EndOf(k) = EndOf(k - 1) + (5 + plan[k].len)
  BY <1>1, <1>2, <1>4, <1>5 DEF SumsUp
<1>9. QED
  BY <1>4, <1>6, <1>7, <1>8

\* What has been handled is what has arrived.
LEMMA HandledArrived ==
  ASSUME GrpcInv
  PROVE  handled = Arrived
<1> DEFINE n == Len(handled)
           whole == {k \in 0..Len(plan) : /\ \A i \in 1..k : Accepted(plan[i])
                                          /\ EndOf(k) <= eaten}
<1>1. plan \in Seq(Frame) /\ Len(plan) \in Nat /\ eaten \in Nat /\ handled \in Seq(Seq(Nat)) /\ asm \in Assembler
  BY DEF GrpcInv, GrpcTypeOK
<1>2. n \in Nat /\ handled = [i \in 1..n |-> handled[i]]
  BY <1>1
<1>3. /\ n <= Len(plan) /\ WireEnd(plan, n) <= eaten
      /\ \A i \in 1..n : Accepted(plan[i]) /\ handled[i] = Body(i, plan[i].len)
  BY DEF GrpcInv, HandledInv, Whole
<1>4. n \in 0..Len(plan)
  BY <1>1, <1>2, <1>3
<1>5. EndOf(n) = WireEnd(plan, n) /\ EndOf(n) \in Nat
  BY <1>1, <1>3, <1>4, EndsOf
<1>6. n \in whole
  BY <1>3, <1>4, <1>5
<1>7. ASSUME NEW k \in whole
      PROVE  k <= n
  <2>1. SUFFICES ASSUME k > n PROVE FALSE
    BY <1>1, <1>2
  <2>2. k \in 0..Len(plan) /\ EndOf(k) <= eaten /\ \A i \in 1..k : Accepted(plan[i])
    OBVIOUS
  <2>3. n + 1 \in 1..k /\ n + 1 \in 1..Len(plan) /\ n + 1 \in 0..Len(plan) /\ k \in (n + 1)..Len(plan) /\ (n + 1) - 1 = n
    BY <1>1, <1>2, <2>1, <2>2
  <2>4. Accepted(plan[n + 1])
    BY <2>2, <2>3
  <2>5. Inside(plan, n, asm, eaten)
    BY <2>4 DEF GrpcInv, HandledInv
  <2>6. plan[n + 1].len \in Nat
    BY <1>1, <2>3, EncodedIs
  <2>7. /\ EndOf(n + 1) = EndOf((n + 1) - 1) + (5 + plan[n + 1].len)
        /\ EndOf(n + 1) <= EndOf(k) /\ EndOf(k) \in Nat /\ EndOf(n + 1) \in Nat
    BY <1>1, <2>2, <2>3, EndsOf
  <2>8. EndOf(n) + (5 + plan[n + 1].len) <= eaten
    BY <1>1, <2>2, <2>3, <2>7
  <2>9. CASE asm.inPayload
    <3>1. asm.len = plan[n + 1].len /\ Len(asm.buf) < asm.len /\ eaten = WireEnd(plan, n) + HeaderSize + Len(asm.buf)
      BY <2>5, <2>9 DEF Inside
    <3>2. Len(asm.buf) \in Nat
      <4>1. asm.buf \in Seq(Nat)
        BY <1>1 DEF Assembler
      <4>2. QED
        BY <4>1
    <3>3. PICK W \in Nat, L \in Nat, B \in Nat :
            W = WireEnd(plan, n) /\ L = plan[n + 1].len /\ B = Len(asm.buf)
      BY <1>5, <2>6, <3>2
    <3>4. W + (5 + L) <= eaten /\ B < L /\ eaten = W + 5 + B
      BY <1>5, <2>8, <3>1, <3>3 DEF HeaderSize
    <3>5. QED
      BY <1>1, <3>4
  <2>10. CASE ~asm.inPayload
    <3>1. Len(asm.header) < HeaderSize /\ eaten = WireEnd(plan, n) + Len(asm.header)
      BY <2>5, <2>10 DEF Inside
    <3>2. Len(asm.header) \in Nat
      <4>1. asm.header \in Seq(Nat)
        BY <1>1 DEF Assembler
      <4>2. QED
        BY <4>1
    <3>3. PICK W \in Nat, L \in Nat, B \in Nat :
            W = WireEnd(plan, n) /\ L = plan[n + 1].len /\ B = Len(asm.header)
      BY <1>5, <2>6, <3>2
    <3>4. W + (5 + L) <= eaten /\ B < 5 /\ eaten = W + B
      BY <1>5, <2>8, <3>1, <3>3 DEF HeaderSize
    <3>5. QED
      BY <1>1, <3>4
  <2>11. QED
    BY <2>9, <2>10
<1>8. whole \subseteq Nat
  BY <1>1
<1>9. Arrived = [i \in 1..Max(whole) |-> Body(i, plan[i].len)]
  BY DEF Arrived
<1> HIDE DEF whole
<1>10. Max(whole) = n
  <2>1. \A y \in whole : n >= y
    BY <1>2, <1>7, <1>8
  <2>2. \A x \in whole : (\A y \in whole : x >= y) => x = n
    BY <1>2, <1>6, <1>7, <1>8
  <2> HIDE DEF n
  <2>3. QED
    BY <1>6, <2>1, <2>2 DEF Max
<1>11. QED
  BY <1>2, <1>3, <1>9, <1>10

\* However the bytes are cut, exactly the messages that were sent are handled, in order
\* and whole, whatever their lengths and the assembler's buffer; only a frame that must be
\* refused ends the session; and a frame in flight is never left behind a deferred stream
\* (make_frame_header, push, cb_data_read).
THEOREM StreamCorrect == GrpcSpec => []StreamIsExact
<1>1. GrpcInv => StreamIsExact
  <2>1. SUFFICES ASSUME GrpcInv PROVE StreamIsExact
    OBVIOUS
  <2>2. handled = Arrived
    BY <2>1, HandledArrived
  <2>3. stream = "refused" => ~Accepted(plan[Len(handled) + 1])
    BY <2>1 DEF GrpcInv, HandledInv
  <2>4. cur # <<>> => ~deferred
    BY <2>1 DEF GrpcInv, WireInv
  <2>5. QED
    BY <2>2, <2>3, <2>4 DEF StreamIsExact
<1>2. QED
  BY <1>1, GrpcInvariant, PTL

=============================================================================
