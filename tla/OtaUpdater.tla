----------------------------- MODULE OtaUpdater -----------------------------
(***************************************************************************)
(* The firmware's updater (firmware/components/gate_ota) and the boot it   *)
(* leads to: app_main's start-up up to the call that marks a new image     *)
(* valid, and ESP-IDF's bootloader with rollback, which is external.       *)
(*                                                                         *)
(* A slot's content is the sequence of blocks written since it was erased; *)
(* a digest is the content it was taken of and a signature the digest it   *)
(* signs.  The manifest and the image are two requests, and the update     *)
(* server may publish something else between them.  Power may fail at any  *)
(* step.  The updater's acks are in ControlClient, its LED in StatusLed.   *)
(***************************************************************************)
EXTENDS Naturals, Sequences

CONSTANTS
  Release,     \* firmware releases
  Shipped,     \* the release flashed over the cable
  Signed,      \* releases the site has signed
  Crashing,    \* releases that crash before app_main is through
  ImageLen,    \* blocks in an image
  SlotLen,     \* blocks in a partition
  OtaCommands, \* bound: BEGIN_OTA and REBOOT commands
  PowerCuts    \* bound: power failures

ASSUME OtaAssumption ==
  /\ Shipped \in Signed /\ Signed \subseteq Release
  /\ Crashing \subseteq Release \ {Shipped}
  /\ ImageLen \in Nat \ {0} /\ SlotLen \in Nat /\ ImageLen < SlotLen
  /\ OtaCommands \in Nat /\ PowerCuts \in Nat

VARIABLES
  key,      \* GATE_OTA_PUBKEY: "none", "malformed" or "site"
  flash,    \* content of each slot
  otadata,  \* [boot, state]: the boot slot and each slot's image state
  dev,      \* [at, slot, aged]: where app_main is, on which slot, uptime gate passed
  upd,      \* [at, m, src]: the gate_ota task
  timer,    \* reboot_timer armed
  left,     \* [commands, cuts]: what the bounds leave
  rewritten \* history: slots erased while they were staged, and not verified since

otaVars == <<key, flash, otadata, dev, upd, timer, left, rewritten>>

Slot == {"ota_0", "ota_1"}
Other(s) == CHOOSE t \in Slot : t # s

Image(r) == [i \in 1..ImageLen |-> <<r, i>>]
Corrupt == <<"corrupt", 0>>
Erased == <<"erased", 0>>

Starts(s, t) == Len(s) <= Len(t) /\ SubSeq(t, 1, Len(s)) = s

\* What the bootloader and esp_https_ota_finish() accept: a whole image.
WellFormed(c) == \E r \in Release : Starts(Image(r), c)

ReleaseIn(c) == CHOOSE r \in Release : Starts(Image(r), c)

-----------------------------------------------------------------------------
(* The manifest.                                                           *)

\* A field in hex and whether its text has the right digits, and as many.
Hex(v) == [val |-> v, digits |-> "ok"]

Manifest(r) ==
  [version |-> <<r>>, http |-> TRUE, size |-> ImageLen, sha |-> Hex(Image(r)),
   sig |-> Hex(IF r \in Signed THEN Image(r) ELSE <<>>), gated |-> FALSE]

\* Manifests as they are published, and each with one field gone wrong.
Published ==
  UNION { LET m == Manifest(r)
          IN {m, [m EXCEPT !.version = <<>>], [m EXCEPT !.http = FALSE],
              [m EXCEPT !.gated = TRUE]}
             \cup {[m EXCEPT !.size = n] : n \in {0, ImageLen - 1, ImageLen + 1, SlotLen + 1}}
             \cup {[m EXCEPT !.sha.digits = d] : d \in {"short", "long", "not hex"}}
             \cup {[m EXCEPT !.sig.digits = "short"]}
          : r \in Release }

\* What may be served under the image's URL: a release, perhaps with a tail.
Served == {Image(r) : r \in Release} \cup {Append(Image(r), Corrupt) : r \in Release}

\* hex_decode(): nothing but hex, neither too short nor followed by anything.
HexDecode(t) == t.digits = "ok"

\* validate(), its rules in order; every one refuses the update.
Validate(m, running, capacity, aged) ==
  /\ m.version # <<>> /\ m.version # <<running>>
  /\ m.http
  /\ m.size # 0 /\ m.size <= capacity
  /\ HexDecode(m.sha) /\ HexDecode(m.sig)
  /\ m.gated => aged

-----------------------------------------------------------------------------
(* The gate_ota task.                                                      *)

NoUpdate == [at |-> "idle", m |-> Manifest(Shipped), src |-> <<>>]

Passive == Other(dev.slot)

To(at) == upd' = [upd EXCEPT !.at = at]

\* BEGIN_OTA: begin() takes running_ and creates the task.  The stream is up
\* before app_main has marked the image, and still is while the reboot timer of an
\* earlier update runs.
OtaBegin ==
  /\ dev.at \in {"mark", "up"} /\ upd.at = "idle" /\ left.commands > 0
  /\ upd' = [NoUpdate EXCEPT !.at = "manifest"]
  /\ left' = [left EXCEPT !.commands = @ - 1]
  /\ UNCHANGED <<key, flash, otadata, dev, timer, rewritten>>

\* fetch_json(), parse_manifest(), validate().
OtaManifest ==
  /\ upd.at = "manifest"
  /\ \/ To("failed")
     \/ \E m \in Published :
          upd' = IF Validate(m, ReleaseIn(flash[dev.slot]), SlotLen, dev.aged)
                 THEN [upd EXCEPT !.at = "open", !.m = m] ELSE [upd EXCEPT !.at = "failed"]
  /\ UNCHANGED <<key, flash, otadata, dev, timer, left, rewritten>>

\* esp_https_ota_begin() connects, refuses while the running image is not yet
\* verified, and erases the passive slot, which an update that waits for its
\* reboot may have staged.
OtaOpen ==
  /\ upd.at = "open"
  /\ \/ To("failed") /\ UNCHANGED <<flash, rewritten>>
     \/ /\ otadata.state[dev.slot] # "pending"
        /\ \E c \in Served : upd' = [upd EXCEPT !.at = "write", !.src = c]
        /\ flash' = [flash EXCEPT ![Passive] = <<>>]
        /\ rewritten' = IF otadata.boot = Passive THEN rewritten \cup {Passive}
                        ELSE rewritten \ {Passive}
  /\ UNCHANGED <<key, otadata, dev, timer, left>>

\* esp_https_ota_perform(): another block reaches the slot, perhaps not as it was
\* sent; or the transfer breaks and the update is aborted.
OtaPerform ==
  LET n == Len(flash[Passive])
      last == n + 1 = Len(upd.src)
  IN /\ upd.at = "write"
     /\ \/ To("failed") /\ UNCHANGED flash
        \/ /\ n < SlotLen
           /\ \E b \in {upd.src[n + 1], Corrupt} : flash' = [flash EXCEPT ![Passive] = Append(@, b)]
           /\ To(IF last THEN "verify" ELSE "write")
     /\ UNCHANGED <<key, otadata, dev, timer, left, rewritten>>

\* readback_sha256(): the first n blocks of the partition, written or not.
Readback(c, n) == [i \in 1..n |-> IF i <= Len(c) THEN c[i] ELSE Erased]

\* The signature over the digest, when a key is provisioned.
SignatureAccepted(digest, sig) ==
  \/ key = "none"
  \/ key = "site" /\ sig = digest /\ \E r \in Signed : sig = Image(r)

\* Broken variant: the manifest's own digest is checked, not that of the slot.
VerifiedManifest(m, c) == SignatureAccepted(m.sha.val, m.sig.val)

\* The checks between the download and the boot slot.
Verified(m, c) ==
  LET digest == Readback(c, m.size) IN digest = m.sha.val /\ SignatureAccepted(digest, m.sig.val)

OtaVerify ==
  /\ upd.at = "verify"
  /\ \/ Verified(upd.m, flash[Passive]) /\ To("finish") /\ rewritten' = rewritten \ {Passive}
     \/ To("failed") /\ UNCHANGED rewritten
  /\ UNCHANGED <<key, flash, otadata, dev, timer, left>>

\* esp_https_ota_finish(): a whole image becomes the boot slot, not yet verified.
OtaFinishes ==
  /\ upd.at = "finish"
  /\ IF WellFormed(flash[Passive])
     THEN /\ otadata' = [boot |-> Passive, state |-> [otadata.state EXCEPT ![Passive] = "new"]]
          /\ To("staged")
     ELSE To("failed") /\ UNCHANGED otadata
  /\ UNCHANGED <<key, flash, dev, timer, left, rewritten>>

Off == [at |-> "off", slot |-> dev.slot, aged |-> FALSE]

\* Everything in RAM goes; flash and otadata stay.
Reset ==
  /\ dev' = Off /\ upd' = NoUpdate /\ timer' = FALSE
  /\ UNCHANGED <<key, flash, otadata, rewritten>>

\* The done callback: the reboot timer after a success, and running_ is free.  A
\* timer that is armed already trips ESP_ERROR_CHECK.
OtaReturns ==
  /\ upd.at \in {"staged", "failed"}
  /\ IF upd.at = "staged" /\ timer THEN Reset
     ELSE /\ timer' = (timer \/ upd.at = "staged") /\ upd' = NoUpdate
          /\ UNCHANGED <<key, flash, otadata, dev, rewritten>>
  /\ UNCHANGED left

-----------------------------------------------------------------------------
(* Boot.                                                                   *)

\* The bootloader (ESP-IDF, rollback enabled): an image that was not marked valid
\* on its first boot is given up, and a slot without a whole image is passed over.
Chosen(f, o) ==
  IF o.state[o.boot] \in {"new", "valid"} /\ WellFormed(f[o.boot]) THEN o.boot
  ELSE Other(o.boot)

Bootloader ==
  LET s == Chosen(flash, otadata)
  IN /\ dev.at = "off"
     /\ otadata' = IF s = otadata.boot
                   THEN [otadata EXCEPT !.state[s] = IF @ = "new" THEN "pending" ELSE @]
                   ELSE [boot |-> s, state |-> [otadata.state EXCEPT ![s] = "valid",
                                                                     ![Other(s)] = "aborted"]]
     /\ dev' = [at |-> IF WellFormed(flash[s]) THEN "controller" ELSE "dead",
                slot |-> s, aged |-> FALSE]
     /\ UNCHANGED <<key, flash, upd, timer, left, rewritten>>

Crashes == ReleaseIn(flash[dev.slot]) \in Crashing

\* app_main: the controller, Ethernet (which may fail: the gate runs offline), the
\* RPC client.  Every other failure is an ESP_ERROR_CHECK, hence a reset.
AppMain ==
  /\ dev.at \in {"controller", "ethernet", "rpc"}
  /\ dev' = [dev EXCEPT !.at = CASE @ = "controller" -> "ethernet"
                                 [] @ = "ethernet" -> "rpc"
                                 [] @ = "rpc" -> "mark"]
  /\ UNCHANGED <<key, flash, otadata, upd, timer, left, rewritten>>

AppCrash ==
  /\ dev.at \in {"controller", "ethernet", "rpc", "mark"} /\ Crashes
  /\ Reset
  /\ UNCHANGED left

\* Broken variant: the image vouches for itself as soon as the controller runs.
MarkDueEarly == dev.at = "ethernet" \/ (dev.at = "mark" /\ ~Crashes)

\* The rollback handshake is the last thing app_main does.
MarkDue == dev.at = "mark" /\ ~Crashes

MarkValid ==
  /\ MarkDue
  /\ dev' = [dev EXCEPT !.at = IF @ = "mark" THEN "up" ELSE "rpc"]
  /\ otadata' = [otadata EXCEPT !.state[dev.slot] = IF @ = "pending" THEN "valid" ELSE @]
  /\ UNCHANGED <<key, flash, upd, timer, left, rewritten>>

\* The uptime gate of a manifest has passed.
Ages ==
  /\ dev.at = "up" /\ ~dev.aged
  /\ dev' = [dev EXCEPT !.aged = TRUE]
  /\ UNCHANGED <<key, flash, otadata, upd, timer, left, rewritten>>

RebootCommand ==
  /\ dev.at \in {"mark", "up"} /\ left.commands > 0
  /\ left' = [left EXCEPT !.commands = @ - 1]
  /\ IF timer THEN Reset
     ELSE timer' = TRUE /\ UNCHANGED <<key, flash, otadata, dev, upd, rewritten>>

RebootTimer == dev.at \in {"mark", "up"} /\ timer /\ Reset /\ UNCHANGED left

PowerCut ==
  /\ dev.at # "off" /\ left.cuts > 0
  /\ left' = [left EXCEPT !.cuts = @ - 1]
  /\ Reset

OtaInit ==
  /\ key \in {"none", "malformed", "site"}
  /\ flash = [s \in Slot |-> IF s = "ota_0" THEN Image(Shipped) ELSE <<>>]
  /\ otadata = [boot |-> "ota_0", state |-> [s \in Slot |-> "valid"]]
  /\ dev = [at |-> "off", slot |-> "ota_0", aged |-> FALSE]
  /\ upd = NoUpdate /\ timer = FALSE
  /\ left = [commands |-> OtaCommands, cuts |-> PowerCuts]
  /\ rewritten = {}

OtaTask ==
  \/ OtaManifest
  \/ OtaOpen
  \/ OtaPerform
  \/ OtaVerify
  \/ OtaFinishes
  \/ OtaReturns

Boot ==
  \/ Bootloader
  \/ AppMain
  \/ AppCrash
  \/ MarkValid

OtaNext ==
  \/ OtaBegin
  \/ OtaTask
  \/ Boot
  \/ Ages
  \/ RebootCommand
  \/ RebootTimer
  \/ PowerCut

OtaSpec == OtaInit /\ [][OtaNext]_otaVars

-----------------------------------------------------------------------------

\* Content the site stands for: with a key, what it signed; without one, whatever
\* it publishes.
Trusted(c) == \E r \in IF key = "none" THEN Release ELSE Signed : Starts(Image(r), c)

\* A slot holds a whole image the site stands for; a whole image is all that is left
\* of the promise once a second update has erased the slot where it was staged.
SoundSlot(s) ==
  /\ WellFormed(flash[s])
  /\ s \in rewritten \/ Trusted(flash[s])

\* At every moment, power failures included, what would boot next and what runs now
\* is a whole image, and one the site stands for, except in a slot that was staged
\* and then written over by a second update whose checks have not passed: the running
\* slot is never written, nothing half-written becomes the boot slot, nothing
\* unverified is staged, and the slot to fall back to holds (run_inner,
\* readback_sha256, the bootloader's rollback).
NextBootIsSound ==
  /\ dev.at # "dead"
  /\ SoundSlot(Chosen(flash, otadata))
  /\ dev.at # "off" => SoundSlot(dev.slot)

\* The same without the exception, which ADR-009 promises: only firmware the site
\* stands for runs, whatever commands arrive while an update waits for its reboot
\* (main.cpp's BEGIN_OTA handler, run_inner).
OnlyTrustedRuns == dev.at # "off" => Trusted(flash[dev.slot])

\* The device always comes up again: an update to a release that crashes ends on
\* the previous one (main.cpp, the rollback handshake).
ComesUp == []<>(dev.at = "up")

=============================================================================
