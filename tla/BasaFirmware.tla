----------------------------- MODULE BasaFirmware -----------------------------
(***************************************************************************)
(* The update of the FPGA image (basa_fwupdate.c): a program opens the     *)
(* device, asks the ARM OS of the FPGA for the upload, sends the image in  *)
(* messages through a FIFO, asks for the update of a flash and waits.      *)
(* That is the order which the comment of the file gives; the driver takes *)
(* every request of a program at any time, and so does the model.          *)
(*                                                                         *)
(* Request, magic number and update are written to ZYNQ_G_CONFIG, grant    *)
(* and completion come back in ZYNQ_G_PS_INTR_STATUS.  The magic number    *)
(* 0xBCD has the bits of the upload request, of the MMC and of the SPI     *)
(* update set, and a wait that times out leaves the register as it is.     *)
(* All registers of a card that is gone read as ones.                      *)
(*                                                                         *)
(* The ARM OS is not part of the repository.  Assumed of it: it answers a  *)
(* request followed by the magic number, and then begins with an empty     *)
(* FIFO; it writes a flash when an update is asked for after a grant and   *)
(* the FIFO is empty; and it looks at no new request while it writes.      *)
(***************************************************************************)
EXTENDS Integers, FiniteSets

CONSTANTS
    Procs,      \* programs that update, each with one thread
    FifoSize,   \* messages that fit into the FIFO
    ImageLen,   \* messages of an image
    TypesAsked, \* the flashes that programs ask for; MMC and SPI are alike
    MaxTries    \* bound: uploads and updates that are asked for

VARIABLES
    opened,   \* zdev_fw_opened
    pc,       \* where each program is
    tx_num,     \* of each program: messages that its ioctl has still to send
    cfg,      \* ZYNQ_G_CONFIG: the set of its firmware bits
    status,   \* ZYNQ_G_PS_INTR_STATUS
    fifo,     \* messages in the FIFO
    got,      \* messages that the ARM OS has taken since it gave the grant
    arm,      \* what the ARM OS is about
    flash,    \* the flash it has written last, or is writing
    gone,     \* the card does not answer any more
    sent,     \* history: messages that each program has sent since it asked for an upload
    fine,     \* history: programs whose last upload was granted, and all of whose requests since then were answered with success
    lost,     \* history: a message was written to a full FIFO
    raced,    \* history: two programs have had the device open
    astray,   \* history: data or an update was accepted from a program out of the documented order
    late,     \* history: a wait for an update was given up
    tries

vars == <<opened, pc, tx_num, cfg, status, fifo, got, arm, flash, gone, sent, fine, lost, raced, astray, late, tries>>

Magic == {"upload", "magic", "mmc", "spi"}
Updates == {"qspi", "mmc", "spi"}
Ones == Magic \union Updates \union {"grant", "done"}
Holders == {p \in Procs : pc[p] \notin {"closed", "open"}}
Goto(p, l) == pc' = [pc EXCEPT ![p] = l]
Read(reg) == IF gone THEN Ones ELSE reg
Write(val) == cfg' = IF gone THEN cfg ELSE val
Clear == status' = IF gone THEN status ELSE {}
Full == gone \/ fifo = FifoSize
ps == <<fifo, got, arm, flash, gone>>
-----------------------------------------------------------------------------
\* The flag is read, and set in another step.
zynq_fw_open(p) ==
    /\ \/ pc[p] = "closed" /\ opened = 0 /\ Goto(p, "open") /\ UNCHANGED <<opened, raced>>
       \/ /\ pc[p] = "open" /\ opened' = 1 /\ Goto(p, "idle")
          /\ raced' = (raced \/ Holders # {})
    /\ UNCHANGED <<tx_num, cfg, status, ps, sent, fine, lost, astray, late, tries>>

zynq_fw_release(p) ==
    /\ pc[p] = "idle"
    /\ opened' = 0 /\ Goto(p, "closed")
    /\ sent' = [sent EXCEPT ![p] = 0] /\ fine' = fine \ {p}
    /\ UNCHANGED <<tx_num, cfg, status, ps, lost, raced, astray, late, tries>>

\* zynq_fw_upload_start: refused while a request stands; the old status is cleared ...
UploadRequest(p) ==
    /\ pc[p] = "idle" /\ tries < MaxTries /\ tries' = tries + 1
    /\ IF "upload" \in Read(cfg)
       THEN UNCHANGED <<pc, cfg, status>>
       ELSE Goto(p, "magic") /\ Clear /\ Write({"upload"})
    /\ sent' = [sent EXCEPT ![p] = 0] /\ fine' = fine \ {p}
    /\ UNCHANGED <<opened, tx_num, ps, lost, raced, astray, late>>

\* ... then the magic number is written ...
UploadMagic(p) ==
    /\ pc[p] = "magic" /\ Write(Magic) /\ Goto(p, "wait_grant")
    /\ UNCHANGED <<opened, tx_num, status, ps, sent, fine, lost, raced, astray, late, tries>>

\* ... and the grant waited for.  Only then is the register cleared.
UploadGrant(p) ==
    /\ pc[p] = "wait_grant" /\ Goto(p, "idle")
    /\ \/ "grant" \in Read(status) /\ Write({}) /\ fine' = fine \union {p}
       \/ "grant" \notin Read(status) /\ UNCHANGED <<cfg, fine>>
    /\ UNCHANGED <<opened, tx_num, status, ps, sent, lost, raced, astray, late, tries>>

\* ZYNQ_IOC_FW_IMAGE_UPLOAD: n messages.  Refused when the card does not answer, or when memory or the data cannot be had.
UploadData(p, n) ==
    /\ pc[p] = "idle" /\ sent[p] + n <= ImageLen   \* a program has no more to send than the image
    /\ \/ /\ ~gone /\ Goto(p, "send") /\ tx_num' = [tx_num EXCEPT ![p] = n]
          /\ astray' = (astray \/ p \notin fine) /\ UNCHANGED fine
       \/ fine' = fine \ {p} /\ UNCHANGED <<pc, tx_num, astray>>
    /\ UNCHANGED <<opened, cfg, status, ps, sent, lost, raced, late, tries>>

\* Mutant: the FIFO is not looked at.
zynq_fw_tx_one_NoCheck(p) ==
    /\ Goto(p, "write")
    /\ UNCHANGED <<opened, tx_num, cfg, status, ps, sent, fine, lost, raced, astray, late, tries>>

\* zynq_fw_tx_one, first half: has the FIFO room for a message?
zynq_fw_tx_one(p) ==
    /\ ~Full /\ Goto(p, "write")
    /\ UNCHANGED <<opened, tx_num, cfg, status, ps, sent, fine, lost, raced, astray, late, tries>>

\* zynq_fw_tx_user: one message after the other, until all are sent, or until a second is over and the FIFO still full; the count is only returned after a success.
zynq_fw_tx_user(p) ==
    /\ pc[p] = "send"
    /\ \/ zynq_fw_tx_one(p)
       \/ /\ Full /\ Goto(p, "idle")
          /\ tx_num' = [tx_num EXCEPT ![p] = 0] /\ fine' = fine \ {p}
          /\ UNCHANGED <<opened, cfg, status, ps, sent, lost, raced, astray, late, tries>>

\* zynq_fw_tx_one, second half: the 16 bytes are written; nothing has been locked since the test.
TxWrite(p) ==
    /\ pc[p] = "write"
    /\ fifo' = IF Full THEN fifo ELSE fifo + 1
    /\ lost' = (lost \/ (fifo = FifoSize /\ ~gone))
    /\ tx_num' = [tx_num EXCEPT ![p] = @ - 1] /\ sent' = [sent EXCEPT ![p] = @ + 1]
    /\ Goto(p, IF tx_num[p] > 1 THEN "send" ELSE "idle")
    /\ UNCHANGED <<opened, cfg, status, got, arm, flash, gone, fine, raced, astray, late, tries>>

\* zynq_fw_update: refused while the same update stands; requested, ...
UpdateRequest(p, type) ==
    /\ pc[p] = "idle" /\ tries < MaxTries /\ tries' = tries + 1
    /\ IF type \in Read(cfg)
       THEN UNCHANGED <<pc, cfg, status, astray>>
       ELSE /\ Goto(p, "wait_done") /\ Clear /\ Write({type})
            /\ astray' = (astray \/ p \notin fine \/ sent[p] # ImageLen)
    /\ fine' = fine \ {p}
    /\ UNCHANGED <<opened, tx_num, ps, sent, lost, raced, late>>

\* ... and waited for.
UpdateDone(p) ==
    /\ pc[p] = "wait_done" /\ Goto(p, "idle")
    /\ \/ "done" \in Read(status) /\ Write({}) /\ UNCHANGED late
       \/ "done" \notin Read(status) /\ late' = TRUE /\ UNCHANGED cfg
    /\ UNCHANGED <<opened, tx_num, status, ps, sent, fine, lost, raced, astray, tries>>
-----------------------------------------------------------------------------
(* The card: its ARM OS, and its end.                                      *)

driver == <<opened, pc, tx_num, cfg, sent, fine, lost, raced, astray, late, tries>>

\* An upload is asked for, unless a flash is being written ...
ArmAsked ==
    /\ ~gone /\ cfg = {"upload"} /\ arm \notin {"asked", "writing"}
    /\ arm' = "asked"
    /\ UNCHANGED <<driver, status, fifo, got, flash, gone>>

\* ... and granted when the magic number follows; it begins with an empty FIFO.
ArmGrant ==
    /\ ~gone /\ cfg = Magic /\ arm = "asked"
    /\ arm' = "granted" /\ got' = 0 /\ fifo' = 0
    /\ status' = status \union {"grant"}
    /\ UNCHANGED <<driver, flash, gone>>

\* Messages are taken out of the FIFO, no more than an image has.
ArmTake ==
    /\ ~gone /\ arm = "granted" /\ fifo > 0 /\ got < ImageLen
    /\ fifo' = fifo - 1 /\ got' = got + 1
    /\ UNCHANGED <<driver, status, arm, flash, gone>>

\* A flash is written when that is asked for, with what has come ...
ArmUpdate ==
    /\ ~gone /\ arm = "granted" /\ fifo = 0
    /\ \E type \in Updates : cfg = {type} /\ flash' = type
    /\ arm' = "writing"
    /\ UNCHANGED <<driver, status, fifo, got, gone>>

\* ... which takes its time.
ArmDone ==
    /\ ~gone /\ arm = "writing" /\ arm' = "idle" /\ got' = 0
    /\ status' = status \union {"done"}
    /\ UNCHANGED <<driver, fifo, flash, gone>>

CardGone ==
    /\ ~gone /\ gone' = TRUE
    /\ UNCHANGED <<driver, status, fifo, got, arm, flash>>
-----------------------------------------------------------------------------
Init ==
    /\ opened = 0 /\ pc = [p \in Procs |-> "closed"] /\ tx_num = [p \in Procs |-> 0]
    /\ cfg = {} /\ status = {} /\ fifo = 0 /\ got = 0
    /\ arm = "idle" /\ flash = "none" /\ gone = FALSE
    /\ sent = [p \in Procs |-> 0] /\ fine = {}
    /\ lost = FALSE /\ raced = FALSE /\ astray = FALSE /\ late = FALSE /\ tries = 0

Next ==
    \/ ArmAsked \/ ArmGrant \/ ArmTake \/ ArmUpdate \/ ArmDone \/ CardGone
    \/ \E p \in Procs :
         \/ zynq_fw_open(p) \/ zynq_fw_release(p)
         \/ UploadRequest(p) \/ UploadMagic(p) \/ UploadGrant(p) \/ zynq_fw_tx_user(p) \/ TxWrite(p) \/ UpdateDone(p)
         \/ \E n \in 1..ImageLen : UploadData(p, n)
         \/ \E type \in Updates \intersect TypesAsked : UpdateRequest(p, type)

Spec == Init /\ [][Next]_vars
-----------------------------------------------------------------------------
\* As long as the two steps of an open have let in one program only, and the card answers: no message is written to a full FIFO, though nothing is locked between the test and the write; a program whose upload was granted and whose data was accepted since has a grant that stands and all its messages on the way, whatever was asked for, given up or half sent before; a flash is written with the whole image, if programs keep the documented order; and the completion that ends a wait is that of the flash which was asked for, if no wait was given up.
FirmwareSafe ==
    ~raced /\ ~gone =>
      /\ ~lost
      /\ \A p \in fine : arm = "granted" /\ got + fifo = sent[p]
      /\ arm = "writing" /\ ~astray => got = ImageLen
      /\ \A p \in Procs : pc[p] = "wait_done" /\ "done" \in status /\ ~late => cfg = {flash}
=============================================================================
