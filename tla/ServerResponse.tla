---------------------------- MODULE ServerResponse ----------------------------
(***************************************************************************)
(* The "Status Code Message" lines ServerResponse sends to a client, as    *)
(* records of their three parts.  The message " " asks for the default     *)
(* text of the code.                                                       *)
(***************************************************************************)
EXTENDS Integers, TLC

Payload(status, code, message) ==
  [status |-> status, code |-> code, message |-> message]

Default == " "
Message(message, default) == IF message # Default THEN message ELSE default

\* Indexing a std::map with a key it lacks gives the empty string.
Lookup(table, key) == IF key \in DOMAIN table THEN table[key] ELSE ""

ERROR_CODES ==
  "ERPIP"        :> "Error Creating The Pipe"        @@
  "ER-F-OP"      :> "Error Opening The File"         @@
  "ERSHL"        :> "Shell Command Dose Not Exists"  @@
  "ER-SYNC"      :> "Majority Vote Did Not Achieved" @@
  "ER-SYNC-SOK"  :> "Connection Socket Error"        @@
  "ER-SYNC-CONN" :> "Connection To Peers Failed"

\* NO_SUCH_FILE, NO_PRE_OEPN, PARAM_PARS, WRT_FAILED, NO_VALID_COM
FileErrors ==
  -1 :> "No Such File Or Directory" @@
  -2 :> "No Previously Opened File" @@
  -3 :> "Param Parsing Error"       @@
  -4 :> "Writing Failed"            @@
  -5 :> "No Valid Command Received"

file(code, message) ==
  IF code >= 0
  THEN Payload("OK", ToString(code), Message(message, "Operation Success"))
  ELSE Payload("ERR", "ENOENT", Message(message, Lookup(FileErrors, code)))

fileInUse(fd) ==
  Payload("ERR", ToString(fd), "This File Has Already Been Opened")

shell(code, message) ==
  CASE code = 0  -> Payload("OK", "0", Message(message, "Success"))
    [] code = -3 -> Payload("ERR", "EIO", Message(message, "No Command Issued"))
    [] OTHER     -> Payload("ERR", ToString(code), Message(message, "Non-zero Exit"))

fail(key) == Payload("FAIL", key, Lookup(ERROR_CODES, key))

\* No code here: the message follows "SYNC FAIL" at once.
syncFail(key) == Payload("SYNC FAIL", "", Lookup(ERROR_CODES, key))

=============================================================================
