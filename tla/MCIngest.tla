------------------------------ MODULE MCIngest ------------------------------
(***************************************************************************)
(* A small instance of Ingest.  The bodies: `walk' and `walk2' claim one   *)
(* batch id with different contents, `night' is another batch of the same  *)
(* device, `bad' fails the schema, `odd' and `oddbad' hold a character     *)
(* that UTF-8 cannot encode.                                               *)
(***************************************************************************)
EXTENDS Ingest

CONSTANTS walk, walk2, night, bad, odd, oddbad, phone, phone2, id1, id2, day1, day2

MCBody == {walk, walk2, night, bad, odd, oddbad}
MCDeviceOf == [b \in MCBody |-> phone]
MCBatchOf == [b \in MCBody |-> IF b \in {night, odd} THEN id2 ELSE id1]
MCDayOf == [b \in MCBody |-> IF b = night THEN day2 ELSE day1]
MCLabelled == {walk, night}
MCValid == {walk, walk2, night, odd}
MCUnencodable == {odd, oddbad}
MCFlaw == {"invalid_envelope", "invalid_base64", "payload_hash_mismatch",
           "corrupted_lz4_payload", "invalid_json"}

Upload(b, d, i, f) ==
  [device |-> d, batch |-> i, created |-> MCDayOf[b], body |-> b, flaw |-> f]

Plain(b) == Upload(b, phone, MCBatchOf[b], "none")

BrokenHash == Upload(night, phone, id2, "payload_hash_mismatch")
OtherDevice == Upload(walk, phone2, id1, "none")
OtherId == Upload(walk, phone, id2, "none")

MCRequest ==
  {Plain(b) : b \in MCBody} \cup {BrokenHash, OtherDevice, OtherId}

\* Uploads made together meet on the disk or in the error log.
MCScenario ==
  {{Plain(walk), Plain(walk2)}, {Plain(bad), BrokenHash}, {OtherId},
   {OtherDevice}, {Plain(odd)}, {Plain(oddbad)}}
=============================================================================
