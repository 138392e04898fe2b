----------------------------- MODULE MCUsbCdc -----------------------------
(* Small instances of UsbCdc for TLC. *)
EXTENDS UsbCdc

MCBytes == {"t1", "t2", "r1", "r2"}
MCFrame == <<"t1", "t2">>
MCReplies == {<<"r1">>, <<"r1", "r2", "r1">>}

\* One kind of byte, for the runs about control and progress.
OneByte == {"b"}
OneFrame == <<"b", "b">>
OneReply == {<<"b">>}
=============================================================================
