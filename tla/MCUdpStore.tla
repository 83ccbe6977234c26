------------------------------- MODULE MCUdpStore -------------------------------
(* Requests that retrieve and insert under a key, under the empty key, under    *)
(* "version" and with a second "=" in the value.                                *)
EXTENDS UdpStore

MCBytes == {"k", "v", "=", "version", "ride"}

MCRequests ==
  {<<"k">>, <<"k", "=", "v">>, <<"k", "=", "=">>, <<"k", "=", "=", "v">>, <<"=">>, <<>>,
   <<"version">>, <<"version", "=", "v">>}

FewRequests == {<<"k">>, <<"k", "=", "v">>, <<"version">>}

MCVersion == <<"version", "=", "ride">>
================================================================================
