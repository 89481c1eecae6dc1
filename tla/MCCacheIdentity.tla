-------------------------- MODULE MCCacheIdentity ---------------------------
(***************************************************************************)
(* CacheIdentity with texts that imitate what the encoding must keep       *)
(* apart: delimiters, an escape written out, braces, the empty text.       *)
(***************************************************************************)
EXTENDS CacheIdentity

MCCharacters == {"a", "b", ":", "%", "3A", "#", "?", "=", "&", "{", "}", "watermark"}
MCNamespaces == {<<"a">>}
MCKeyTypes == {<<"a">>, <<"a", ":", "a">>}
MCIds == {<<>>, <<"a">>, <<":">>, <<"%", "3A">>, <<"a", ":", "a">>, <<"{", "a", "}">>,
          <<"a", "?", "a", "=", "a">>}
MCUseCases == {<<"a">>, <<"a", "#", "a">>, <<"watermark">>}
MCReserved == <<"watermark">>

MCTexts == <<<<"a">>, <<"b">>>>
Entry(name, value) == [name |-> name, value |-> value]
MCArgLists ==
  {<<>>,
   <<Entry(<<"a">>, <<"a">>)>>,
   <<Entry(<<"a">>, <<"a", "&", "b", "=", "a">>)>>,
   <<Entry(<<"a">>, <<"a">>), Entry(<<"b">>, <<"a">>)>>,
   <<Entry(<<"b">>, <<"a">>), Entry(<<"a">>, <<"a">>)>>,
   <<Entry(<<"b">>, Undefined), Entry(<<"a">>, <<"a">>)>>}
=============================================================================
