--------------------------- MODULE MCConversation ---------------------------
(* The instance of Conversation that TLC checks. *)
EXTENDS Conversation

\* A result without words, a word, words around an image, two words, an image
\* after an empty text.
SomeParts == {<<>>, <<"text">>, <<"text", "image", "text">>, <<"text", "text">>,
              <<"empty", "image">>}
=============================================================================
