------------------------------ MODULE MCTelegram ------------------------------
(* One user, two chats and two pairing codes, so that a chat is linked a second *)
(* time, or another one first, while the first link is in use; two requests.    *)
EXTENDS Telegram, TLC

CONSTANTS t1, t2, k1, k2, bia, chat1, chat2, ws

Symmetry == Permutations(Requests) \cup Permutations(Codes) \cup Permutations(Chats)
===============================================================================
