-------------------------- MODULE MCTelegramProxy --------------------------
EXTENDS TelegramProxy
=============================================================================
