---------------------------- MODULE MCDatabaseFile ----------------------------
EXTENDS DatabaseFile

\* What version 1 creates, and three upgrades.
MCStatements == <<2, 1, 2, 1>>

\* misc/migrate_channel_db.py
MCMigrationOrder ==
    <<"mailboxes", "mailbox_sides", "nameplates", "nameplate_sides", "messages">>

\* channel-v2.sql
MCReferences ==
    {<<"mailbox_sides", "mailboxes">>, <<"nameplates", "mailboxes">>,
     <<"nameplate_sides", "nameplates">>}
=============================================================================
