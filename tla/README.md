# A specification of Moosehead

Moosehead is a MUD server in C, of the Diku/Merc/ROM family (`src/src`, about
94 000 lines). It is one process and one thread: `game_loop_unix` (comm.c)
polls the sockets, serves at most one line of input of each connection in turn, then
runs `update_handler` (update.c), five times a second. There are no locks and
no preemption inside a handler; what goes wrong goes wrong *between* handlers.
A player's login takes ten prompts, a trade a dozen commands, an arena event
minutes of ticks, and between any two of them other players do anything at
all, lose their links, quit, come back through another connection, or have
their memory slot handed to someone else. These are the behaviours this
project models.

The modules follow the build for players (`GAME_VERSION`, as the Makefile
has it). The building port (`OLC_VERSION`) saves nothing and is not modelled.

## Inventory

| component | files | state | operations | what is hard | what makes it right |
|---|---|---|---|---|---|
| login, sessions | comm.c | descriptors (`connected`, `character`), `ch->desc` | `nanny`, `check_parse_name`, `check_reconnect`, `check_playing`, `close_socket`, `init_descriptor` | several connections to one name, lost links at every prompt | one body per name; links mutual; nothing stale enters |
| player files | save.c | one file per player | `save_char_obj`, `load_char_obj` | a file read now and used prompts later; several writers | what a quit saved is not rolled back |
| quit, save, delete | act_comm.c | file, `char_list` | `do_quit`, `do_save`, `do_delete` | order of saving and extracting; copies in other connections | the file has what the player had |
| trade | trade.c | `TRADE_DATA`, `ch->trade`, `req_trade` | `do_trade`'s nine subcommands | invitations that cross, partners who leave, approval and change | goods neither doubled nor taken unasked |
| arena | gladiator.c | `gladiator_info`, the `MHS_GLADIATOR` bit, bets | six commands, `gladiator_update` | a count and a bit that must agree; link-dead gladiators; the bookie | the last one wins; bets are settled once |
| characters, objects | handler.c | `char_list`, rooms, containers, affects | `extract_char`, `char_from_room`, `obj_to_*`, `affect_*` | pointers to what is extracted | every list consistent |
| slots | recycle.c | free lists | `new_*`, `free_*` | a slot that is reused while pointed to | no use after free |
| pulse | comm.c | `descriptor_list`, `d_next`, buffers, `ch->wait` | `game_loop_unix`, `close_socket`, `read_from_buffer`, `process_output` | connections that close each other while the list is walked | nobody served twice or passed over |
| ticks | update.c | timers | `char_update`, `obj_update`, `aggr_update` | lists that change while walked | every timer eventually acts |
| fighting | fight.c, effects.c, special.c | `fighting`, positions | `violence_update`, `damage`, `raw_kill` | a victim that is gone in mid-round | nobody fights the dead, nobody is stuck in a fight that is over |
| affects | handler.c, magic.c, mag2.c, effects.c | `ch->affected`, `obj->affected`, modifiers, bits | `affect_*`, `equip_char`, one function a spell | stacking, expiry, a weapon dropped in the middle of it | modifiers undone exactly |
| objects | act_obj.c, handler.c, fight.c, update.c | inventories, containers, corpses, `wear_loc`, `carry_number` | get, put, wear, sacrifice, decay, `make_corpse` | lists that change while walked; counts kept by differences | an object in one place; hands and counts right |
| followers, pets, groups | act_comm.c, handler.c, magic.c | `master`, `leader`, `pet`, `riding`, `passenger` | `add_follower`, `stop_follower`, `die_follower`, `nuke_pets`, `clear_mount` | five pointers between characters that come and go | no pointer to who is gone; both sides agree |
| movement | act_move.c, act_enter.c | rooms, exits | `move_char`, portals, doors | followers moved recursively | nobody in two rooms |
| immortals | act_wiz.c | everything | purge, disconnect, reboot, switch | done to players in any state | as above |
| areas | db.c | resets | `area_update`, `reset_room` | limits counted globally | limits kept |
| notes | note.c | lists of notes, last-read marks | post, read, remove | files rewritten as a whole | nothing unread is lost |
| interpreter, bans, skills, OLC, tables, ident, IMC | | | | sequential or I/O | |

How they interact: the game loop calls the nanny or the interpreter for a
connection; commands call each other's functions directly (quit calls the
arena, then save, then `extract_char`, which calls `char_from_room`, which
cancels a trade); ticks run over the same lists. All share pointers to
`CHAR_DATA` and `DESCRIPTOR_DATA`, which are recycled. `PROJECT.json` lists
every component with what is modelled of it, and the hazards with the line
where each bites.

## Modules

| module | models | of |
|---|---|---|
| `Connection` | connections, prompts, bodies in the world, player files | comm.c, save.c, act_comm.c, act_wiz.c, recycle.c |
| `Session` | what that promises for a name: out, in play by one connection, link-dead | abstract |
| `ConnectionProofs` | type correctness and the three invariants of `Connection`, and that it implements `Session` | |
| `Trade` | the trade command and what leaving does to it | trade.c, handler.c, act_comm.c |
| `TradeProofs` | type correctness, the four invariants and the action property of `Trade` | |
| `Arena` | singles events of the arena, with betting | gladiator.c, update.c, act_comm.c, fight.c |
| `GameLoop` | the pulse: who is served, while connections come, go and close each other | comm.c, act_comm.c, act_wiz.c |
| `GameLoopProofs` | type correctness and `WalkRight` of `GameLoop`; type correctness, `OwnBet`, `CountRight` and `WinnerIsLast` of `Arena`, which the same loop drives | |
| `Objects` | where every object is, what is worn, and `carry_number` | act_obj.c, handler.c, fight.c, update.c, effects.c |
| `ObjectsProofs` | type correctness and the three invariants of `Objects` | |
| `Affects` | what spells and worn items add to a character and take off again | handler.c, magic.c, effects.c |
| `AffectsProofs` | type correctness and the two invariants of `Affects` | |
| `Company` | who follows, leads, owns, charms and rides whom | act_comm.c, handler.c, magic.c, mag2.c, act_move.c, fight.c |
| `CompanyProofs` | type correctness and the four invariants of `Company` | |
| `Fight` | who fights whom, in which position and where, through rounds and commands | fight.c, handler.c, act_move.c, magic.c, mag2.c, act_comm.c, act_wiz.c |
| `FightProofs` | type correctness, the two invariants and the action property of `Fight` | |
| `SumTheorems` | facts about sums over finite sets, for the coins of `Trade`, the counts of `Objects` and the totals of `Affects` | |
| `MC...` | instances, symmetry sets and data for TLC | |

Every action is one handler run to its end, as the single thread runs it, so
the interleavings TLC explores are orders of handlers.

### Connection

A descriptor has `conn` (`d->connected`) and `char` (`d->character`); a slot
of `CHAR_DATA` has `desc`, `name`, `pid` (`ch->id`, kept in the file) and
`data`. `data` stands for all that a session changes and a save writes:
`Play` increments it, so that the age of a copy can be seen; 0 is a character
of level 1 or less, which losing a link does not save. `inGame` is
`char_list`, `pfile` the files. Two history variables: `atQuit` is what the
person of a name had when it last quit, and `twice` the names under which a
second person was let in before the first was ever saved (`Load` with no file
while somebody bears the name), until nobody bears the name any more.

The states of the nanny from the surname to the attributes only set fields of
`d->character`; they are one state, `Creating`. The rest is prompt by prompt:
`DoubleNewbie`, `MobName`, `OldPlayer`, `NewPlayer` are the four ends of
`CON_GET_NAME`; `Reconnect` and `LogIn` those of a right password (a wrong
one is `Disconnect`); `EnterGame` is `CON_READ_MOTD`. `Reconnect` composes
`check_playing` (close all other holders of the name if one is past its
password) and `check_reconnect` (take over a body without a descriptor),
including the fall-through that would put a character in play outside the
world; `LinksMutual` shows that it is never taken.

`MobName` gives back the slot of the character that `load_char_obj` overwrites
in `d->character`; the code leaks it to the collector, which comes to the same.
A reboot is saves followed by `Crash`. `CON_BREAK_CONNECT` is never set and
has no action. Left out: `switch`/`return`, the line editor, the values of
passwords, the order of the descriptor list, buffers.

`Session` is the abstract specification: for each name, enter, lose the link,
be taken over, leave, or everyone at once in a restart. The refinement
mapping (`PlayerOf`) looks the name up in `inGame`.

### Trade

A character is a slot (`who`, `room`, `has`, `req`, `trade`); a trade has
`trader`, `offer`, `approved`. The pointers from a trade to its traders, and
the invitation, are *slots*, not persons: nothing clears them when a character
leaves, and `Login` takes any free slot, so they may come to mean somebody
else, as in the code. Goods are an amount for each currency and a set of
items; `robes`, which never changes, says which items are robes, and any of
them may be. `seen`, history, is both offers as they were at the last approval
that stands.

Every branch of `do_trade` is an action; `AddCoins` with amount 0 stands for
those refused after the approvals were reset. `Destruct` is `destruct_trade`
with `iFree`; `Clear` is the call without it. `Quit` has the order of the
code: save, extract (what is given back into the extracted character is
lost). Quitting outside of a town first moves the character, which is `Move`
then `Quit`. A trade with oneself is possible (the check is commented out in
the code) and is in the model. `PLR_NOTRADE` and wraith form only refuse
commands and are left out; decay of items, and crashes, are not modelled yet.

### Arena

A person is a slot with `link` (out, here, link-dead), `glad` (the
`MHS_GLADIATOR` bit and whether it waits in the staging room or fights),
`timer`, and its bet (`stake`, `on`). `started`, `timeLeft`, `betCounter` and
`playing` are `gladiator_info`. Two history variables: `rivals` is who could
still fight when a winner was declared, and `astray` says that a gladiator was
left over when the event began, or was purged from it, which are the two ways
for the count to be wrong.

The loops of gladiator.c go over the descriptors, and so only over those
*here*; the commands find people by name, and so also the link-dead. That
difference is the point of the module. `Out` is shared by the four ways to
leave (removed, quit or void, killed, inactive): take the bit and, when the
count says that one is left, call `gladiator_winner` for the first gladiator
among the descriptors. `OneOut` is `remove_gladiator` and
`gladiator_left_arena`, which decrement the count *after* the winner has set
it to 0 (hence -1). `SingleUpdate` removes the inactive ones in any order;
timers of those later in the list than the last removed are counted as
decremented, which no later step can tell, the event being over. `Void` is a
step of its own, although `char_update` and `gladiator_update` run in the same
tick: the first may drop several gladiators, or none, before the second.
`Leave` is `do_quit`, here as `Quit` elsewhere: the names of `Arena` are its
own (`ArenaInit`, `ArenaSpec`, `Nobody`, ...) because one module extends both
it and `GameLoop`.

Left out: gold, odds, prizes and the total of the bets, scores, clans,
`num_of_glads`, team events, crashes.

### GameLoop

`list` is `descriptor_list`, `next` the global `d_next`; `lines` counts the
whole lines in `d->inbuf`, and `wait` is the wait of its character. A pulse is
`Poll` (new connections, broken links), a turn for each connection the walk
comes to, and `Rest` (autonomous motion, output). A turn is one of `Lost`,
`Wait`, `Idle`, or a line handled; a line closes any of the connections the
handlers close (namesakes at the name prompt, at quitting, and by an
immortal), and one more whose output overflows. `Unlink` is `close_socket`'s
list surgery, with its correction of `d_next`. `TakeOver` is the exception:
`check_playing` walks with the same global and leaves it NULL. `seen` and
`over` are history: what the walk did to each in this pulse, and whether a
session was taken over. A command sets the wait of its own character; waits
that others set (blows, spells, `do_lag`) are left out, so that `Answered` says
nothing of who is kept waiting by others. The prompts between the password and the game belong
to `Connection`; here they are commands that close nothing.

### Objects

`place` is `in_room`, `carried_by` and `in_obj` in one, `wear` is `wear_loc`
(two hands and the floating disc), `number` is `carry_number`, and `room` the
room of a character or `None` when it is not in the world. The building
blocks (`ToChar`, `OffList`, `Equip`, `Unequip`, `Extract`, ...) are those of
handler.c on a record of the first three, so that an action is their
composition in the order of the code. `Z` is the set of objects that would zap
their owner at this moment, chosen anew in every step, since alignment changes
in steps that are left out. The order of `ch->carrying` is abstracted, but
three loops walk it, save the next item and take off each: those of
`make_corpse`, `extract_char` and `free_char`. When the primary weapon comes
off, `unequip_char` moves the secondary one to the head of the list, or, if it
zaps its owner, to the room. `Courses` says what the walk may come to, over all
orders of the list: it takes everything; or the secondary weapon was still
ahead, behind something else, and is missed (or falls down); or it was the very
next one, zaps, and the walk goes on from it in the *list of the room*. In the
last case

- `Dead` (make_corpse) puts the weapon, and whatever lies on the floor, into
  the corpse with `obj_to_obj` without `obj_from_room`, which overwrites
  `next_content`: the lists of the corpse and of the room have a tail in common,
  or, with a corpse that decays at once, the list of the room has no end. The
  rest of what was carried stays with the dead, in `carry_number` too. The
  pointers and the counts are modelled; of the lists only that they are `torn`.
  What commands do with such lists is not modelled: the next step is `Reboot`.
- `Leave` (extract_char) extracts the weapon and all that lies on the floor;
  what is still carried goes in `free_char`.
- `Free` (free_char, of a player that has sacrifices) has no room to drop the
  weapon in: `obj_to_room` of a null room is a crash, `Reboot`. And a weapon
  that is missed there stays in `object_list` with a carrier that is freed
  (`Lost`).

Left out: what only refuses commands, money, affects.

### Affects

`mods` are the totals of a player, `bits` is `affected_by` (`AffBits`) and
`imm_flags`, `res_flags` and `vuln_flags`, `spells` and `laid` the affects of
the character and of each item, `worn` where it is worn. What an item does is
`On`: the affects it is made with (`Own`, of the prototype, unless it is in
`enchanted`) and those laid on it.
`Modify` is the first half of `affect_modify`, which adds to a total and sets
or clears a bit; `Apply` is all of it: it drops the primary weapon if the
strength no longer suffices, which is `unequip_char`, which calls
`affect_modify` for every affect of the weapon, which moves the secondary one
over by `equip_char`, and so on. The static variable `depth` stops the
recursion: while a weapon falls nothing else does. So there are two loops over
the affects of an item, `Applied` and, while a weapon falls, `Modified`, and
`EquipBy`, `UnequipBy` and `FallBy` take the loop as a parameter (`Equip`,
`Unequip` and `Fall` are they with the usual one, `Fallen` with that of a
falling weapon); no operator is recursive. A loop goes on over all affects of the item, also if the item has
fallen down meanwhile, as in the code. `Condition` is `reset_char`, the sum
from nothing, and the reference the totals are compared with. Acid on armor
(`Etch`) first copies the affects the item is made with (`Enchanted`, which is
`affect_enchant`), then raises the first that changes the armor, which loses
its type, or adds one without a type.

`Relog` is leaving and coming back: the file is written (`fwrite_char`,
`fwrite_obj`), read (`load_char_obj`, `fread_obj`) and the totals are added up
by `reset_char`. Some items are not written (`Gone`); of the others, the affects
without a type are not (`Copied`); the lists come back in the other order; and
of the bits only `affected_by` is written, to which the bits of the race are
added. `lapsed`, history, is the bits that were set when the player left and
have not been set since.

The spells in the instance stand for their kinds: one with two affects, one of
which gives a bit of `imm_flags` that an item gives too, and one that joins,
takes strength and gives a bit of `affected_by` that an item gives too.

### Company

`at` says where a character is: out, at the prompt (loaded, not in the world),
in limbo (its pet, which `create_mobile` puts on `char_list` but in no room),
or here. The ties are `master`, `leader`, `pet`, `riding`, `passenger` and
`charm` (an affect, which wears off, or the bit, which does not). The building
blocks are functions on a record of the ties (`Stop`, `Add`, `DieFollower`,
`ClearMount`, `Nuke`, `Vanish`), and an action composes them in the order of
the code. `add_follower` may refuse one under wound transfer, after which
`spell_charm_person` sets the leader all the same: `Bound` are those it may
refuse, and the only ones whose leader need not be their master. Anybody may
meet anybody: rooms are left out, which allows more than the code does.

### Fight

`fighting` is `ch->fighting`, `pos` is `ch->position`, `down` those without
hit points. A world is a record of these and of `room`; each call
(`stop_fighting`, `set_fighting`, `damage`, `raw_kill`, ...) is an operator
that gives the set of worlds it may leave, and actions compose them in the
order of the code. `Turned` is the loop at the end of `stop_fighting`: those
who fought the one that stops turn to one who fights them, or stop. The loop
changes the list it searches, and may as well be one step: whom it has turned
already fights somebody who fought it, so none of those still to be turned.

A round is a walk (`left`, `turn`), and the series of blows of one turn or of
one that joins in is `hit`: `first` is the blow that needs no opponent yet,
`more` those before which the code looks whether `ch->fighting` is still the
victim, `loose` those before which it does not. Any blow (`Damage`) may begin
the fight, be refused, be evaded and answered, hurt, kill or knock down, make
the victim flee or recall. `foe` is what `check_assist` remembers while one
after the other joins. Commands run between rounds; what they need is a
position (`Can`), and this, rather than `fighting`, is what refuses to quit,
walk and rest.

Abstracted: hit points to none or some; skills, groups, charm, levels and
idleness to a choice; the arithmetic of damage to its outcomes. One choice of
blow in kailindo's answer stands for those that follow. An area spell is as
many `Cast`s, `peace` as many `Leave`s into the same room. Left out: sitting,
companions that move along, wounds shared out, guards that are called, and the
damage of a wall of fire to who leaves its room (`char_from_room`).

## Runs

Checked by TLC with the configurations beside the modules.

| run | configuration | checks | result |
|---|---|---|---|
| conn_safety | 3 connections, 4 slots, 2 names (one a mobile's), 3 ids, progress to 1; symmetry | `TypeOK` `LinksMutual` `OneBody` `QuitDurable` `SessionSpec` (refinement) | holds |
| trade_two | 2 slots, 2 people, 2 trades, 2 rooms, 1 coin each, 1 item that may be a robe; symmetry | `TypeOK` `Linked` `ApprovalCurrent` `ItemsApart` `CoinsNotMade` `Consent` | holds |
| trade_leaving, trade_quit | as trade_two, without symmetry | `LeavingCancels`, `QuitKeeps` | violated |
| arena_singles | 2 players, 3 ticks to join, 2 of betting, 2 idle, stakes 0 and 1 | `ArenaTypeOK` `OwnBet` `CountRight` `CountdownEnds` | holds |
| arena_last_man | 3 players, 3 ticks to join, 1 of betting, 1 idle, no stakes | `LastManStanding` | violated, 15 states |
| loop | 3 connections, 2 names, 1 line, 1 pulse of wait | `TypeOK` `WalkRight` `Answered` | holds |
| objects | a player with two hands, a mobile, 2 weapons, a disc, a corpse, a gem, 2 rooms; symmetry | `TypeOK` `Rooted` `HandsRight` `NumberRight` | holds |
| objects_corpse | the same, without symmetry | `CorpseHasAll` | violated |
| fight | a player and 2 mobiles, 2 rooms; symmetry | `TypeOK` `FightersInWorld` `PositionTrue` `TurnsOnAttackers` | holds |
| affects | 2 spells, 2 weapons, a belt, a bit of `affected_by` and another; affects stack to 2, 1 etching, nothing astray when blessed | `TypeOK` `Exact` `BitsHeld` | holds |
| company | 2 players, 2 mobiles: one undead, one wild, pet or horse and under wound transfer; 1 team; symmetry | `TypeOK` `CompanyHere` `LeaderIsMaster` `PetIsOwn` `RidersCarried` | holds |

Why the bounds are enough. *Connection*: a race on a name needs the body in
the world, a connection that displaces it and a third that waits at a prompt;
the fourth slot lets a freed one be reused while all three hold one; a copy is
stale or not, for which progress 0 and 1 do (level 1 and above are told apart
as well). `MaxData` bounds `Play` only. *Trade*: a trade is orphaned by a
second one, whence two trades. The number of `Trades` bounds `Accept`; three
people, and two invitations that cross, are left to the proofs, which hold
for any number. *Arena*: with two players there are a bettor and the one bet
on, and the link-dead remainder of an earlier event; a winner declared over
somebody else needs three, whence `arena_last_man`. The code has 5 ticks of betting and 5 of idling
and at least 3 to join; the shorter ones go through the same branches.
`MaxPlaying` bounds the count at `Join`, which otherwise grows without limit
because a purge does not decrement it. *GameLoop*: a walk goes wrong at the
one being served, the next, or one passed by: three. A buffer is empty or
full, a character waits or not. `Overflows` closes at most one reader in a
step, whoever it is. *Objects*: the corpse can be in the bag and the bag in
the corpse, so that containers nest and might come to be in each other; two weapons fill
two hands, both may zap, and there is a third thing for the list or the floor;
counts of 0 (bags), 5 (gems) and 10 differ (214 124 states). *Affects*: every place
an item can fall from, with each kind of affect on it, and for each kind of bit
a spell and an item that give it (274 398 states). `MaxStack`, `MaxEtch`
and `MaxSaves` bound what is repeated: an affect that joins twice, an armor
etched by one more than it is made with, a blessing that is only laid while
the saves are right. *Company*: both players can own, lead,
charm and ride, and each of the mobiles can be any of the kinds that behave
differently while the other is undead; larger companies are left to the
proofs. *Fight*: a third is needed to join, to be turned to, and to take over
a fight; a second room to flee to; more are left to the proofs. Runs with a temporal property have no symmetry, except `trade_two`,
`conn_safety` and `fight`, whose temporal properties are of
steps and symmetric themselves.

No run turns off the check for deadlock: someone can always connect, leave or
come.

Fairness. Two properties need it. `CountdownEnds`: `WF_vars(Countdown)`,
because `update_handler` (update.c, 2278-2295) calls `gladiator_update` at
every tick, and while an event is started and in its countdown
`gladiator_update` always takes that branch. `Answered`: `WF_vars(Next)` of
`GameLoop`, because the loop never blocks (`select` is given a null timeout,
comm.c) and every pulse ends. Nothing is assumed of players or immortals.
`Answered` has a premise, `<>[](~over)`: as each takeover ends the walk of
its pulse, one takeover in every pulse would keep those behind it unread for
ever.

### What the violated runs show

- `trade_leaving`: two invitations accepted one after the other; the second
  overwrites `ch->trade`, and leaving cancels only that one.
- `trade_quit`: quitting saves, and only then is the offer given back.
- `arena_last_man`: a gladiator link-dead at the end of an event keeps its
  bit; in the next event, which counts two, an immortal removes the leftover,
  the count is "2", and one of the two fighters wins against the other.
- `objects_corpse`: the dead held two weapons with something between them in
  the list; taking the primary one off moves the secondary to the head, behind
  the walk of `make_corpse`.

### What the code gets wrong and the properties except

Three properties that hold do so with an exception, where the code does not do
what one would expect. The exception is part of the model and of the property,
not left out of it.

- `QuitDurable`, the names in `twice`. Somebody plays a new character that was
  never saved; a second connection gives the same name. There is no file, so
  `load_char_obj` makes a blank character with a new id (save.c:793), and
  `check_reconnect` copies the password of the first into it
  (comm.c:3984-3987), so that it waits at the password prompt. The first
  plays, quits and is saved. The loop at the end of `do_quit` closes the
  connections of the same *id* (act_comm.c:2297-2308); the second has another,
  stays, enters the game blank, and is saved over the first. `QuitDurable`
  holds of every name but these. It is about quits: of copies that wait at a
  prompt while an immortal purges the person it says nothing.
- `Rooted`, `HandsRight`, `NumberRight`, of lists that are `torn`. They are
  about the pointers of objects and the counts, and hold of these after a walk
  that went astray as well. That the corpse and the room then share a list is
  reached in the model, and no invariant excludes it; nor that `free_char`
  crashes or leaves a weapon with a freed carrier (`Lost`).
- `BitsHeld`, the bits in `lapsed`. Immunities, resistances and vulnerabilities
  that come from a spell or an item are not in the file, and neither
  `load_char_obj` nor `reset_char` sets them again: who leaves and comes back
  is without them, though the spell still runs and the item is still worn,
  until they are given anew. `BitsHeld` says that nothing else clears a bit
  that is given, and that those of `affected_by` are not lost in this way. The
  affect of acid on an item has no type, so `fwrite_obj` drops it: the armor is
  whole again after a return. `Exact` holds throughout, as `reset_char` adds up
  what was read.

`RidersCarried` is one-directional. `do_mount` does not look at what the rider
rides already, so the first of two mounts keeps a passenger it has lost, and a
stale pointer when that one leaves; the model does the same, and the property,
which starts at the rider, does not speak of it.

## Proofs

TLAPS proves, for every value of the constants that satisfies the named
assumption of the module (`ConstAssumption`, `TradeAssumption`,
`ArenaAssumption`, `LoopAssumption`, `CompanyAssumption`, `FightAssumption`,
`ObjectsAssumption`, `AffectsAssumption`: little more than that `None` is none of the rest, that
kinds of things are apart and that the bounds are numbers; where something is
counted, also that what is counted is finite, as memory is: the persons of
`Arena`, the slots, persons and trades of `Trade`, the objects of `Objects`,
the spells and items of `Affects`; of these, also that a spell that joins has
one affect, which is what `affect_join` is called with, and that the bits of a
race and those of `affected_by` are bits, and that the affects an item is made
with are not of the types that are laid on it):

- `ConnectionProofs`: `TypeCorrect`, `LinksAreMutual`, `OneBodyPerName`,
  `QuitIsDurable`. `OneBody` is far from inductive: nothing looks for a second
  body when one enters the world. The invariant adds what makes it
  impossible: a descriptor and its character point at each other, and the
  character is in the world exactly when the descriptor plays (`DescsOK`,
  `CharsOK`); at most one descriptor of a name is on its way into the world
  (`OneLogin`, the work of `check_parse_name`); one that is new or past its
  password has no body of its name in the world (`AlonePending`, the work of
  `check_reconnect` and `check_playing`). `QuitDurable` needs that an id
  belongs to one name (`IdsOK`), since `do_quit` closes by id while the nanny
  closes by name, and that all who bear a name have one id, the one of its
  file, unless the name is in `twice` (`OnePerson`): then the loop leaves none
  of them behind. `LinksMutual` follows from `DescsOK` and `CharsOK`.
  Of the refinement, `ImplementsSession`, that is `Spec => SessionSpec`: with
  one body to a name (`OneBody`) the choice of a body in the refinement mapping
  is no choice (`View`); each action is then shown to be one of the four steps
  of `Session` for one name, its `Restart`, or to change nothing of what is
  mapped. `TakeOverStep` uses the invariant of the next state: that a
  descriptor in play holds a body in the world.
- `TradeProofs`: `TypeCorrect`, `TradesLinked`, `ApprovalsCurrent`,
  `ItemsNotDoubled`, `NoCoinsMade`, `SwapsByConsent`. The first three
  are inductive together. `Linked` survives accepting, which overwrites a
  pointer to an older trade, because the overwritten trade stays in use and
  the new one has both as its sides; releasing a trade clears the pointers
  of both its sides, whoever is in those slots by then. `ItemsApart` is proved
  on top of them, of one item at a time (`Sole`): nothing but `Linked` says
  that the trade a character puts things into is a place where things are. It
  needs that a trade not in use offers nothing (`FreeEmpty`), or `Accept`
  would bring its goods back into the world. `CoinsNotMade` sums over places
  that come and go; the proof sums over all places there may be, a place that
  does not exist counting nothing, and a command is up to three moves between
  two of them, some of which lose what they move. `Consent` compares what
  belongs to a character before and after a step, in its hands and on its side
  of whatever trades it has, including those it no longer points to. That a
  swap gives exactly what was seen takes all of the above: `ApprovalCurrent`
  (what was seen is what is on offer), `Sole` (an item on offer is nowhere
  else, so that taking it from one set and adding it to another is what it
  says) and that robes are never on offer.
- `GameLoopProofs`, of `Arena`: `ArenaTypeCorrect`, `OwnBets`, `CountsAgree`,
  `WinnersAreLast`. `OwnBet` and the types are inductive
  together; the bits and the bets are changed by many actions, but only a bet
  and a join can set them against each other, and both look. `CountRight` is
  inductive with the types: whoever leaves is a gladiator and takes as many from
  the count as from the bits (`OutCounts`), a start counts from nothing, and from
  no bits unless somebody was left over. `WinnerIsLast` follows of each step: when the count says that one will be left, one is, and
  the first among the descriptors has no rival (`OutWinner`). It is the only
  property that is proved and not run: it needs three players, and says of
  `arena_last_man` that a gladiator left over, or purged, is what it takes.
- `GameLoopProofs`, of `GameLoop`: `TypeCorrect`, `WalkStaysRight`. Who is ahead is said of
  any list and any place in it (`AheadIn`). Three facts carry the proof: moving
  on leaves the one served behind and nobody else (`AheadAfter`); closing a
  connection takes it, and nobody else, from the list and from those ahead, and
  leaves `d_next` in the list, wherever the two are (`UnlinkOne`); so, by the
  first failure in the walk of `Unlinked`, does closing any set of them
  (`UnlinkAll`). The invariant adds that at the poll nobody has been served
  (`Fresh`), without which the next walk would not start right.
- `CompanyProofs`: `TypeCorrect`, `CompanyStaysHere`, `LeadersAreMasters`,
  `PetsAreOwn`, `RidersAreCarried`. The invariant `Good` is stated of a record
  of ties and of where everybody is, and each building block is shown to keep
  it by itself, so that an action is the composition of a few lemmas. It adds
  to the four that a slot which is out points nowhere and one at the prompt
  follows nobody (`FreeOK`), that a pet is where its owner is and never undead
  (`PetOK`: which is why betraying the undead and turning them, which do not
  look at `pet`, take nobody's pet away), that who rides is in the world
  (`RideOK`), and that in limbo, too, the leader is the master (`LeadOK`),
  without which a pet could enter led by somebody gone. `Vanish`
  (`extract_char`) needs what `die_follower` leaves: nobody follows, is led by,
  owns or rides the slot.
- `FightProofs`: `TypeCorrect`, `NobodyFightsTheFreed`, `HeldOnlyInFights`,
  `NobodyTurnsOnBystanders`. Both invariants are stated of a record (`Sound`),
  and each call is shown to turn a sound world into sound worlds, whatever it
  chooses; `Inv` adds that a series of blows has characters on both sides.
  For the action property, what a blow does is split in two: the two take each
  other on (`Paired`), then one of them is let go of (`Released`). Whoever is
  turned is turned to one that fought it before, since the two of the pair
  fight each other.

- `ObjectsProofs`: `Typed`, `NothingLost`, `WornRightly`, `CountedRightly`. `Tree` is stated of the places
  alone and `Outfit` of the places and of what is worn; three lemmas cover all
  that happens to a tree (things go to a room, a character or a container that
  is at such a place; things vanish with all that is in them; a container
  spills into what it is in) and three what happens to an outfit (what is not
  worn moves, things come off, one goes on). `Sound` has both, and the blocks
  of handler.c are shown to keep it. That nothing is in itself is stated, as
  in `Rooted`, by sets of containers that are closed under being in one
  another, so that no recursion over depth is needed. `Outfit` adds to
  `HandsRight` that only who can fight with two weapons has a second one
  (`Dual`): `wear_obj` takes off the first weapon of anybody else without
  looking for a second, which would slip into its place. For the counts,
  `Under` is what is at a place at any depth: the one set that holds what is
  directly there and all that is in one of its members (`Within`; in a forest
  there is only one such set, so a move is described by what it must be
  afterwards). A number is right when it is the total of the units of what is
  under the character (`Tallied`); a move adds or takes the units of a thing
  and of all under it, which is what `get_obj_number` counts, and only for
  the one character at whose place the thing is (`Carriers`). As in the code
  no step recounts: the tally holds because every block moves a whole subtree.
  Of the walks that may go astray, `CoursesAre` says what the three have in
  common: each of the things carried is taken, left or fallen, only a second
  weapon falls, and no first one is left. `DeadShape` is then what `make_corpse`
  does to places, `DeadSound` and `StrippedSound` that trees and outfits
  survive it and the extraction after it; `Parted` that what goes from one
  character and from the floor is missed in the number of that one alone.
- `AffectsProofs`: `TypeCorrect`, `TotalsExact`, `BitsStayHeld`. `IInv` has, of
  `Exact` and `BitsHeld`, forms that can be composed (`Settled`, `AllHeld`), and
  what is laid on items (`LaidFits`: a blessing or curse changes the saves and
  gives no bit; which is why laying one on a worn item disturbs nothing but the
  saves). The invariant holds between actions only:
  inside, an item is in its place before the loop has added its affects, and
  a weapon may fall at any of them. So the lemmas are about the difference
  between the totals and the sum over what is worn and cast (`Off`), and about
  which of the bits that are given are set (`Held`). `Turn` says how a step
  changes both. A step of a loop turns the state by its affect (`StepRight`), a
  whole loop by the amount of the list (`WalkRight`, by the first step at which
  it does not); putting an item in its place and out of it turns it back by as
  much (`EquipRight`, `TakeOffRight`). Whatever falls in the middle is `Steady`:
  it leaves the difference as it was, *whatever that was*, and only takes things
  off, so the loop around it need not know. This is shown in two rounds: first
  of the loops while a weapon falls, whose steps are `Modify` alone, then,
  since `Apply` is `Modify` and perhaps such a fall, of all. A bit that a step
  takes may still be given: it is missing until `affect_check` (`TurnCheck`).
  In `affect_remove` the affect is still listed while a weapon falls for it, so
  the fall may find a bit given by what is about to go: it is set once more
  than it need be, never once less. Etching and returning rearrange lists instead of
  adding one affect: what is copied is the same affects in another order
  (`CopiedIs`), which come to the same (`AmountConcat`), and etching makes it
  one armor more and gives no bit (`Worsened`, `EtchOn`). Of a return,
  `ConditionIs` says that what `reset_char` adds up is what the invariant
  wants, whatever the lists; and the bits that are lost are in `lapsed`.
- `SumTheorems`: what `Trade`, `Objects` and `Affects` need of `SumFunctionOnSet`: that the sum over
  a finite set exists, adds up over disjoint parts, and changes by the
  difference when the function changes at one or two points or a part of it is
  moved, and that a sum over 1..n goes over to 1..n+1 and takes one more term
  in its midst. The library's induction takes an operator and cannot be cited, so each
  is proved by a smallest counterexample (`MinimalSet`).

Each proof module states an invariant, proves that the initial states have it
and that every action preserves it, one step per action, and concludes with
PTL.

Only model-checked: the two properties that need fairness, `CountdownEnds`
and `Answered`. Out of the prover's reach for good: liveness, induction over
data, and recursive operators, of which there are none left: a loop is a
function on the numbers up to the length of its list (`walk` in `Affects`,
`Unlinked` in `GameLoop`).

## Not modelled

In the order in which it matters:

1. Of fights: that they end, or go on in every round, for which the instance
   is too large; groups, wounds shared out, special functions of mobiles.
2. `Arena`: team events, the odds of `gladiator_bet_resolve`, gold.
3. The timers of `char_update`: autosave and autoquit (one character per
   tick), regeneration.
4. `Trade` with decay of items and with crashes.
5. Movement in a chain (followers, mounts), doors and portals; areas and
   resets; notes.

Not planned: most spells, skills, classes and the amounts of damage (sequential
arithmetic on one character, in the bulk of the source: magic.c, mag2.c, the
largest part of fight.c), the commands that only print, the editors of the
building port, tables, parsers of area files, aliases and macros, bans, the
ident lookup, and third-party code (the inter-mud channel, the collector).
